------------------------------ MODULE Coremap ------------------------------
(***************************************************************************)
(* The table of physical pages, kern/vm/vm.c: coremap_bootstrap,           *)
(* allocate_kernel_pages, allocate_user_page, free_kpages,                 *)
(* release_physical_page and coremap_memory_usage.                         *)
(*                                                                         *)
(* Every operation holds coremap_lock from beginning to end, so that each  *)
(* is one step.  Pages are numbered as in the code, by paddr / PAGE_SIZE.  *)
(* Pages below StartIdx hold the kernel and the coremap.  The state        *)
(* in_eviction is left out: evict_page, which sets it, is never called.    *)
(* The variable chunks is what the callers hold: the runs of kernel pages  *)
(* that alloc_kpages returned and free_kpages has not been given yet.      *)
(***************************************************************************)
EXTENDS Integers, FiniteSets

CONSTANTS StartIdx,  \* memory_start / PAGE_SIZE
          EndIdx,    \* memory_end / PAGE_SIZE
          Owners,    \* address space and virtual page of a user page
          NULL

ASSUME CoremapAssumption ==
  /\ StartIdx \in Nat \ {0} /\ EndIdx \in Nat /\ StartIdx <= EndIdx
  /\ NULL \notin Owners

Pages == 0 .. EndIdx - 1
Memory == StartIdx .. EndIdx - 1
Run(i, n) == i .. i + n - 1

VARIABLES coremap, allocated_pages_count, chunks

coremapVars == <<coremap, allocated_pages_count, chunks>>

FreePage == [state |-> "free", chunk_size |-> 0, owner |-> NULL]
FixedPage(n) == [state |-> "fixed", chunk_size |-> n, owner |-> NULL]
UsedPage(o) == [state |-> "used", chunk_size |-> 1, owner |-> o]

coremap_bootstrap ==
  /\ coremap = [i \in Pages |-> IF i < StartIdx THEN FixedPage(0) ELSE FreePage]
  /\ allocated_pages_count = 0
  /\ chunks = {}

-----------------------------------------------------------------------------
\* Fault: the count of free pages is not reset at a page in use.
FitsSkipping(i, n) ==
  /\ n >= 1 /\ Run(i, n) \subseteq Memory
  /\ coremap[i + n - 1].state = "free"

\* A run of n free pages begins at i: the loop counts them without a gap.
Fits(i, n) ==
  /\ n >= 1 /\ Run(i, n) \subseteq Memory
  /\ \A j \in Run(i, n) : coremap[j].state = "free"

\* The loop stops at the first run; no run is a failure that changes nothing.
FirstFit(i, n) == Fits(i, n) /\ \A j \in Memory : Fits(j, n) => i <= j

\* alloc_kpages takes the first run that fits, which begins at i.
take_run(i, n) ==
  /\ i \in Memory /\ FirstFit(i, n)
  /\ coremap' = [j \in Pages |-> IF j \in Run(i, n)
                                 THEN FixedPage(IF j = i THEN n ELSE 0) ELSE coremap[j]]
  /\ allocated_pages_count' = allocated_pages_count + n
  /\ chunks' = chunks \cup {<<i, n>>}

alloc_kpages(n) == \E i \in Memory : take_run(i, n)

\* Fault: the count drops by one page whatever the size of the run.
free_kpages_miscounted(i, n) ==
  /\ <<i, n>> \in chunks
  /\ LET size == coremap[i].chunk_size IN
       /\ coremap' = [j \in Pages |-> IF j \in Run(i, size) THEN FreePage ELSE coremap[j]]
       /\ allocated_pages_count' = allocated_pages_count - 1
  /\ chunks' = chunks \ {<<i, n>>}

\* A caller gives back a run it holds; its size is read from the first page.
free_kpages(i, n) ==
  /\ <<i, n>> \in chunks
  /\ LET size == coremap[i].chunk_size IN
       /\ coremap' = [j \in Pages |-> IF j \in Run(i, size) THEN FreePage ELSE coremap[j]]
       /\ allocated_pages_count' = allocated_pages_count - size
  /\ chunks' = chunks \ {<<i, n>>}

\* allocate_user_page takes the first free page, i, for the owner.
take_page(i, o) ==
  /\ i \in Memory
  /\ coremap[i].state = "free"
  /\ \A j \in Memory : coremap[j].state = "free" => i <= j
  /\ coremap' = [coremap EXCEPT ![i] = UsedPage(o)]
  /\ allocated_pages_count' = allocated_pages_count + 1
  /\ UNCHANGED chunks

allocate_user_page(o) == \E i \in Memory : take_page(i, o)

\* The owner of a user page gives it back.
release_physical_page(i) ==
  /\ i \in Memory
  /\ coremap[i].state = "used"
  /\ coremap' = [coremap EXCEPT ![i] = FreePage]
  /\ allocated_pages_count' = allocated_pages_count - 1
  /\ UNCHANGED chunks

CoremapNext ==
  \/ \E n \in 1 .. EndIdx - StartIdx : alloc_kpages(n)
  \/ \E c \in chunks : free_kpages(c[1], c[2])
  \/ \E o \in Owners : allocate_user_page(o)
  \/ \E i \in Memory : release_physical_page(i)

CoremapSpec == coremap_bootstrap /\ [][CoremapNext]_coremapVars

-----------------------------------------------------------------------------
(* Properties *)
PageEntry == [state : {"free", "fixed", "used"}, chunk_size : Nat, owner : Owners \cup {NULL}]

\* Every entry of the coremap has its type; runs have at least one page.
CoremapTypeOK ==
  /\ coremap \in [Pages -> PageEntry]
  /\ allocated_pages_count \in Int
  /\ chunks \subseteq Memory \X (Nat \ {0})

\* The runs of pages that alloc_kpages has handed out lie in memory, do not
\* overlap each other, and hold no page that is free or a user's: no page is
\* ever given to two holders, and free_kpages gives back all of one run and
\* nothing of another.
ChunksDisjoint ==
  \A c \in chunks :
    /\ Run(c[1], c[2]) \subseteq Memory
    /\ \A j \in Run(c[1], c[2]) : coremap[j].state = "fixed"
    /\ \A d \in chunks : d # c => Run(c[1], c[2]) \cap Run(d[1], d[2]) = {}

\* Every fixed page of memory belongs to a run somebody holds: nothing leaks.
NoPageLeaked ==
  \A i \in Memory : coremap[i].state = "fixed" => \E c \in chunks : i \in Run(c[1], c[2])

\* What coremap_memory_usage reports is the number of pages that are taken:
\* "it should have been correct at some point in time".
UsageExact ==
  allocated_pages_count = Cardinality({i \in Memory : coremap[i].state # "free"})

\* Physical memory: runs of pages exclude each other, none is lost, and the
\* count is right (alloc_kpages, free_kpages, coremap_memory_usage).
MemorySound == ChunksDisjoint /\ NoPageLeaked /\ UsageExact
=============================================================================

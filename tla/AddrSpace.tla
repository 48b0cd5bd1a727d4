----------------------------- MODULE AddrSpace -----------------------------
(***************************************************************************)
(* User memory: vm_fault and tlb_invalidate_entry of kern/vm/vm.c,         *)
(* as_copy, as_destroy and as_activate of kern/vm/addrspace.c, sys_sbrk    *)
(* and the change of address space in sys_execv of                         *)
(* kern/syscall/proc_syscalls.c, and proc_setas of kern/proc/proc.c, on    *)
(* top of the coremap.                                                     *)
(*                                                                         *)
(* Each CPU has a TLB that the kernel fills on faults and empties in       *)
(* as_activate, which thread_switch and thread_startup call.  A process    *)
(* has one thread; it may be preempted and migrate between any two steps.  *)
(* Contents of memory are modelled, one value per page, so that what a     *)
(* program sees can be compared with what it wrote: memory is the abstract *)
(* memory of each process, a history variable.                             *)
(*                                                                         *)
(* A page table is the sequence of its entries.  An entry that vm_fault    *)
(* has freed without unlinking it is marked, and so is an address space    *)
(* that a failed execv has freed and left in p_addrspace; following either *)
(* is undefined, and whoever would do so stays where it is.  Entries are  *)
(* never SWAPPED, as evict_page is never called.  Virtual pages are small  *)
(* numbers: segments, then the heap, then the stack.  A call of kmalloc    *)
(* may fail at any time.  An address space is destroyed page by page by    *)
(* the process itself (execv), its parent (fork, waitpid, exit) or an      *)
(* exiting orphan: as_destroy_page is the step of whichever does it.       *)
(***************************************************************************)
EXTENDS Integers, Sequences, SequencesExt, FiniteSets

CONSTANTS Procs, CPUs,
          StartIdx, EndIdx,  \* physical pages, see Coremap
          HeapStart,         \* the page after the segments: the heap begins
          StackBase,         \* first page of the stack; the heap ends below
          StackTop,          \* the page after the stack
          NUM_TLB,           \* entries of a TLB
          Values,            \* contents of a page; 0 is a page of zeroes
          NULL

VPages == 0 .. StackTop - 1
Memory == StartIdx .. EndIdx - 1

ASSUME AddrSpaceAssumption ==
  /\ HeapStart \in Nat /\ StackBase \in Nat /\ StackTop \in Nat
  /\ HeapStart < StackBase /\ StackBase < StackTop
  /\ NUM_TLB \in Nat \ {0} /\ 0 \in Values
  /\ NULL \notin Procs

VARIABLES
  coremap, allocated_pages_count, chunks,  \* see Coremap
  pages,       \* contents of the physical pages
  page_table,  \* page table of each process's address space
  heap_end,    \* its heap_end
  p_addrspace, \* whether there is one: "null", "live", or "freed" (dangling)
  dying,       \* page table of an address space that is being destroyed
  tlb,         \* per CPU, a set of pairs of a virtual and a physical page
  cur,         \* the process each CPU runs; NULL is a kernel thread
  pc, loc,     \* where each process is, and the locals of its call
  memory       \* history: what each process should see

CM == INSTANCE Coremap WITH Owners <- Procs \X VPages

cmVars == <<coremap, allocated_pages_count, chunks>>
asVars == <<page_table, heap_end, p_addrspace, dying>>
vars == <<cmVars, pages, asVars, tlb, cur, pc, loc, memory>>

Blank == [v \in VPages |-> 0]
\* v, f: a virtual and a physical page; back: where to go on; to: a child
NoLocals == [v |-> 0, f |-> StartIdx, back |-> "user", to |-> NULL]

\* runprogram has made the first process and is about to load its program, which
\* succeeds; there is no first process otherwise.
Init ==
  /\ CM!coremap_bootstrap
  /\ pages = [f \in Memory |-> 0]
  /\ page_table = [p \in Procs |-> <<>>]
  /\ heap_end = [p \in Procs |-> HeapStart]
  /\ dying = [p \in Procs |-> <<>>]
  /\ tlb = [c \in CPUs |-> {}]
  /\ cur = [c \in CPUs |-> NULL]
  /\ \E first \in Procs :
       /\ p_addrspace = [p \in Procs |-> IF p = first THEN "live" ELSE "null"]
       /\ pc = [p \in Procs |-> IF p = first THEN "run" ELSE "none"]
  /\ loc = [p \in Procs |-> NoLocals]
  /\ memory = [p \in Procs |-> Blank]

-----------------------------------------------------------------------------
\* A program runs, or execv or runprogram touches its memory to load it.
InProgram(p) == pc[p] \in {"user", "load", "run"} /\ p_addrspace[p] = "live"
At(c, p, label) == cur[c] = p /\ pc[p] = label
Goto(p, label, l) ==
  /\ pc' = [pc EXCEPT ![p] = label]
  /\ loc' = [loc EXCEPT ![p] = l]

Entry(v, f) == [v |-> v, f |-> f, freed |-> FALSE]
FreedEntry(v) == [v |-> v, f |-> StartIdx, freed |-> TRUE]
Linked(p) == ToSet(page_table[p])
HasEntry(p, v) == \E e \in Linked(p) : e.v = v
\* Walking the list is defined.
Walkable(p) == \A e \in Linked(p) : ~e.freed
NoPageFree == \A f \in Memory : coremap[f].state # "free"
Translated(c) == {t[1] : t \in tlb[c]}

\* Fault: a page is handed out with what its last owner left in it.
allocate_dirty(f, p, v) == CM!take_page(f, <<p, v>>) /\ UNCHANGED pages

\* allocate_user_page for page v of p, zeroed
allocate_zeroed(f, p, v) ==
  /\ CM!take_page(f, <<p, v>>)
  /\ pages' = [pages EXCEPT ![f] = 0]

\* release_physical_page, whatever the page's state is
release(f) ==
  /\ coremap' = [coremap EXCEPT ![f] = CM!FreePage]
  /\ allocated_pages_count' = allocated_pages_count - 1
  /\ UNCHANGED chunks

\* The test of vm_fault: the stack, the heap, one of the segments
ValidPage(p, v) ==
  \/ v >= StackBase /\ v < StackTop
  \/ v >= HeapStart /\ v < heap_end[p]
  \/ v < HeapStart

-----------------------------------------------------------------------------
(* Programs and the scheduler *)
\* A program, or load_elf on its behalf, writes to a page that the CPU has a
\* translation for.  (0 is what it finds in a page it has not written to.)
user_write(c) ==
  \E p \in Procs, t \in tlb[c], x \in Values \ {0} :
    /\ cur[c] = p /\ InProgram(p)
    /\ pages' = [pages EXCEPT ![t[2]] = x]
    /\ memory' = [memory EXCEPT ![p][t[1]] = x]
    /\ UNCHANGED <<cmVars, asVars, tlb, cur, pc, loc>>

\* Fault: the TLB is kept.
as_activate_lazy(c, p) == UNCHANGED tlb

\* For a process without address space and for a kernel thread the TLB is left
\* as it is.
as_activate(c, p) ==
  tlb' = IF p # NULL /\ p_addrspace[p] # "null" THEN [tlb EXCEPT ![c] = {}] ELSE tlb

Schedulable == {p \in Procs : /\ pc[p] \notin {"none", "embryo", "zombie", "panic"}
                              /\ \A c \in CPUs : cur[c] # p}

\* thread_switch or thread_startup: CPU c turns to another thread
thread_switch(c) ==
  \E next \in Schedulable \cup {NULL} :
    /\ cur' = [cur EXCEPT ![c] = next]
    /\ as_activate(c, next)
    /\ UNCHANGED <<cmVars, pages, asVars, pc, loc, memory>>

-----------------------------------------------------------------------------
(* vm_fault: p touches a page that the TLB of its CPU does not translate *)
Faults(c, p, v) ==
  /\ cur[c] = p /\ InProgram(p)
  /\ v \notin Translated(c)

\* Where a fault that is refused leaves p: killed, back from copyin or copyout
\* with EFAULT, or in execv after its point of no return, where a plain store to
\* the new stack has no handler.
Refused(p) ==
  CASE pc[p] = "user" -> {"zombie", "user"}
    [] pc[p] = "load" -> {"exec_fail", "panic"}
    [] pc[p] = "run" -> {}

\* A program that is over sees nothing any more.
Kept(p, to) == IF to = "zombie" THEN [memory EXCEPT ![p] = Blank] ELSE memory

\* EFAULT, or ENOMEM because kmalloc fails
fault_refused(c) ==
  \E p \in Procs, v \in VPages :
    /\ Faults(c, p, v)
    /\ ~ValidPage(p, v) \/ (Walkable(p) /\ ~HasEntry(p, v))
    /\ \E to \in Refused(p) : Goto(p, to, NoLocals) /\ memory' = Kept(p, to)
    /\ UNCHANGED <<cmVars, pages, asVars, tlb, cur>>

fault_found(c) ==
  \E p \in Procs, v \in VPages :
    /\ Faults(c, p, v)
    /\ ValidPage(p, v)
    /\ \E e \in Linked(p) :
         e.v = v /\ ~e.freed /\ Goto(p, "tlb", [NoLocals EXCEPT !.v = v, !.f = e.f, !.back = pc[p]])
    /\ UNCHANGED <<cmVars, pages, asVars, tlb, cur, memory>>

fault_new(c) ==
  \E p \in Procs, v \in VPages, f \in Memory :
    /\ Faults(c, p, v)
    /\ ValidPage(p, v) /\ Walkable(p) /\ ~HasEntry(p, v)
    /\ allocate_zeroed(f, p, v)
    /\ page_table' = [page_table EXCEPT ![p] = Append(@, Entry(v, f))]
    /\ Goto(p, "tlb", [NoLocals EXCEPT !.v = v, !.f = f, !.back = pc[p]])
    /\ UNCHANGED <<heap_end, p_addrspace, dying, tlb, cur, memory>>

\* ENOMEM because there is no page: the new entry is freed but stays linked.
fault_no_page(c) ==
  \E p \in Procs, v \in VPages :
    /\ Faults(c, p, v)
    /\ ValidPage(p, v) /\ Walkable(p) /\ ~HasEntry(p, v)
    /\ NoPageFree
    /\ page_table' = [page_table EXCEPT ![p] = Append(@, FreedEntry(v))]
    /\ \E to \in Refused(p) : Goto(p, to, NoLocals) /\ memory' = Kept(p, to)
    /\ UNCHANGED <<cmVars, pages, heap_end, p_addrspace, dying, tlb, cur>>

\* The end of vm_fault, with interrupts off: an entry that is not valid is used,
\* or else a random one is overwritten.
fault_tlb(c) ==
  \E p \in Procs :
    /\ At(c, p, "tlb")
    /\ \E kept \in SUBSET tlb[c] :
         /\ IF Cardinality(tlb[c]) < NUM_TLB THEN kept = tlb[c]
                                             ELSE Cardinality(kept) = NUM_TLB - 1
         /\ tlb' = [tlb EXCEPT ![c] = kept \cup {<<loc[p].v, loc[p].f>>}]
    /\ Goto(p, loc[p].back, NoLocals)
    /\ UNCHANGED <<cmVars, pages, asVars, cur, memory>>

-----------------------------------------------------------------------------
(* sys_sbrk *)
sbrk_grow(c) ==
  \E p \in Procs : \E end \in heap_end[p] + 1 .. StackBase - 1 :
    /\ At(c, p, "user") /\ p_addrspace[p] = "live"
    /\ heap_end' = [heap_end EXCEPT ![p] = end]
    /\ UNCHANGED <<cmVars, pages, page_table, p_addrspace, dying, tlb, cur, pc, loc, memory>>

\* The loop runs from the old end down to page loc.f, the new end; loc.v is the
\* page above the next one to go.
sbrk_shrink(c) ==
  \E p \in Procs : \E end \in HeapStart .. heap_end[p] - 1 :
    /\ At(c, p, "user") /\ p_addrspace[p] = "live"
    /\ Goto(p, "shrink", [NoLocals EXCEPT !.v = heap_end[p], !.f = end])
    /\ UNCHANGED <<cmVars, pages, asVars, tlb, cur, memory>>

ShrinkPage(c, p) == At(c, p, "shrink") /\ loc[p].v > loc[p].f

\* A page of the heap that was never touched has no entry.
shrink_skip(c) ==
  \E p \in Procs :
    /\ ShrinkPage(c, p)
    /\ Walkable(p) /\ ~HasEntry(p, loc[p].v - 1)
    /\ Goto(p, "shrink", [loc[p] EXCEPT !.v = @ - 1])
    /\ UNCHANGED <<cmVars, pages, asVars, tlb, cur, memory>>

shrink_release(c) ==
  \E p \in Procs :
    /\ ShrinkPage(c, p)
    /\ \E e \in Linked(p) : e.v = loc[p].v - 1 /\ ~e.freed /\ release(e.f)
    /\ Goto(p, "unlink", loc[p])
    /\ UNCHANGED <<pages, asVars, tlb, cur, memory>>

\* Fault: the translation of the page is left in the TLB.
tlb_invalidate_nothing(c, v) == UNCHANGED tlb

tlb_invalidate_entry(c, v) == tlb' = [tlb EXCEPT ![c] = {t \in @ : t[1] # v}]

\* The translation goes from the TLB of the CPU that p is on, then the entry.
shrink_unlink(c) ==
  \E p \in Procs :
    LET v == loc[p].v - 1 IN
    /\ At(c, p, "unlink")
    /\ tlb_invalidate_entry(c, v)
    /\ page_table' = [page_table EXCEPT ![p] = SelectSeq(@, LAMBDA e : e.v # v)]
    /\ Goto(p, "shrink", [loc[p] EXCEPT !.v = v])
    /\ UNCHANGED <<cmVars, pages, heap_end, p_addrspace, dying, cur, memory>>

\* The program has given up what was above the new end.
shrink_done(c) ==
  \E p \in Procs :
    /\ At(c, p, "shrink") /\ loc[p].v = loc[p].f
    /\ heap_end' = [heap_end EXCEPT ![p] = loc[p].f]
    /\ memory' = [memory EXCEPT ![p] = [v \in VPages |->
                    IF v >= loc[p].f /\ v < StackBase THEN 0 ELSE @[v]]]
    /\ Goto(p, "user", NoLocals)
    /\ UNCHANGED <<cmVars, pages, page_table, p_addrspace, dying, tlb, cur>>

-----------------------------------------------------------------------------
(* sys_fork: the parent p runs as_copy for the child loc.to *)
fork_begin(c) ==
  \E p, q \in Procs :
    /\ At(c, p, "user") /\ p_addrspace[p] = "live"
    /\ pc[q] = "none"
    /\ pc' = [pc EXCEPT ![p] = "copy", ![q] = "embryo"]
    /\ loc' = [loc EXCEPT ![p] = [NoLocals EXCEPT !.to = q]]
    /\ UNCHANGED <<cmVars, pages, asVars, tlb, cur, memory>>

\* Fault: the child is given the parent's page.
as_copy_shared(c) ==
  \E p \in Procs :
    /\ At(c, p, "copy")
    /\ LET q == loc[p].to
           i == Len(page_table[q]) + 1 IN
       /\ i <= Len(page_table[p]) /\ ~page_table[p][i].freed
       /\ page_table' = [page_table EXCEPT ![q] = Append(@, page_table[p][i])]
    /\ UNCHANGED <<cmVars, pages, heap_end, p_addrspace, dying, tlb, cur, pc, loc, memory>>

\* One turn of as_copy's first loop
as_copy_page(c) ==
  \E p \in Procs, f \in Memory :
    /\ At(c, p, "copy")
    /\ LET q == loc[p].to
           i == Len(page_table[q]) + 1
           e == page_table[p][i] IN
       /\ i <= Len(page_table[p]) /\ ~e.freed
       /\ CM!take_page(f, <<q, e.v>>)
       /\ pages' = [pages EXCEPT ![f] = pages[e.f]]
       /\ page_table' = [page_table EXCEPT ![q] = Append(@, Entry(e.v, f))]
    /\ UNCHANGED <<heap_end, p_addrspace, dying, tlb, cur, pc, loc, memory>>

\* The rest of as_copy, and of sys_fork: the child's thread starts.
fork_done(c) ==
  \E p \in Procs :
    /\ At(c, p, "copy")
    /\ LET q == loc[p].to IN
       /\ Len(page_table[q]) = Len(page_table[p])
       /\ p_addrspace' = [p_addrspace EXCEPT ![q] = "live"]
       /\ heap_end' = [heap_end EXCEPT ![q] = heap_end[p]]
       /\ memory' = [memory EXCEPT ![q] = memory[p]]
       /\ pc' = [pc EXCEPT ![p] = "user", ![q] = "user"]
       /\ loc' = [loc EXCEPT ![p] = NoLocals]
    /\ UNCHANGED <<cmVars, pages, page_table, dying, tlb, cur>>

\* There is no page, or kmalloc or thread_fork fails: as_destroy takes the copy
\* apart.
fork_fail(c) ==
  \E p \in Procs :
    /\ At(c, p, "copy")
    /\ LET q == loc[p].to IN
       /\ dying' = [dying EXCEPT ![q] = page_table[q]]
       /\ page_table' = [page_table EXCEPT ![q] = <<>>]
    /\ Goto(p, "uncopy", loc[p])
    /\ UNCHANGED <<cmVars, pages, heap_end, p_addrspace, tlb, cur, memory>>

fork_failed(c) ==
  \E p \in Procs :
    /\ At(c, p, "uncopy") /\ dying[loc[p].to] = <<>>
    /\ pc' = [pc EXCEPT ![p] = "user", ![loc[p].to] = "none"]
    /\ loc' = [loc EXCEPT ![p] = NoLocals]
    /\ UNCHANGED <<cmVars, pages, asVars, tlb, cur, memory>>

-----------------------------------------------------------------------------
(* as_destroy; sys_execv from proc_setas on; the end of a process *)
\* Fault: the entries are freed, but not the pages.
as_destroy_entry(p) ==
  /\ dying[p] # <<>> /\ ~Head(dying[p]).freed
  /\ dying' = [dying EXCEPT ![p] = Tail(@)]
  /\ UNCHANGED <<cmVars, pages, page_table, heap_end, p_addrspace, tlb, cur, pc, loc, memory>>

as_destroy_page(p) ==
  /\ dying[p] # <<>> /\ ~Head(dying[p]).freed
  /\ release(Head(dying[p]).f)
  /\ dying' = [dying EXCEPT ![p] = Tail(@)]
  /\ UNCHANGED <<pages, page_table, heap_end, p_addrspace, tlb, cur, pc, loc, memory>>

\* as_create and proc_setas
exec_begin(c) ==
  \E p \in Procs :
    /\ At(c, p, "user") /\ p_addrspace[p] = "live"
    /\ dying' = [dying EXCEPT ![p] = page_table[p]]
    /\ page_table' = [page_table EXCEPT ![p] = <<>>]
    /\ heap_end' = [heap_end EXCEPT ![p] = HeapStart]
    /\ memory' = [memory EXCEPT ![p] = Blank]
    /\ Goto(p, "exec", NoLocals)
    /\ UNCHANGED <<cmVars, pages, p_addrspace, tlb, cur>>

exec_activate(c) ==
  \E p \in Procs :
    /\ At(c, p, "exec") /\ dying[p] = <<>>
    /\ as_activate(c, p)
    /\ Goto(p, "load", NoLocals)
    /\ UNCHANGED <<cmVars, pages, asVars, cur, memory>>

\* enter_new_process, of sys_execv and of runprogram
exec_done(c) ==
  \E p \in Procs :
    /\ At(c, p, "load") \/ At(c, p, "run")
    /\ Goto(p, "user", NoLocals)
    /\ UNCHANGED <<cmVars, pages, asVars, tlb, cur, memory>>

\* load_elf fails, or copyoutstr: the new address space is destroyed, and
\* p_addrspace still points to it.
exec_fail(c) ==
  \E p \in Procs :
    /\ At(c, p, "load") \/ At(c, p, "exec_fail")
    /\ dying' = [dying EXCEPT ![p] = page_table[p]]
    /\ page_table' = [page_table EXCEPT ![p] = <<>>]
    /\ p_addrspace' = [p_addrspace EXCEPT ![p] = "freed"]
    /\ Goto(p, "exec_undo", NoLocals)
    /\ UNCHANGED <<cmVars, pages, heap_end, tlb, cur, memory>>

exec_failed(c) ==
  \E p \in Procs :
    /\ At(c, p, "exec_undo") /\ dying[p] = <<>>
    /\ Goto(p, "user", NoLocals)
    /\ UNCHANGED <<cmVars, pages, asVars, tlb, cur, memory>>

\* sys__exit keeps the address space of a process that somebody may wait for.
sys__exit(c) ==
  \E p \in Procs :
    /\ At(c, p, "user")
    /\ Goto(p, "zombie", NoLocals)
    /\ memory' = Kept(p, "zombie")
    /\ UNCHANGED <<cmVars, pages, asVars, tlb, cur>>

\* proc_destroy, called by the parent or by the orphan itself: as_destroy begins.
proc_destroy(p) ==
  /\ pc[p] = "zombie" /\ p_addrspace[p] = "live"
  /\ dying' = [dying EXCEPT ![p] = page_table[p]]
  /\ page_table' = [page_table EXCEPT ![p] = <<>>]
  /\ p_addrspace' = [p_addrspace EXCEPT ![p] = "null"]
  /\ UNCHANGED <<cmVars, pages, heap_end, tlb, cur, pc, loc, memory>>

\* The process is gone once its address space is and its thread has left the CPU.
proc_gone(p) ==
  /\ pc[p] = "zombie" /\ p_addrspace[p] = "null" /\ dying[p] = <<>>
  /\ \A c \in CPUs : cur[c] # p
  /\ Goto(p, "none", NoLocals)
  /\ heap_end' = [heap_end EXCEPT ![p] = HeapStart]
  /\ UNCHANGED <<cmVars, pages, page_table, p_addrspace, dying, tlb, cur, memory>>

-----------------------------------------------------------------------------
CpuStep(c) ==
  \/ user_write(c) \/ thread_switch(c)
  \/ fault_refused(c) \/ fault_found(c) \/ fault_new(c) \/ fault_no_page(c) \/ fault_tlb(c)
  \/ sbrk_grow(c) \/ sbrk_shrink(c)
  \/ shrink_skip(c) \/ shrink_release(c) \/ shrink_unlink(c) \/ shrink_done(c)
  \/ fork_begin(c) \/ as_copy_page(c) \/ fork_done(c) \/ fork_fail(c) \/ fork_failed(c)
  \/ exec_begin(c) \/ exec_activate(c) \/ exec_done(c) \/ exec_fail(c) \/ exec_failed(c)
  \/ sys__exit(c)

Next ==
  \/ \E c \in CPUs : CpuStep(c)
  \/ \E p \in Procs : as_destroy_page(p) \/ proc_destroy(p) \/ proc_gone(p)

Spec == Init /\ [][Next]_vars

-----------------------------------------------------------------------------
(* Properties *)
\* What a program finds in its memory is what it wrote there, what it inherited
\* from its parent at fork, or zeroes, whatever other processes write and
\* wherever its pages were before: "the VM system should provide pages that do
\* not contain other processes' data, i.e., are already zeroed" (loadelf.c), and
\* after a fork "subsequent modification in one process does not affect the
\* other" (fork manual page).
MemoryIsPrivate ==
  \A p \in Procs : InProgram(p) =>
    \A v \in VPages :
      memory[p][v] = (IF \E e \in Linked(p) : e.v = v /\ ~e.freed
                      THEN pages[(CHOOSE e \in Linked(p) : e.v = v /\ ~e.freed).f]
                      ELSE 0)

\* While a program runs, every translation in the TLB of its CPU is the one its
\* own page table has: after a switch, a migration, a shrunken heap or an execv
\* no translation of an earlier time or of another process is left.
TlbIsCurrent ==
  \A c \in CPUs : \A p \in Procs :
    cur[c] = p /\ InProgram(p) => \A t \in tlb[c] : Entry(t[1], t[2]) \in Linked(p)

\* No TLB holds two translations of one page, which the hardware does not allow:
\* vm_fault writes a free entry without a probe, some time after the miss.
TlbUnique ==
  \A c \in CPUs : \A s, t \in tlb[c] : s[1] = t[1] => s = t

\* The TLB of a CPU holds translations of the process that runs there, those it
\* still has, and one for a page (as_activate, vm_fault, sys_sbrk).
TlbSound == TlbIsCurrent /\ TlbUnique

\* The entries that have page f; sbrk's loop gives a page back before it unlinks
\* the entry.
Holders(f) ==
  UNION {{<<p, e>> : e \in {x \in ToSet(page_table[p]) \cup ToSet(dying[p]) :
                              /\ x.f = f /\ ~x.freed
                              /\ ~(pc[p] = "unlink" /\ x.v = loc[p].v - 1)}} : p \in Procs}

\* Every user page of the coremap is in exactly one page table, under the address
\* the coremap records: forks that fail half-way, exits and execs give back all
\* they took.
PagesAccounted ==
  \A f \in Memory :
    IF coremap[f].state = "used"
    THEN \E p \in Procs, v \in VPages :
           coremap[f].owner = <<p, v>> /\ Holders(f) = {<<p, Entry(v, f)>>}
    ELSE Holders(f) = {}

\* The users of the coremap keep its contract: a page is only released while it
\* is a user page, once.  This is CM!CoremapSpec, with the steps that leave the
\* coremap alone, most of them, named first.
UsesCoremap == CM!coremap_bootstrap /\ [][UNCHANGED cmVars \/ CM!CoremapNext]_cmVars

\* Processes and CPUs are interchangeable: Init begins with any process.
Symmetry == Permutations(Procs) \cup Permutations(CPUs)
=============================================================================

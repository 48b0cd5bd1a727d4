------------------------------ MODULE Kmalloc ------------------------------
(***************************************************************************)
(* The kernel heap, kern/vm/kmalloc.c: kmalloc and kfree with the subpage  *)
(* allocator and its table of page references.                             *)
(*                                                                         *)
(* kmalloc_spinlock is dropped around every call of alloc_kpages and       *)
(* free_kpages.  What happens between two drops is one step, as nothing    *)
(* else looks at the heap without the lock.  Pages come from the coremap,  *)
(* which processes share with the heap.  A page reference is a pair of a   *)
(* root and a slot in it.  A block is a triple of a page, its number in    *)
(* the page and its type; a large allocation of n pages is a block of type *)
(* BIG.  live are the blocks that callers hold; they free nothing else.    *)
(***************************************************************************)
EXTENDS Coremap, Sequences, SequencesExt, FiniteSetsExt

CONSTANTS Threads,
          Types,         \* block types, that is, indices into sizes
          PerPage,       \* PAGE_SIZE / sizes[t] for each type t
          NUM_PAGEREFPAGES,
          NPAGEREFS_PER_PAGE,
          LargestBig,    \* bound: pages of the largest request
          BIG

Roots == 0 .. NUM_PAGEREFPAGES - 1
Slots == 0 .. NPAGEREFS_PER_PAGE - 1
Refs == Roots \X Slots

ASSUME KmallocAssumption ==
  /\ PerPage \in [Types -> Nat \ {0, 1}]
  /\ NUM_PAGEREFPAGES \in Nat \ {0} /\ NPAGEREFS_PER_PAGE \in Nat \ {0}
  /\ LargestBig \in Nat \ {0}
  /\ BIG \notin Types /\ NULL \notin Types

VARIABLES
  page,       \* of each root: the page that holds its references
  inuse,      \* of each root: pagerefs_inuse
  numinuse,   \* of each root
  ref,        \* the contents of a page reference: pr
  sizebases,  \* list of references for each type
  allbase,    \* list of all references
  live,       \* the blocks callers hold
  pc, loc     \* where each thread is, and its locals

rootVars == <<page, inuse, numinuse>>
heapVars == <<ref, sizebases, allbase>>
vars == <<coremapVars, rootVars, heapVars, live, pc, loc>>

NoRef == [page |-> NULL, type |-> NULL, free |-> <<>>, nfree |-> 0]
\* page, n: a run this thread holds; fresh: a page for references; r: a reference
NoLocals == [type |-> NULL, page |-> NULL, n |-> 1, r |-> NULL, fresh |-> NULL]

Init ==
  /\ coremap_bootstrap
  /\ page = [r \in Roots |-> NULL]
  /\ inuse = [r \in Roots |-> {}]
  /\ numinuse = [r \in Roots |-> 0]
  /\ ref = [r \in Refs |-> NoRef]
  /\ sizebases = [t \in Types |-> <<>>]
  /\ allbase = <<>>
  /\ live = {}
  /\ pc = [th \in Threads |-> "idle"]
  /\ loc = [th \in Threads |-> NoLocals]

-----------------------------------------------------------------------------
Goto(th, label, l) ==
  /\ pc' = [pc EXCEPT ![th] = label]
  /\ loc' = [loc EXCEPT ![th] = l]
Return(th) == Goto(th, "idle", NoLocals)

\* alloc_kpages(n) gives the run that begins at p, or NULL.
alloc_run(p, n) ==
  \/ take_run(p, n)
  \/ p = NULL /\ ~(\E i \in Memory : Fits(i, n)) /\ UNCHANGED coremapVars

free_page(p) == free_kpages(p, 1)

Block(p, b, t) == <<p, b, t>>

\* Fault: the freelist is not moved on.
doalloc_same(r, pr) ==
  /\ ref' = [ref EXCEPT ![r] = [pr EXCEPT !.nfree = @ - 1]]
  /\ live' = live \cup {Block(pr.page, Head(pr.free), pr.type)}

\* Take the first free block of page pr.
doalloc(r, pr) ==
  /\ ref' = [ref EXCEPT ![r] = [pr EXCEPT !.free = Tail(@), !.nfree = @ - 1]]
  /\ live' = live \cup {Block(pr.page, Head(pr.free), pr.type)}

-----------------------------------------------------------------------------
(* kmalloc *)
\* A large request: whole pages
kmalloc_big(th) ==
  \E n \in 1 .. LargestBig : \E p \in Memory :
    /\ pc[th] = "idle"
    /\ take_run(p, n)
    /\ live' = live \cup {Block(p, n, BIG)}
    /\ UNCHANGED <<rootVars, heapVars, pc, loc>>

\* References of type t that have a free block, in list order
Candidates(t) == SelectSeq(sizebases[t], LAMBDA r : ref[r].nfree > 0)

\* subpage_kmalloc finds a page of the right type...
kmalloc_found(th) ==
  \E t \in Types :
    /\ pc[th] = "idle"
    /\ Candidates(t) # <<>>
    /\ doalloc(Head(Candidates(t)), ref[Head(Candidates(t))])
    /\ UNCHANGED <<coremapVars, rootVars, sizebases, allbase, pc, loc>>

\* ... or drops the lock to get one.
kmalloc_none(th) ==
  \E t \in Types :
    /\ pc[th] = "idle"
    /\ Candidates(t) = <<>>
    /\ Goto(th, "getpage", [NoLocals EXCEPT !.type = t])
    /\ UNCHANGED <<coremapVars, rootVars, heapVars, live>>

kmalloc_getpage(th) ==
  \E p \in Memory \cup {NULL} :
    /\ pc[th] = "getpage"
    /\ alloc_run(p, 1)
    /\ IF p = NULL THEN Return(th) ELSE Goto(th, "getref", [loc[th] EXCEPT !.page = p])
    /\ UNCHANGED <<rootVars, heapVars, live>>

\* The new page becomes reference r: its blocks are chained, it goes to the front
\* of both lists, and its first free block is taken.
new_subpage(th, r) ==
  LET t == loc[th].type
      n == PerPage[t] IN
  /\ doalloc(r, [page |-> loc[th].page, type |-> t, free |-> [i \in 1 .. n |-> n - i], nfree |-> n])
  /\ sizebases' = [sizebases EXCEPT ![t] = <<r>> \o @]
  /\ allbase' = <<r>> \o allbase
  /\ Return(th)

Roomy == {r \in Roots : numinuse[r] < NPAGEREFS_PER_PAGE}
FreeSlots(r) == Slots \ inuse[r]

mark_inuse(r) == inuse' = [inuse EXCEPT ![r[1]] = @ \cup {r[2]}]

\* allocpageref: the first free reference of the first root that has one.  The
\* reference is marked before there is a page to hold it.
allocpageref(th) ==
  /\ pc[th] = "getref" /\ Roomy # {}
  /\ LET r == <<Min(Roomy), Min(FreeSlots(Min(Roomy)))>> IN
       /\ mark_inuse(r)
       /\ numinuse' = [numinuse EXCEPT ![r[1]] = @ + 1]
       /\ IF page[r[1]] # NULL
          THEN new_subpage(th, r)
          ELSE Goto(th, "refpage", [loc[th] EXCEPT !.r = r]) /\ UNCHANGED <<heapVars, live>>
  /\ UNCHANGED <<coremapVars, page>>

allocpageref_ran_out(th) ==
  /\ pc[th] = "getref" /\ Roomy = {}
  /\ Goto(th, "giveup", loc[th])
  /\ UNCHANGED <<coremapVars, rootVars, heapVars, live>>

\* allocpagerefpage, without the lock
refpage_alloc(th) ==
  \E p \in Memory \cup {NULL} :
    /\ pc[th] = "refpage"
    /\ alloc_run(p, 1)
    /\ Goto(th, "refback", [loc[th] EXCEPT !.fresh = p])
    /\ UNCHANGED <<rootVars, heapVars, live>>

\* Fault: nobody looks whether another thread was faster.
refpage_set_blindly(th) ==
  LET r == loc[th].r IN
  /\ pc[th] = "refback" /\ loc[th].fresh # NULL
  /\ page' = [page EXCEPT ![r[1]] = loc[th].fresh]
  /\ new_subpage(th, r)
  /\ UNCHANGED <<coremapVars, inuse, numinuse>>

\* Back with the lock: the root has no page yet.
refpage_set(th) ==
  LET r == loc[th].r IN
  /\ pc[th] = "refback" /\ loc[th].fresh # NULL
  /\ page[r[1]] = NULL
  /\ page' = [page EXCEPT ![r[1]] = loc[th].fresh]
  /\ new_subpage(th, r)
  /\ UNCHANGED <<coremapVars, inuse, numinuse>>

\* Somebody else was faster: the page is given back, without the lock.
refpage_late(th) ==
  /\ pc[th] = "refback" /\ loc[th].fresh # NULL
  /\ page[loc[th].r[1]] # NULL
  /\ free_page(loc[th].fresh)
  /\ Goto(th, "refgot", [loc[th] EXCEPT !.fresh = NULL])
  /\ UNCHANGED <<rootVars, heapVars, live>>

\* There was no page, but somebody else has given the root one.
refpage_got(th) ==
  /\ pc[th] = "refgot" \/ (pc[th] = "refback" /\ loc[th].fresh = NULL /\ page[loc[th].r[1]] # NULL)
  /\ new_subpage(th, loc[th].r)
  /\ UNCHANGED <<coremapVars, rootVars>>

\* There was no page: allocpageref returns NULL, with the reference marked.
refpage_none(th) ==
  /\ pc[th] = "refback" /\ loc[th].fresh = NULL /\ page[loc[th].r[1]] = NULL
  /\ Goto(th, "giveup", [loc[th] EXCEPT !.r = NULL])
  /\ UNCHANGED <<coremapVars, rootVars, heapVars, live>>

\* subpage_kmalloc without a reference, and subpage_kfree with an empty page, give
\* the page back, without the lock.
free_held(th) ==
  /\ pc[th] \in {"giveup", "freepage"}
  /\ free_kpages(loc[th].page, loc[th].n)
  /\ Return(th)
  /\ UNCHANGED <<rootVars, heapVars, live>>

-----------------------------------------------------------------------------
(* kfree *)
Owner(b) == {r \in ToSet(allbase) : ref[r].page = b[1]}

\* Not on a page of the subpage allocator: a large allocation
kfree_big(th) ==
  \E b \in live :
    /\ pc[th] = "idle"
    /\ Owner(b) = {}
    /\ live' = live \ {b}
    /\ Goto(th, "freepage", [NoLocals EXCEPT !.page = b[1], !.n = b[2]])
    /\ UNCHANGED <<coremapVars, rootVars, heapVars>>

Returned(b, r) == [ref[r] EXCEPT !.free = <<b[2]>> \o @, !.nfree = @ + 1]
WholePageFree(pr) == pr.nfree = PerPage[pr.type]

kfree_block(th) ==
  \E b \in live : \E r \in Owner(b) :
    /\ pc[th] = "idle"
    /\ ~WholePageFree(Returned(b, r))
    /\ ref' = [ref EXCEPT ![r] = Returned(b, r)]
    /\ live' = live \ {b}
    /\ UNCHANGED <<coremapVars, rootVars, sizebases, allbase, pc, loc>>

\* freepageref looks at the roots in order and asserts of one without page that
\* it has no reference in use.
RootsBefore(r) == 0 .. r[1] - 1
freepageref_asserts(r) == \A q \in RootsBefore(r) : page[q] = NULL => numinuse[q] = 0

\* Fault: the page stays in the list of all pages.
remove_lists_one(r, t) ==
  /\ sizebases' = [sizebases EXCEPT ![t] = SelectSeq(@, LAMBDA x : x # r)]
  /\ UNCHANGED allbase

remove_lists(r, t) ==
  /\ sizebases' = [sizebases EXCEPT ![t] = SelectSeq(@, LAMBDA x : x # r)]
  /\ allbase' = SelectSeq(allbase, LAMBDA x : x # r)

\* The last block of a page: the page leaves the lists and its reference is
\* freed; then the page is given back, without the lock.
kfree_last(th) ==
  \E b \in live : \E r \in Owner(b) :
    /\ pc[th] = "idle"
    /\ WholePageFree(Returned(b, r))
    /\ live' = live \ {b}
    /\ remove_lists(r, ref[r].type)
    /\ ref' = [ref EXCEPT ![r] = NoRef]
    /\ IF freepageref_asserts(r)
       THEN /\ inuse' = [inuse EXCEPT ![r[1]] = @ \ {r[2]}]
            /\ numinuse' = [numinuse EXCEPT ![r[1]] = @ - 1]
            /\ Goto(th, "freepage", [NoLocals EXCEPT !.page = b[1]])
       ELSE /\ Goto(th, "panic", [NoLocals EXCEPT !.page = b[1]])
            /\ UNCHANGED <<inuse, numinuse>>
    /\ UNCHANGED <<coremapVars, page>>

kmalloc(th) ==
  \/ kmalloc_big(th) \/ kmalloc_found(th) \/ kmalloc_none(th) \/ kmalloc_getpage(th)
  \/ allocpageref(th) \/ allocpageref_ran_out(th)
  \/ refpage_alloc(th) \/ refpage_set(th) \/ refpage_late(th) \/ refpage_got(th) \/ refpage_none(th)
kfree(th) == kfree_big(th) \/ kfree_block(th) \/ kfree_last(th)

\* vm_fault, as_copy and as_destroy take and give back pages of their own.
user_pages ==
  /\ (\E o \in Owners : allocate_user_page(o)) \/ (\E i \in Memory : release_physical_page(i))
  /\ UNCHANGED <<rootVars, heapVars, live, pc, loc>>

\* A failed assertion stops the machine.
Running == \A th \in Threads : pc[th] # "panic"

Next ==
  /\ Running
  /\ (\E th \in Threads : kmalloc(th) \/ kfree(th) \/ free_held(th)) \/ user_pages

Spec == Init /\ [][Next]_vars

-----------------------------------------------------------------------------
(* Properties *)
\* On every page of the subpage allocator each block is either on the free list,
\* once, or held by one caller, and nfree counts the former: no block is handed
\* out twice and none is forgotten.
BlocksAccounted ==
  \A r \in ToSet(allbase) :
    LET pr == ref[r]
        held == {b[2] : b \in {x \in live : x[1] = pr.page}} IN
    /\ IsInjective(pr.free) /\ Len(pr.free) = pr.nfree
    /\ ToSet(pr.free) \cap held = {}
    /\ ToSet(pr.free) \cup held = 0 .. PerPage[pr.type] - 1

\* The list of all pages and the lists by type hold the same references, each
\* once and marked in use, no two of them for one page; and no page all of whose
\* blocks are free stays in them.
ListsAgree ==
  /\ IsInjective(allbase)
  /\ \A t \in Types : IsInjective(sizebases[t])
  /\ \A t \in Types : ToSet(sizebases[t]) = {r \in ToSet(allbase) : ref[r].type = t}
  /\ \A r \in ToSet(allbase) :
       /\ r[2] \in inuse[r[1]] /\ page[r[1]] # NULL
       /\ ~WholePageFree(ref[r])
       /\ \A s \in ToSet(allbase) : ref[s].page = ref[r].page => s = r

\* The places that have page p
Places(p) ==
  {<<"root", r>> : r \in {x \in Roots : page[x] = p}}
  \cup {<<"heap", r>> : r \in {x \in ToSet(allbase) : ref[x].page = p}}
  \cup {<<"big", b>> : b \in {x \in live : x[1] = p /\ x[3] = BIG}}
  \cup {<<"page of", th>> : th \in {x \in Threads : loc[x].page = p}}
  \cup {<<"fresh", th>> : th \in {x \in Threads : loc[x].fresh = p}}

\* Every run that alloc_kpages has handed out is in exactly one place: it holds
\* references, or blocks, or is a caller's, or a thread is about to use it or to
\* give it back.  Nothing is given back twice, and nothing is lost when two
\* threads make the same page of references or one of them finds no page.
HeapPagesAccounted ==
  \A p \in Memory :
    Cardinality(Places(p)) = (IF \E c \in chunks : c[1] = p THEN 1 ELSE 0)
=============================================================================

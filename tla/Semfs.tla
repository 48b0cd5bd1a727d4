------------------------------- MODULE Semfs -------------------------------
(***************************************************************************)
(* The semaphore file system, kern/fs/semfs: user semaphores as files.     *)
(* A read is P, a write is V, O_TRUNC or ftruncate sets the count.         *)
(*                                                                         *)
(* Threads open (semfs_lookup, semfs_creat), use, close and remove         *)
(* semaphores.  A step is what runs under one lock; the locks and the      *)
(* condition variables are the ones of module Monitor, and a signal wakes  *)
(* the thread that has slept longest, as wchan_wakeone does.  semfs cannot *)
(* be unmounted (findmount passes over it), so the file system stays.      *)
(*                                                                         *)
(* Semaphores and vnodes are numbered in the order they are made and a     *)
(* number is not used again, so that a use after kfree can be seen.        *)
(***************************************************************************)
EXTENDS Integers, Sequences, FiniteSets, SequencesExt

CONSTANTS
  SemfsThreads,     \* the threads of user programs
  Nobody,           \* the holder of a free lock
  SemfsNames,       \* the names of semaphores
  COUNTS,           \* the counts an unsigned holds are 0 .. COUNTS - 1
  Amounts,          \* the sizes of reads, writes and truncations
  SemfsMaxCalls,    \* bound: the calls a thread makes
  MaxSems,          \* bound: semaphores created
  SemfsMaxFailures  \* bound: failing kmallocs

ASSUME SemfsAssumption ==
  /\ Nobody \notin SemfsThreads
  /\ COUNTS \in Nat \ {0} /\ Amounts \subseteq 1 .. COUNTS - 1
  /\ SemfsMaxCalls \in Nat /\ MaxSems \in Nat /\ SemfsMaxFailures \in Nat

VARIABLES
  semfs_tablelock, semfs_vnodes, semfs_sems, semfs_dirlock, semfs_dents,
  sem,              \* every struct semfs_sem made so far
  vn,               \* every vnode made so far
  th,               \* the threads
  semfs_calls,      \* calls made by each thread
  semfs_failures,   \* kmallocs that failed
  semfs_panicked,   \* a KASSERT failed, or NULL was dereferenced
  freed,            \* a destroyed semaphore was used or destroyed again
  semfs_raced       \* semfs_reclaim destroyed a semaphore semfs_remove had locked

table == <<semfs_tablelock, semfs_vnodes, semfs_sems>>
dir == <<semfs_dirlock, semfs_dents>>
ghosts == <<semfs_panicked, freed, semfs_raced>>
semfs_vars == <<table, dir, sem, vn, th, semfs_calls, semfs_failures, ghosts>>

Null == 0
NoDent == [name |-> "", semnum |-> 0]

(* semfs_sem_create; level is what P and V calls make of the count if they *)
(* take effect as they return.                                             *)
NewSem == [sems_lock |-> Nobody, sems_cv |-> <<>>, sems_count |-> 0,
           sems_hasvnode |-> FALSE, sems_linked |-> FALSE,
           live |-> TRUE, level |-> 0]

(* A thread: what it runs, the vnode it has open, and the call's locals.   *)
SemfsIdle ==
  [pc |-> "user", open |-> Null, name |-> "", semnum |-> 0, sem |-> Null,
   vn |-> Null, new |-> FALSE, amount |-> 0, resid |-> 0]

SemfsInit ==
  /\ semfs_tablelock = Nobody /\ semfs_vnodes = {} /\ semfs_sems = <<>>
  /\ semfs_dirlock = Nobody /\ semfs_dents = <<>>
  /\ sem = <<>> /\ vn = <<>>
  /\ th = [t \in SemfsThreads |-> SemfsIdle]
  /\ semfs_calls = [t \in SemfsThreads |-> 0] /\ semfs_failures = 0
  /\ semfs_panicked = FALSE /\ freed = FALSE /\ semfs_raced = FALSE

-----------------------------------------------------------------------------
SemfsAt(t, pc) == ~semfs_panicked /\ th[t].pc = pc
Returns(t) == th' = [th EXCEPT ![t] = [SemfsIdle EXCEPT !.open = th[t].open]]

SemfsCall(t) ==
  /\ SemfsAt(t, "user") /\ semfs_calls[t] < SemfsMaxCalls
  /\ semfs_calls' = [semfs_calls EXCEPT ![t] = @ + 1]

kmalloc_fails ==
  semfs_failures < SemfsMaxFailures /\ semfs_failures' = semfs_failures + 1

(* A semaphore is used, which must not have been destroyed.                *)
SemfsUses(s) == freed' = (freed \/ ~sem[s].live)

(* The slot of the directory that holds this name, 0 if there is none.     *)
Slot(n) == SelectInSeq(semfs_dents, LAMBDA d : d.name = n)

(* Where a table takes a new entry: its first hole, or else at its end.    *)
FreeSlot(s, hole) ==
  LET i == SelectInSeq(s, LAMBDA e : e = hole) IN IF i = 0 THEN Len(s) + 1 ELSE i
Filled(s, i, e) == IF i > Len(s) THEN Append(s, e) ELSE [s EXCEPT ![i] = e]

(***************************************************************************)
(* open.  semfs_lookup and semfs_creat look for the name under the         *)
(* directory lock; ENOENT and EEXIST change nothing.  The lock is held     *)
(* until semfs_getvnode has found or made the vnode.                       *)
(***************************************************************************)
semfs_lookup(t, n) ==
  /\ SemfsCall(t) /\ th[t].open = Null
  /\ semfs_dirlock = Nobody /\ Slot(n) # 0
  /\ semfs_dirlock' = t
  /\ th' = [th EXCEPT ![t].pc = "getvnode", ![t].semnum = semfs_dents[Slot(n)].semnum]
  /\ UNCHANGED <<table, semfs_dents, sem, vn, semfs_failures, ghosts>>

semfs_creat(t, n) ==
  /\ SemfsCall(t) /\ th[t].open = Null
  /\ semfs_dirlock = Nobody /\ Slot(n) = 0 /\ Len(sem) < MaxSems
  /\ semfs_dirlock' = t
  /\ sem' = Append(sem, NewSem)
  /\ th' = [th EXCEPT ![t].pc = "insert", ![t].name = n, ![t].sem = Len(sem) + 1,
                      ![t].new = TRUE]
  /\ UNCHANGED <<table, semfs_dents, vn, semfs_failures, ghosts>>

semfs_sem_insert(t) ==
  LET i == FreeSlot(semfs_sems, Null)
      d == FreeSlot(semfs_dents, NoDent) IN
  /\ SemfsAt(t, "insert") /\ semfs_tablelock = Nobody
  /\ semfs_sems' = Filled(semfs_sems, i, th[t].sem)
  /\ semfs_dents' = Filled(semfs_dents, d, [name |-> th[t].name, semnum |-> i])
  /\ th' = [th EXCEPT ![t].pc = "getvnode", ![t].semnum = i]
  /\ UNCHANGED <<semfs_tablelock, semfs_vnodes, semfs_dirlock, sem, vn, semfs_calls,
                 semfs_failures, ghosts>>

(* No memory for the directory entry: all is undone, but result is still 0,*)
(* and vfs_open's KASSERT(vn != NULL) fails.                               *)
semfs_creat_nodent(t) ==
  /\ SemfsAt(t, "insert") /\ semfs_tablelock = Nobody /\ kmalloc_fails
  /\ semfs_sems' = Filled(semfs_sems, FreeSlot(semfs_sems, Null), Null)
  /\ sem' = [sem EXCEPT ![th[t].sem].live = FALSE]
  /\ semfs_dirlock' = Nobody
  /\ semfs_panicked' = TRUE
  /\ Returns(t)
  /\ UNCHANGED <<semfs_tablelock, semfs_vnodes, semfs_dents, vn, semfs_calls, freed, semfs_raced>>

Loaded(num) == {v \in semfs_vnodes : vn[v].semnum = num}

semfs_getvnode(t) ==
  LET num == th[t].semnum
      s == semfs_sems[num]
      made == Len(vn) + 1
      v == IF Loaded(num) = {} THEN made ELSE CHOOSE w \in Loaded(num) : TRUE IN
  /\ SemfsAt(t, "getvnode") /\ semfs_tablelock = Nobody
  /\ vn' = IF v = made THEN Append(vn, [semnum |-> num, refcount |-> 1, live |-> TRUE])
           ELSE [vn EXCEPT ![v].refcount = @ + 1]
  /\ semfs_vnodes' = semfs_vnodes \cup {v}
  /\ IF v = made /\ (s = Null \/ sem[s].sems_hasvnode)
     THEN semfs_panicked' = TRUE /\ UNCHANGED <<sem, freed>>
     ELSE /\ sem' = [sem EXCEPT ![s].sems_hasvnode = TRUE,
                                ![s].sems_linked = @ \/ th[t].new]
          /\ SemfsUses(s) /\ UNCHANGED semfs_panicked
  /\ semfs_dirlock' = Nobody
  /\ th' = [th EXCEPT ![t] = [SemfsIdle EXCEPT !.open = v]]
  /\ UNCHANGED <<semfs_tablelock, semfs_sems, semfs_dents, semfs_calls, semfs_failures, semfs_raced>>

(* No memory for the vnode.  semfs_creat takes back what it has made.      *)
\* Fault: it leaves the semaphore in the table.
semfs_getvnode_nomem_kept(t) ==
  LET d == SelectInSeq(semfs_dents, LAMBDA e : e.semnum = th[t].semnum) IN
  /\ SemfsAt(t, "getvnode") /\ semfs_tablelock = Nobody /\ Loaded(th[t].semnum) = {} /\ kmalloc_fails
  /\ semfs_dirlock' = Nobody
  /\ semfs_dents' = IF th[t].new THEN [semfs_dents EXCEPT ![d] = NoDent] ELSE semfs_dents
  /\ Returns(t)
  /\ UNCHANGED <<table, sem, vn, semfs_calls, ghosts>>

semfs_getvnode_nomem(t) ==
  LET num == th[t].semnum
      d == SelectInSeq(semfs_dents, LAMBDA e : e.semnum = num) IN
  /\ SemfsAt(t, "getvnode") /\ semfs_tablelock = Nobody /\ Loaded(num) = {} /\ kmalloc_fails
  /\ semfs_dirlock' = Nobody
  /\ IF th[t].new
     THEN /\ semfs_dents' = [semfs_dents EXCEPT ![d] = NoDent]
          /\ semfs_sems' = [semfs_sems EXCEPT ![num] = Null]
          /\ sem' = [sem EXCEPT ![th[t].sem].live = FALSE]
     ELSE UNCHANGED <<semfs_dents, semfs_sems, sem>>
  /\ Returns(t)
  /\ UNCHANGED <<semfs_tablelock, semfs_vnodes, vn, semfs_calls, ghosts>>

(***************************************************************************)
(* P, V and setting the count.  semfs_getsem takes the table lock for a    *)
(* moment; the rest runs under the semaphore's own lock.                   *)
(***************************************************************************)
Starts(t, pc, n) ==
  LET s == semfs_sems[vn[th[t].open].semnum] IN
  /\ SemfsCall(t) /\ th[t].open # Null
  /\ semfs_tablelock = Nobody
  /\ IF s = Null THEN semfs_panicked' = TRUE ELSE UNCHANGED semfs_panicked
  /\ th' = [th EXCEPT ![t].pc = pc, ![t].sem = s, ![t].amount = n, ![t].resid = n]
  /\ UNCHANGED <<table, dir, sem, vn, semfs_failures, freed, semfs_raced>>

semfs_read(t, n) == Starts(t, "read", n)
semfs_write(t, n) == Starts(t, "write", n)
semfs_truncate(t, n) == Starts(t, "truncate", n)

Locked(t, pcs) ==
  /\ ~semfs_panicked /\ th[t].pc \in pcs
  /\ sem[th[t].sem].sems_lock = Nobody
  /\ SemfsUses(th[t].sem)

(* The loop of semfs_read, until it is done or cv_wait puts it to sleep.   *)
ReadLoop(t) ==
  LET s == th[t].sem
      consume == IF th[t].resid > sem[s].sems_count THEN sem[s].sems_count ELSE th[t].resid
      left == th[t].resid - consume IN
  /\ Locked(t, {"read", "woken"})
  /\ sem' = [sem EXCEPT ![s].sems_count = @ - consume,
                        ![s].sems_cv = IF left = 0 THEN @ ELSE Append(@, t),
                        ![s].level = IF left = 0 THEN @ - th[t].amount ELSE @]
  /\ IF left = 0 THEN Returns(t)
     ELSE th' = [th EXCEPT ![t].pc = "asleep", ![t].resid = left]
  /\ UNCHANGED <<table, dir, vn, semfs_calls, semfs_failures, semfs_panicked, semfs_raced>>

(* How many sleepers semfs_wakeup wakes, those at the head of sems_cv.     *)
semfs_wakeup(s, newcount) ==
  CASE sem[s].sems_count > 0 \/ newcount = 0 \/ sem[s].sems_cv = <<>> -> 0
    [] newcount = 1 -> 1
    [] OTHER -> Len(sem[s].sems_cv)

SetCount(t, newcount, level) ==
  LET s == th[t].sem
      k == semfs_wakeup(s, newcount)
      woken == {sem[s].sems_cv[i] : i \in 1 .. k} IN
  /\ sem' = [sem EXCEPT ![s].sems_count = newcount, ![s].level = level,
                        ![s].sems_cv = SubSeq(@, k + 1, Len(@))]
  /\ th' = [u \in SemfsThreads |->
              CASE u = t -> [SemfsIdle EXCEPT !.open = th[t].open]
                [] u \in woken -> [th[u] EXCEPT !.pc = "woken"]
                [] OTHER -> th[u]]
  /\ UNCHANGED <<table, dir, vn, semfs_calls, semfs_failures, semfs_panicked, semfs_raced>>

\* Fault: the sum is stored without the test for overflow.
WriteLoop_unchecked(t) ==
  LET s == th[t].sem IN
  /\ Locked(t, {"write"})
  /\ SetCount(t, (sem[s].sems_count + th[t].amount) % COUNTS, sem[s].level + th[t].amount)

WriteLoop(t) ==
  LET s == th[t].sem
      newcount == (sem[s].sems_count + th[t].amount) % COUNTS IN
  /\ Locked(t, {"write"})
  /\ IF newcount < sem[s].sems_count
     THEN /\ Returns(t)
          /\ UNCHANGED <<table, dir, sem, vn, semfs_calls, semfs_failures, semfs_panicked, semfs_raced>>
     ELSE SetCount(t, newcount, sem[s].level + th[t].amount)

(* Readers that have taken part of what they want keep it.                 *)
Taken(s) ==
  LET readers == {t \in SemfsThreads : th[t].sem = s /\ th[t].pc \in {"read", "asleep", "woken"}}
  IN FoldSet(LAMBDA t, n : n + th[t].amount - th[t].resid, 0, readers)

TruncateBody(t) ==
  /\ Locked(t, {"truncate"})
  /\ SetCount(t, th[t].amount, th[t].amount + Taken(th[t].sem))

(***************************************************************************)
(* close: semfs_vnode_decref, and VOP_RECLAIM of the last reference.       *)
(***************************************************************************)
semfs_vnode_decref(t) ==
  LET v == th[t].open IN
  /\ SemfsCall(t) /\ v # Null
  /\ IF vn[v].refcount > 1
     THEN /\ vn' = [vn EXCEPT ![v].refcount = @ - 1]
          /\ th' = [th EXCEPT ![t] = SemfsIdle]
     ELSE /\ th' = [th EXCEPT ![t] = [SemfsIdle EXCEPT !.pc = "reclaim", !.vn = v]]
          /\ UNCHANGED vn
  /\ UNCHANGED <<table, dir, sem, semfs_failures, ghosts>>

(* The reclaim has the table lock until semfs_reclaim_sem has run.  Another*)
(* reference taken meanwhile makes it EBUSY.                               *)
\* Fault: the count is not looked at again under the table lock.
semfs_reclaim_unchecked(t) ==
  LET v == th[t].vn
      s == semfs_sems[vn[v].semnum] IN
  /\ SemfsAt(t, "reclaim") /\ semfs_tablelock = Nobody
  /\ semfs_tablelock' = t
  /\ semfs_vnodes' = semfs_vnodes \ {v}
  /\ sem' = [sem EXCEPT ![s].sems_hasvnode = FALSE]
  /\ SemfsUses(s)
  /\ th' = [th EXCEPT ![t].pc = "reclaim_sem"]
  /\ UNCHANGED <<semfs_sems, dir, vn, semfs_calls, semfs_failures, semfs_panicked, semfs_raced>>

semfs_reclaim(t) ==
  LET v == th[t].vn
      s == semfs_sems[vn[v].semnum] IN
  /\ SemfsAt(t, "reclaim") /\ semfs_tablelock = Nobody
  /\ IF vn[v].refcount > 1
     THEN /\ vn' = [vn EXCEPT ![v].refcount = @ - 1]
          /\ Returns(t)
          /\ UNCHANGED <<table, sem, semfs_panicked, freed>>
     ELSE /\ semfs_tablelock' = t
          /\ semfs_vnodes' = semfs_vnodes \ {v}
          /\ IF s = Null \/ ~sem[s].sems_hasvnode
             THEN semfs_panicked' = TRUE /\ UNCHANGED <<sem, freed>>
             ELSE /\ sem' = [sem EXCEPT ![s].sems_hasvnode = FALSE]
                  /\ SemfsUses(s) /\ UNCHANGED semfs_panicked
          /\ th' = [th EXCEPT ![t].pc = "reclaim_sem"]
          /\ UNCHANGED <<semfs_sems, vn>>
  /\ UNCHANGED <<dir, semfs_calls, semfs_failures, semfs_raced>>

semfs_reclaim_sem(t) ==
  LET v == th[t].vn
      num == vn[v].semnum
      s == semfs_sems[num] IN
  /\ SemfsAt(t, "reclaim_sem")
  /\ IF ~sem[s].sems_linked
     THEN /\ semfs_sems' = [semfs_sems EXCEPT ![num] = Null]
          /\ sem' = [sem EXCEPT ![s].live = FALSE]
          /\ SemfsUses(s)
          /\ semfs_raced' = (semfs_raced \/ sem[s].sems_lock # Nobody)
     ELSE UNCHANGED <<semfs_sems, sem, freed, semfs_raced>>
  /\ vn' = [vn EXCEPT ![v].live = FALSE]
  /\ semfs_tablelock' = Nobody
  /\ Returns(t)
  /\ UNCHANGED <<semfs_vnodes, dir, semfs_calls, semfs_failures, semfs_panicked>>

(***************************************************************************)
(* remove.                                                                 *)
(***************************************************************************)
semfs_remove(t, n) ==
  /\ SemfsCall(t) /\ semfs_dirlock = Nobody /\ Slot(n) # 0
  /\ semfs_dirlock' = t
  /\ th' = [th EXCEPT ![t].pc = "unlink", ![t].semnum = semfs_dents[Slot(n)].semnum]
  /\ UNCHANGED <<table, semfs_dents, sem, vn, semfs_failures, ghosts>>

RemoveUnlink(t) ==
  LET s == semfs_sems[th[t].semnum] IN
  /\ SemfsAt(t, "unlink") /\ semfs_tablelock = Nobody /\ sem[s].sems_lock = Nobody
  /\ IF s = Null \/ ~sem[s].sems_linked
     THEN semfs_panicked' = TRUE /\ UNCHANGED <<sem, freed>>
     ELSE /\ sem' = [sem EXCEPT ![s].sems_lock = t, ![s].sems_linked = FALSE]
          /\ SemfsUses(s) /\ UNCHANGED semfs_panicked
  /\ th' = [th EXCEPT ![t].pc = "hasvnode", ![t].sem = s]
  /\ UNCHANGED <<table, dir, vn, semfs_calls, semfs_failures, semfs_raced>>

DirentGone(t) ==
  /\ semfs_dents' = [i \in DOMAIN semfs_dents |->
                       IF semfs_dents[i].semnum = th[t].semnum THEN NoDent ELSE semfs_dents[i]]
  /\ semfs_dirlock' = Nobody
  /\ Returns(t)

RemoveCheck(t) ==
  LET s == th[t].sem IN
  /\ SemfsAt(t, "hasvnode")
  /\ SemfsUses(s)
  /\ IF sem[s].sems_hasvnode
     THEN sem' = [sem EXCEPT ![s].sems_lock = Nobody] /\ DirentGone(t)
     ELSE /\ th' = [th EXCEPT ![t].pc = "destroy"]
          /\ UNCHANGED <<sem, dir>>
  /\ UNCHANGED <<table, vn, semfs_calls, semfs_failures, semfs_panicked, semfs_raced>>

RemoveDestroy(t) ==
  LET s == th[t].sem IN
  /\ SemfsAt(t, "destroy") /\ semfs_tablelock = Nobody
  /\ semfs_sems' = [semfs_sems EXCEPT ![th[t].semnum] = Null]
  /\ sem' = [sem EXCEPT ![s].sems_lock = Nobody, ![s].live = FALSE]
  /\ SemfsUses(s)
  /\ DirentGone(t)
  /\ UNCHANGED <<semfs_tablelock, semfs_vnodes, vn, semfs_calls, semfs_failures, semfs_panicked, semfs_raced>>

-----------------------------------------------------------------------------
(* What a thread does by itself once it is in a call.                      *)
SemfsStep(t) ==
  \/ semfs_sem_insert(t)
  \/ semfs_creat_nodent(t)
  \/ semfs_getvnode(t)
  \/ semfs_getvnode_nomem(t)
  \/ ReadLoop(t)
  \/ WriteLoop(t)
  \/ TruncateBody(t)
  \/ semfs_reclaim(t)
  \/ semfs_reclaim_sem(t)
  \/ RemoveUnlink(t)
  \/ RemoveCheck(t)
  \/ RemoveDestroy(t)

SemfsNext ==
  \E t \in SemfsThreads :
    \/ \E n \in SemfsNames : semfs_lookup(t, n) \/ semfs_creat(t, n) \/ semfs_remove(t, n)
    \/ \E a \in Amounts : semfs_read(t, a) \/ semfs_write(t, a)
    \/ \E a \in Amounts \cup {0} : semfs_truncate(t, a)
    \/ semfs_vnode_decref(t)
    \/ SemfsStep(t)

SemfsSpec == SemfsInit /\ [][SemfsNext]_semfs_vars
-----------------------------------------------------------------------------
SemfsTypeOK ==
  /\ semfs_tablelock \in SemfsThreads \cup {Nobody} /\ semfs_dirlock \in SemfsThreads \cup {Nobody}
  /\ semfs_vnodes \subseteq DOMAIN vn
  /\ \A i \in DOMAIN semfs_sems : semfs_sems[i] \in DOMAIN sem \cup {Null}
  /\ \A s \in DOMAIN sem : sem[s].sems_count \in 0 .. COUNTS - 1
  /\ \A t \in SemfsThreads : th[t].open \in DOMAIN vn \cup {Null}

(* Nothing is lost and nothing is kept: with no thread in a call, the      *)
(* directory entries name exactly the linked semaphores, the table holds   *)
(* exactly the live ones, each of them linked or open, and there is one    *)
(* vnode for each open semaphore, counted once for every thread that has   *)
(* it open (semfs_getvnode, semfs_reclaim, semfs_remove).                  *)
SemfsAccounted ==
  (~semfs_raced /\ ~semfs_panicked /\ \A t \in SemfsThreads : th[t].pc \in {"user", "read", "asleep", "woken"}) =>
    LET listed == {i \in DOMAIN semfs_sems : semfs_sems[i] # Null}
        named == {semfs_dents[d].semnum : d \in {d \in DOMAIN semfs_dents : semfs_dents[d] # NoDent}} IN
    /\ {semfs_sems[i] : i \in listed} = {s \in DOMAIN sem : sem[s].live}
    /\ named = {i \in listed : sem[semfs_sems[i]].sems_linked}
    /\ \A i \in listed :
         LET s == semfs_sems[i] IN
         /\ sem[s].sems_linked \/ sem[s].sems_hasvnode
         /\ sem[s].sems_hasvnode <=> Loaded(i) # {}
         /\ Cardinality(Loaded(i)) <= 1
    /\ semfs_vnodes = {v \in DOMAIN vn : vn[v].live}
    /\ \A v \in DOMAIN vn : vn[v].live =>
         vn[v].refcount = Cardinality({t \in SemfsThreads : th[t].open = v})

(* V adds to the count and P takes from it exactly what they say, however  *)
(* readers and writers interleave and whatever part of its amount a reader *)
(* has when it sleeps; a write that would overflow adds nothing.           *)
UnitsConserved ==
  \A s \in DOMAIN sem : sem[s].sems_count = sem[s].level - Taken(s)

(* A semaphore is destroyed once, after its name and its last vnode are    *)
(* gone, and nothing uses it afterwards, unless the last close comes while *)
(* semfs_remove is between clearing sems_linked and dropping sems_lock:    *)
(* semfs_reclaim does not take that lock.  The only assertion that fails   *)
(* is the one vfs_open makes of a semfs_creat without memory.              *)
DestroyedOnce ==
  /\ freed => semfs_raced
  /\ semfs_panicked => semfs_failures > 0
  /\ ~semfs_raced => \A t \in SemfsThreads : th[t].open # Null => vn[th[t].open].live

(* The life of a semaphore: kept while it has a name or a vnode, destroyed *)
(* once when it has neither, and its units counted exactly in between.     *)
SemfsSound == SemfsAccounted /\ DestroyedOnce /\ UnitsConserved
=============================================================================

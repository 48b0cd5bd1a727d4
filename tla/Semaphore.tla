----------------------------- MODULE Semaphore -----------------------------
(***************************************************************************)
(* The semaphore of kern/thread/synch.c: P and V.                          *)
(*                                                                         *)
(* The fields of struct semaphore keep their names; sem_lock is the caller *)
(* whose CPU holds the spinlock.  V may also be called by an interrupt     *)
(* handler, which is a caller like any other here: it never sleeps.        *)
(* posted and passed count the calls as the callers see them: V calls      *)
(* begun and P calls returned.                                             *)
(***************************************************************************)
EXTENDS Naturals, Sequences, FiniteSets

CONSTANTS Threads,       \* callers of P and V
          NoThread,      \* holder of a free spinlock
          InitialCount,  \* sem_create's initial_count
          MaxPosts       \* bound: the number of V calls in a behaviour

ASSUME SemaphoreAssumption ==
  /\ NoThread \notin Threads /\ IsFiniteSet(Threads)
  /\ InitialCount \in Nat
  /\ MaxPosts \in Nat

VARIABLES sem_count, sem_lock, sem_wchan, pc, posted, passed

vars == <<sem_count, sem_lock, sem_wchan, pc, posted, passed>>

sem_create ==
  /\ sem_count = InitialCount
  /\ sem_lock = NoThread
  /\ sem_wchan = <<>>

Init ==
  /\ sem_create
  /\ pc = [t \in Threads |-> "client"]
  /\ posted = 0
  /\ passed = 0

-----------------------------------------------------------------------------
Goto(t, label) == pc' = [pc EXCEPT ![t] = label]

SpinAcquire(t, from, to) ==
  /\ pc[t] = from
  /\ sem_lock = NoThread
  /\ sem_lock' = t
  /\ Goto(t, to)
  /\ UNCHANGED <<sem_count, sem_wchan, posted, passed>>

(* P *)
p_call(t) ==
  /\ pc[t] = "client"
  /\ Goto(t, "p_spin")
  /\ UNCHANGED <<sem_count, sem_lock, sem_wchan, posted, passed>>

p_spin(t) == SpinAcquire(t, "p_spin", "p_loop")

\* while (sem_count == 0) wchan_sleep: queued and spinlock released in one step
p_sleep(t) ==
  /\ pc[t] = "p_loop"
  /\ sem_count = 0
  /\ sem_wchan' = Append(sem_wchan, t)
  /\ sem_lock' = NoThread
  /\ Goto(t, "p_asleep")
  /\ UNCHANGED <<sem_count, posted, passed>>

\* wchan_sleep takes the spinlock again before it returns to the loop
p_resume(t) == SpinAcquire(t, "p_resume", "p_loop")

p_leave_loop(t) ==
  /\ pc[t] = "p_loop"
  /\ sem_count # 0
  /\ Goto(t, "p_take")
  /\ UNCHANGED <<sem_count, sem_lock, sem_wchan, posted, passed>>

\* Fault: the count is not decremented.
p_take_keeps_count(t) ==
  /\ pc[t] = "p_take"
  /\ Goto(t, "p_unlock")
  /\ UNCHANGED <<sem_count, sem_lock, sem_wchan, posted, passed>>

\* KASSERT(sem_count > 0), then the decrement of an unsigned count.  A failed
\* KASSERT is a panic: the thread stays at its label.
p_take(t) ==
  /\ pc[t] = "p_take"
  /\ sem_count > 0
  /\ sem_count' = sem_count - 1
  /\ Goto(t, "p_unlock")
  /\ UNCHANGED <<sem_lock, sem_wchan, posted, passed>>

p_unlock(t) ==
  /\ pc[t] = "p_unlock"
  /\ sem_lock' = NoThread
  /\ passed' = passed + 1
  /\ Goto(t, "client")
  /\ UNCHANGED <<sem_count, sem_wchan, posted>>

P(t) ==
  p_spin(t) \/ p_sleep(t) \/ p_resume(t) \/ p_leave_loop(t) \/ p_take(t) \/ p_unlock(t)

(* V *)
v_call(t) ==
  /\ pc[t] = "client"
  /\ posted < MaxPosts
  /\ posted' = posted + 1
  /\ Goto(t, "v_spin")
  /\ UNCHANGED <<sem_count, sem_lock, sem_wchan, passed>>

v_spin(t) == SpinAcquire(t, "v_spin", "v_add")

v_add(t) ==
  /\ pc[t] = "v_add"
  /\ sem_count' = sem_count + 1
  /\ Goto(t, "v_wake")
  /\ UNCHANGED <<sem_lock, sem_wchan, posted, passed>>

\* Fault: a sleeper is woken only when the count leaves zero.
v_wake_on_first(t) ==
  /\ pc[t] = "v_wake"
  /\ IF sem_wchan = <<>> \/ sem_count > 1
     THEN /\ Goto(t, "v_unlock")
          /\ UNCHANGED sem_wchan
     ELSE /\ pc' = [pc EXCEPT ![t] = "v_unlock", ![Head(sem_wchan)] = "p_resume"]
          /\ sem_wchan' = Tail(sem_wchan)
  /\ UNCHANGED <<sem_count, sem_lock, posted, passed>>

\* wchan_wakeone
v_wake(t) ==
  /\ pc[t] = "v_wake"
  /\ IF sem_wchan = <<>>
     THEN /\ Goto(t, "v_unlock")
          /\ UNCHANGED sem_wchan
     ELSE /\ pc' = [pc EXCEPT ![t] = "v_unlock", ![Head(sem_wchan)] = "p_resume"]
          /\ sem_wchan' = Tail(sem_wchan)
  /\ UNCHANGED <<sem_count, sem_lock, posted, passed>>

v_unlock(t) ==
  /\ pc[t] = "v_unlock"
  /\ sem_lock' = NoThread
  /\ Goto(t, "client")
  /\ UNCHANGED <<sem_count, sem_wchan, posted, passed>>

V(t) == v_spin(t) \/ v_add(t) \/ v_wake(t) \/ v_unlock(t)

-----------------------------------------------------------------------------
Step(t) == P(t) \/ V(t)

Next == \E t \in Threads : p_call(t) \/ v_call(t) \/ Step(t)

Spec == Init /\ [][Next]_vars

\* A caller inside P or V is executed whenever it can take a step again and
\* again; nothing makes a thread call P or V.
Fairness == \A t \in Threads : SF_vars(Step(t))

FairSpec == Spec /\ Fairness

-----------------------------------------------------------------------------
\* P never lets more callers through than the initial count and the calls of V
\* that have begun allow.
NeverOverAdmits == passed <= InitialCount + posted

\* While threads sleep on the semaphore, as many threads are awake inside P's
\* loop, or about to be woken, as the count could admit: no V loses its wakeup
\* even when several V's run before the first woken thread does.
NoLostWakeup ==
  sem_wchan # <<>> =>
    Cardinality({t \in Threads : pc[t] \in {"p_resume", "p_loop", "p_take", "v_wake"}})
      >= sem_count

\* P's KASSERT(sem_count > 0): nobody takes the unit between the test of the
\* loop and the decrement.
UnitStillThere == \A t \in Threads : pc[t] = "p_take" => sem_count > 0

\* The three together: what P and V promise at every moment.
SemaphoreSound == NeverOverAdmits /\ NoLostWakeup /\ UnitStillThere

\* No thread stays inside P while the count stays positive.
PReturns ==
  \A t \in Threads :
    (pc[t] \in {"p_spin", "p_loop", "p_asleep", "p_resume", "p_take"} /\ sem_count > 0)
      ~> (pc[t] \in {"p_unlock", "client"} \/ sem_count = 0)
=============================================================================

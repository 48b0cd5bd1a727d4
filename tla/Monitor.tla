------------------------------ MODULE Monitor ------------------------------
(***************************************************************************)
(* What kern/include/synch.h promises of a sleep lock and the condition    *)
(* variable used with it: every operation takes effect in one step.        *)
(*                                                                         *)
(*   - "Only one thread can hold the lock at the same time" (lock_acquire) *)
(*   - "Only the thread holding the lock may do this" (lock_release)       *)
(*   - cv_wait releases the lock and starts to wait in the same step, and  *)
(*     comes back only with the lock                                       *)
(*   - cv_signal wakes one waiter if there is one, cv_broadcast wakes all, *)
(*     and both are called with the lock held                              *)
(*                                                                         *)
(* The lock wakes its own waiters in no promised order, so nothing here    *)
(* says which thread gets it next.                                         *)
(***************************************************************************)
CONSTANTS Threads,   \* the threads that share the lock
          NoThread   \* the holder of a free lock

VARIABLES holder,    \* the thread that holds the lock, or NoThread
          waiting,   \* threads inside cv_wait that nothing has woken yet
          woken      \* threads inside cv_wait that must take the lock again

vars == <<holder, waiting, woken>>

Init ==
  /\ holder = NoThread
  /\ waiting = {}
  /\ woken = {}

Acquire(t) ==
  /\ holder = NoThread
  /\ t \notin waiting \cup woken
  /\ holder' = t
  /\ UNCHANGED <<waiting, woken>>

Release(t) ==
  /\ holder = t
  /\ holder' = NoThread
  /\ UNCHANGED <<waiting, woken>>

Wait(t) ==
  /\ holder = t
  /\ holder' = NoThread
  /\ waiting' = waiting \cup {t}
  /\ UNCHANGED woken

Signal(t) ==
  /\ holder = t
  /\ \E u \in waiting :
       /\ waiting' = waiting \ {u}
       /\ woken' = woken \cup {u}
  /\ UNCHANGED holder

Broadcast(t) ==
  /\ holder = t
  /\ waiting' = {}
  /\ woken' = woken \cup waiting
  /\ UNCHANGED holder

\* The end of cv_wait: the lock is held again.
Return(t) ==
  /\ t \in woken
  /\ holder = NoThread
  /\ holder' = t
  /\ woken' = woken \ {t}
  /\ UNCHANGED waiting

Next ==
  \E t \in Threads :
    \/ Acquire(t)
    \/ Release(t)
    \/ Wait(t)
    \/ Signal(t)
    \/ Broadcast(t)
    \/ Return(t)

Spec == Init /\ [][Next]_vars
=============================================================================

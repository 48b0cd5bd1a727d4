------------------------------ MODULE CondVar ------------------------------
(***************************************************************************)
(* The sleep lock and the condition variable of kern/thread/synch.c:       *)
(* lock_acquire, lock_release and lock_do_i_hold, and cv_wait, cv_signal   *)
(* and cv_broadcast over the lock, at the granularity at which other CPUs  *)
(* can see them.                                                           *)
(*                                                                         *)
(* The fields of struct lock and struct cv keep their names.  lk_spinlock  *)
(* and cv_spinlock are the threads whose CPU holds the spinlock, lk_wchan  *)
(* and cv_wchan the lists of sleepers, woken from the head.  A thread runs *)
(* on a CPU of its own, so that the steps of different threads interleave  *)
(* freely; a thread on a list is blocked.                                  *)
(*                                                                         *)
(* A thread calls an operation from the label "client", or from another    *)
(* operation: cv_wait calls lock_release with cv_spinlock held, as the     *)
(* code does.  link is the label the operation returns to.  inside is the  *)
(* caller's own view: the threads that lock_acquire has returned to and    *)
(* that have not called lock_release since.                                *)
(***************************************************************************)
EXTENDS Naturals, Sequences

CONSTANTS Threads,   \* the threads that use the lock
          NoThread   \* stands for the NULL thread pointer

ASSUME ThreadsAssumption == NoThread \notin Threads

VARIABLES lk_lock,      \* 1 while the lock is held
          lk_holder,    \* the thread that holds it
          lk_spinlock,  \* holder of the spinlock that protects the fields
          lk_wchan,     \* sleepers, in order
          pc,           \* where each thread is
          link,         \* where each thread's current call returns to
          result,       \* what lock_do_i_hold last returned to each thread
          inside,       \* threads that hold the lock in their callers' view
          cv_spinlock,  \* holder of the spinlock that protects cv_wchan
          cv_wchan      \* threads asleep in cv_wait, in order

lockVars == <<lk_lock, lk_holder, lk_spinlock, lk_wchan>>
callVars == <<pc, link, result, inside>>

-----------------------------------------------------------------------------
(* lock_create leaves lk_holder as kmalloc returned it, so its first value *)
(* is arbitrary.                                                           *)
lock_create ==
  /\ lk_lock = 0
  /\ lk_holder \in Threads \cup {NoThread}
  /\ lk_spinlock = NoThread
  /\ lk_wchan = <<>>

LockInit ==
  /\ lock_create
  /\ pc = [t \in Threads |-> "client"]
  /\ link = [t \in Threads |-> "client"]
  /\ result = [t \in Threads |-> FALSE]
  /\ inside = {}

-----------------------------------------------------------------------------
Goto(t, label) == pc' = [pc EXCEPT ![t] = label]

\* spinlock_acquire spins until the word is free; only the step that takes
\* it matters to the others.
SpinAcquire(t, from, to) ==
  /\ pc[t] = from
  /\ lk_spinlock = NoThread
  /\ lk_spinlock' = t
  /\ Goto(t, to)
  /\ UNCHANGED <<lk_lock, lk_holder, lk_wchan, link, result, inside>>

(* lock_acquire *)
acq_spin(t) == SpinAcquire(t, "acq_spin", "acq_loop")

\* while (lk_lock == 1) wchan_sleep: queued and spinlock released in one step
acq_sleep(t) ==
  /\ pc[t] = "acq_loop"
  /\ lk_lock = 1
  /\ lk_wchan' = Append(lk_wchan, t)
  /\ lk_spinlock' = NoThread
  /\ Goto(t, "acq_asleep")
  /\ UNCHANGED <<lk_lock, lk_holder, link, result, inside>>

\* wchan_sleep takes the spinlock again before it returns to the loop
acq_resume(t) == SpinAcquire(t, "acq_resume", "acq_loop")

\* Fault: the loop test is forgotten, the lock is taken while it is held.
acq_take_untested(t) ==
  /\ pc[t] = "acq_loop"
  /\ lk_lock' = 1
  /\ lk_holder' = t
  /\ Goto(t, "acq_unlock")
  /\ UNCHANGED <<lk_spinlock, lk_wchan, link, result, inside>>

acq_take(t) ==
  /\ pc[t] = "acq_loop"
  /\ lk_lock # 1
  /\ lk_lock' = 1
  /\ lk_holder' = t
  /\ Goto(t, "acq_unlock")
  /\ UNCHANGED <<lk_spinlock, lk_wchan, link, result, inside>>

acq_unlock(t) ==
  /\ pc[t] = "acq_unlock"
  /\ lk_spinlock' = NoThread
  /\ inside' = inside \cup {t}
  /\ Goto(t, link[t])
  /\ UNCHANGED <<lk_lock, lk_holder, lk_wchan, link, result>>

lock_acquire(t) ==
  acq_spin(t) \/ acq_sleep(t) \/ acq_resume(t) \/ acq_take(t) \/ acq_unlock(t)

(* lock_release *)
\* The two KASSERTs read lk_lock and lk_holder before the spinlock is taken.
\* A failed KASSERT is a panic: the thread stays at its label.
rel_assert(t) ==
  /\ pc[t] = "rel_assert"
  /\ lk_lock = 1
  /\ lk_holder = t
  /\ Goto(t, "rel_spin")
  /\ UNCHANGED <<lockVars, link, result, inside>>

rel_spin(t) == SpinAcquire(t, "rel_spin", "rel_clear")

rel_clear(t) ==
  /\ pc[t] = "rel_clear"
  /\ lk_lock' = 0
  /\ lk_holder' = NoThread
  /\ Goto(t, "rel_wake")
  /\ UNCHANGED <<lk_spinlock, lk_wchan, link, result, inside>>

\* Fault: lock_release wakes nobody.
rel_wake_nobody(t) ==
  /\ pc[t] = "rel_wake"
  /\ Goto(t, "rel_unlock")
  /\ UNCHANGED <<lockVars, link, result, inside>>

\* wchan_wakeone: the first sleeper, if there is one, becomes runnable
rel_wake(t) ==
  /\ pc[t] = "rel_wake"
  /\ IF lk_wchan = <<>>
     THEN /\ Goto(t, "rel_unlock")
          /\ UNCHANGED lk_wchan
     ELSE /\ pc' = [pc EXCEPT ![t] = "rel_unlock", ![Head(lk_wchan)] = "acq_resume"]
          /\ lk_wchan' = Tail(lk_wchan)
  /\ UNCHANGED <<lk_lock, lk_holder, lk_spinlock, link, result, inside>>

rel_unlock(t) ==
  /\ pc[t] = "rel_unlock"
  /\ lk_spinlock' = NoThread
  /\ Goto(t, link[t])
  /\ UNCHANGED <<lk_lock, lk_holder, lk_wchan, link, result, inside>>

lock_release(t) ==
  rel_assert(t) \/ rel_spin(t) \/ rel_clear(t) \/ rel_wake(t) \/ rel_unlock(t)

(* lock_do_i_hold *)
chk_spin(t) == SpinAcquire(t, "chk_spin", "chk_read")

\* Fault: only lk_holder is compared.
chk_read_holder_only(t) ==
  /\ pc[t] = "chk_read"
  /\ result' = [result EXCEPT ![t] = (lk_holder = t)]
  /\ Goto(t, "chk_unlock")
  /\ UNCHANGED <<lockVars, link, inside>>

chk_read(t) ==
  /\ pc[t] = "chk_read"
  /\ result' = [result EXCEPT ![t] = (lk_lock = 1 /\ lk_holder = t)]
  /\ Goto(t, "chk_unlock")
  /\ UNCHANGED <<lockVars, link, inside>>

chk_unlock(t) ==
  /\ pc[t] = "chk_unlock"
  /\ lk_spinlock' = NoThread
  /\ Goto(t, link[t])
  /\ UNCHANGED <<lk_lock, lk_holder, lk_wchan, link, result, inside>>

lock_do_i_hold(t) == chk_spin(t) \/ chk_read(t) \/ chk_unlock(t)

-----------------------------------------------------------------------------
(* Calls.  A call jumps to the operation's first label and records where   *)
(* it returns to.  The callers obey synch.h: a thread asks for the lock    *)
(* only when it does not hold it and releases it only when it does.        *)
Call(t, from, entry, return) ==
  /\ pc[t] = from
  /\ Goto(t, entry)
  /\ link' = [link EXCEPT ![t] = return]

CallAcquire(t, from, return) ==
  /\ t \notin inside
  /\ Call(t, from, "acq_spin", return)
  /\ UNCHANGED <<lockVars, result, inside>>

CallRelease(t, from, return) ==
  /\ t \in inside
  /\ Call(t, from, "rel_assert", return)
  /\ inside' = inside \ {t}
  /\ UNCHANGED <<lockVars, result>>

CallDoIHold(t, from, return) ==
  /\ Call(t, from, "chk_spin", return)
  /\ UNCHANGED <<lockVars, result, inside>>

LockStep(t) == lock_acquire(t) \/ lock_release(t) \/ lock_do_i_hold(t)

LockLabels == {"client", "acq_spin", "acq_loop", "acq_asleep", "acq_resume", "acq_unlock",
               "rel_assert", "rel_spin", "rel_clear", "rel_wake", "rel_unlock",
               "chk_spin", "chk_read", "chk_unlock"}

-----------------------------------------------------------------------------
(* The condition variable *)
cvVars == <<cv_spinlock, cv_wchan>>
vars == <<lockVars, callVars, cvVars>>

\* The threads asleep on the condition variable
Sleepers == {cv_wchan[i] : i \in 1 .. Len(cv_wchan)}

-----------------------------------------------------------------------------
cv_create ==
  /\ cv_spinlock = NoThread
  /\ cv_wchan = <<>>

Init == LockInit /\ cv_create

-----------------------------------------------------------------------------
\* spinlock_acquire(&cv->cv_spinlock)
SpinAcquireCV(t, from, to) ==
  /\ pc[t] = from
  /\ cv_spinlock = NoThread
  /\ cv_spinlock' = t
  /\ Goto(t, to)
  /\ UNCHANGED <<lockVars, link, result, inside, cv_wchan>>

SpinReleaseCV(t, from, to) ==
  /\ pc[t] = from
  /\ cv_spinlock' = NoThread
  /\ Goto(t, to)
  /\ UNCHANGED <<lockVars, link, result, inside, cv_wchan>>

\* KASSERT(lock_do_i_hold(lock)), before the spinlock is taken.  A failed
\* KASSERT is a panic: the thread stays at its label.
AssertHeldAndSpin(t, from, to) ==
  /\ result[t]
  /\ SpinAcquireCV(t, from, to)

(* cv_wait *)
\* Fault: the lock is released before cv_spinlock is taken.
wait_spin_not_at_all(t) ==
  /\ pc[t] = "wait_spin"
  /\ result[t]
  /\ Goto(t, "wait_release")
  /\ UNCHANGED <<lockVars, link, result, inside, cvVars>>

wait_spin(t) == AssertHeldAndSpin(t, "wait_spin", "wait_release")

\* lock_release(lock), still holding cv_spinlock
wait_release(t) ==
  /\ CallRelease(t, "wait_release", "wait_sleep")
  /\ UNCHANGED cvVars

\* wchan_sleep: queued and cv_spinlock released in one step
wait_sleep(t) ==
  /\ pc[t] = "wait_sleep"
  /\ cv_wchan' = Append(cv_wchan, t)
  /\ cv_spinlock' = NoThread
  /\ Goto(t, "wait_asleep")
  /\ UNCHANGED <<lockVars, link, result, inside>>

wait_resume(t) == SpinAcquireCV(t, "wait_resume", "wait_unlock")

wait_unlock(t) == SpinReleaseCV(t, "wait_unlock", "wait_reacquire")

\* Fault: the thread that was woken returns without taking the lock again.
wait_reacquire_skipped(t) ==
  /\ pc[t] = "wait_reacquire"
  /\ Goto(t, "wait_return")
  /\ UNCHANGED <<lockVars, link, result, inside, cvVars>>

wait_reacquire(t) ==
  /\ CallAcquire(t, "wait_reacquire", "wait_return")
  /\ UNCHANGED cvVars

wait_return(t) ==
  /\ pc[t] = "wait_return"
  /\ Goto(t, "client")
  /\ UNCHANGED <<lockVars, link, result, inside, cvVars>>

cv_wait(t) ==
  \/ wait_spin(t) \/ wait_release(t) \/ wait_sleep(t) \/ wait_resume(t)
  \/ wait_unlock(t) \/ wait_reacquire(t) \/ wait_return(t)

(* cv_signal *)
sig_spin(t) == AssertHeldAndSpin(t, "sig_spin", "sig_wake")

\* wchan_wakeone
sig_wake(t) ==
  /\ pc[t] = "sig_wake"
  /\ IF cv_wchan = <<>>
     THEN /\ Goto(t, "sig_unlock")
          /\ UNCHANGED cv_wchan
     ELSE /\ pc' = [pc EXCEPT ![t] = "sig_unlock", ![Head(cv_wchan)] = "wait_resume"]
          /\ cv_wchan' = Tail(cv_wchan)
  /\ UNCHANGED <<lockVars, link, result, inside, cv_spinlock>>

sig_unlock(t) == SpinReleaseCV(t, "sig_unlock", "client")

cv_signal(t) == sig_spin(t) \/ sig_wake(t) \/ sig_unlock(t)

(* cv_broadcast *)
bc_spin(t) == AssertHeldAndSpin(t, "bc_spin", "bc_wake")

\* wchan_wakeall
bc_wake(t) ==
  /\ pc[t] = "bc_wake"
  /\ pc' = [u \in Threads |-> CASE u = t -> "bc_unlock"
                                [] u \in Sleepers -> "wait_resume"
                                [] OTHER -> pc[u]]
  /\ cv_wchan' = <<>>
  /\ UNCHANGED <<lockVars, link, result, inside, cv_spinlock>>

\* Fault: cv_broadcast returns with cv_spinlock.
bc_unlock_forgotten(t) ==
  /\ pc[t] = "bc_unlock"
  /\ Goto(t, "client")
  /\ UNCHANGED <<lockVars, link, result, inside, cvVars>>

bc_unlock(t) == SpinReleaseCV(t, "bc_unlock", "client")

cv_broadcast(t) == bc_spin(t) \/ bc_wake(t) \/ bc_unlock(t)

-----------------------------------------------------------------------------
(* Calls.  The callers obey synch.h: the three operations are called with  *)
(* the lock held.  Each starts with lock_do_i_hold.                        *)
CallCV(t, entry) ==
  /\ t \in inside
  /\ CallDoIHold(t, "client", entry)
  /\ UNCHANGED cvVars

Client(t) ==
  \/ CallAcquire(t, "client", "client") /\ UNCHANGED cvVars
  \/ CallRelease(t, "client", "client") /\ UNCHANGED cvVars
  \/ CallDoIHold(t, "client", "client") /\ UNCHANGED cvVars
  \/ CallCV(t, "wait_spin")
  \/ CallCV(t, "sig_spin")
  \/ CallCV(t, "bc_spin")

Step(t) ==
  \/ LockStep(t) /\ UNCHANGED cvVars
  \/ cv_wait(t)
  \/ cv_signal(t)
  \/ cv_broadcast(t)

Next == \E t \in Threads : Client(t) \/ Step(t)

Spec == Init /\ [][Next]_vars

\* A thread inside an operation is executed, and a thread
\* that holds the lock does not keep it forever.
Fairness ==
  /\ \A t \in Threads : SF_vars(Step(t))
  /\ \A t \in Threads : SF_vars(CallRelease(t, "client", "client") /\ UNCHANGED cvVars)

FairSpec == Spec /\ Fairness

-----------------------------------------------------------------------------
Labels == LockLabels \cup
          {"wait_spin", "wait_release", "wait_sleep", "wait_asleep", "wait_resume",
           "wait_unlock", "wait_reacquire", "wait_return",
           "sig_spin", "sig_wake", "sig_unlock", "bc_spin", "bc_wake", "bc_unlock"}

ReturnLabels == {"client", "wait_spin", "sig_spin", "bc_spin", "wait_sleep", "wait_return"}

\* Every variable has its type.
TypeOK ==
  /\ lk_lock \in {0, 1}
  /\ {lk_holder, lk_spinlock, cv_spinlock} \subseteq Threads \cup {NoThread}
  /\ lk_wchan \in Seq(Threads)
  /\ cv_wchan \in Seq(Threads)
  /\ pc \in [Threads -> Labels]
  /\ link \in [Threads -> ReturnLabels]
  /\ result \in [Threads -> BOOLEAN]
  /\ inside \in SUBSET Threads

-----------------------------------------------------------------------------
(* Properties *)
\* lock_acquire never returns to a thread while another one, to which it has
\* returned, has not called lock_release.
MutualExclusion == \A t, u \in inside : t = u

\* lock_do_i_hold answers for the calling thread whatever the others do, and
\* whatever lk_holder was when lock_create left it uninitialised.
DoIHoldIsExact == \A t \in Threads : pc[t] = "chk_unlock" => (result[t] <=> t \in inside)

\* A free lock with sleepers always has a thread on its way to take it: the
\* release that is about to wake one, or one awake in lock_acquire's loop.
NoLostWakeup ==
  lk_lock = 0 /\ lk_wchan # <<>> =>
    \E t \in Threads : pc[t] \in {"rel_wake", "acq_resume", "acq_loop"}

\* Threads that have given up the lock inside cv_wait and that no signal has
\* woken yet, whether or not they have reached the wait channel.
Waiting ==
  {t \in Threads : \/ pc[t] \in {"wait_sleep", "wait_asleep"}
                   \/ pc[t] \in {"rel_wake", "rel_unlock"} /\ link[t] = "wait_sleep"}

\* Threads that a signal has woken and that do not hold the lock yet.
Woken ==
  {t \in Threads : \/ pc[t] \in {"wait_resume", "wait_unlock", "wait_reacquire"}
                   \/ /\ pc[t] \in {"acq_spin", "acq_loop", "acq_asleep", "acq_resume"}
                      /\ link[t] = "wait_return"}

\* No KASSERT of cv_wait, cv_signal, cv_broadcast or lock_release fires.
NoPanic ==
  /\ \A t \in Threads : pc[t] = "rel_assert" => lk_lock = 1 /\ lk_holder = t
  /\ \A t \in Threads : pc[t] \in {"wait_spin", "sig_spin", "bc_spin"} => result[t]

\* When cv_signal or cv_broadcast looks at the wait channel, every thread that
\* has released the lock in cv_wait is on it: none is between the two steps.
SignalSeesEveryWaiter ==
  \A t \in Threads : pc[t] \in {"sig_wake", "bc_wake"} => Waiting = Sleepers

\* The lock excludes, knows its holder, and no assertion about it fails
\* (lock_acquire, lock_release, lock_do_i_hold, cv_wait).
LockSound == MutualExclusion /\ NoPanic /\ DoIHoldIsExact

\* No wakeup is lost, neither of the lock (lock_release against the test and
\* the sleep in lock_acquire) nor of the condition variable (cv_signal and
\* cv_broadcast against cv_wait's release of the lock).
WakeupsKept == NoLostWakeup /\ SignalSeesEveryWaiter

\* A lock that is released while threads sleep on it is taken again.
SleepersProgress == (lk_lock = 0 /\ lk_wchan # <<>>) ~> (lk_lock = 1)

\* Both spinlocks are always given back: cv_wait takes the lock's spinlock
\* while it holds the condition variable's, and nothing takes them in the
\* other order.
SpinlocksReleased ==
  /\ lk_spinlock # NoThread ~> lk_spinlock = NoThread
  /\ cv_spinlock # NoThread ~> cv_spinlock = NoThread

\* Seen from outside the spinlocks, every operation is atomic, cv_wait's
\* release-and-wait included.
M == INSTANCE Monitor WITH
       holder <- IF lk_lock = 1 THEN lk_holder ELSE NoThread,
       waiting <- Waiting,
       woken <- Woken
ImplementsMonitor == M!Spec
=============================================================================

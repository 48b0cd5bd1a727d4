--------------------------- MODULE CondVarProofs ---------------------------
(***************************************************************************)
(* Proofs about the sleep lock and the condition variable, for every set   *)
(* of threads.                                                             *)
(*                                                                         *)
(* Mutual exclusion is not inductive as it stands.  What makes it so:      *)
(*   - exactly the thread at a label inside a spinlock section holds that  *)
(*     spinlock (SpinOwner, CvSpinOwner); cv_wait's call of lock_release   *)
(*     is inside cv_spinlock's section;                                    *)
(*   - lk_lock and lk_holder name exactly the thread between acq_take and  *)
(*     rel_clear (HolderIsExact);                                          *)
(*   - the wait channels hold sleeping threads, each once (LockQueue,      *)
(*     CvQueue), so that a wakeup moves no thread but a sleeping one;      *)
(*   - a call returns to a place that fits it (LinksFit), and the asserts  *)
(*     of the condition variable see the answer true (Answered).           *)
(***************************************************************************)
EXTENDS CondVar, TLAPS

SpinLabels == {"acq_loop", "acq_unlock", "rel_clear", "rel_wake", "rel_unlock",
               "chk_read", "chk_unlock"}
SpinOwner(t) == pc[t] \in SpinLabels <=> lk_spinlock = t

AcquireLabels == {"acq_spin", "acq_loop", "acq_asleep", "acq_resume", "acq_unlock"}
ReleaseLabels == {"rel_assert", "rel_spin", "rel_clear", "rel_wake", "rel_unlock"}
CheckLabels == {"chk_spin", "chk_read", "chk_unlock"}
AssertLabels == {"wait_spin", "sig_spin", "bc_spin"}

CvSpinLabels == {"wait_release", "wait_sleep", "wait_unlock", "sig_wake", "sig_unlock",
                 "bc_wake", "bc_unlock"}
InCvSection(t) == \/ pc[t] \in CvSpinLabels
                  \/ pc[t] \in ReleaseLabels /\ link[t] = "wait_sleep"
CvSpinOwner(t) == InCvSection(t) <=> cv_spinlock = t

\* Labels at which a thread holds the lock without being inside,
PassageLabels == {"acq_unlock", "rel_assert", "rel_spin", "rel_clear"}
\* those of the condition variable at which it is inside,
CvInsideLabels == AssertLabels \cup {"wait_release", "sig_wake", "sig_unlock", "bc_wake",
                                     "bc_unlock", "wait_return"}
\* and all at which it can be inside.
InsideLabels == {"client"} \cup CheckLabels \cup CvInsideLabels

HolderIsExact(t) ==
  /\ (lk_lock = 1 /\ lk_holder = t) <=> (t \in inside \/ pc[t] \in PassageLabels)
  /\ t \in inside => pc[t] \in InsideLabels
  /\ pc[t] \in CvInsideLabels => t \in inside

LinksFit(t) ==
  /\ pc[t] \in AcquireLabels => link[t] \in {"client", "wait_return"}
  /\ pc[t] \in ReleaseLabels => link[t] \in {"client", "wait_sleep"}
  /\ pc[t] \in CheckLabels => link[t] \in {"client"} \cup AssertLabels
  /\ pc[t] \in CheckLabels /\ link[t] # "client" => t \in inside

Answered(t) ==
  /\ pc[t] \in AssertLabels => result[t]
  /\ pc[t] = "chk_unlock" => (result[t] <=> t \in inside)

\* What holds of each thread by itself
ThreadInv(t) ==
  SpinOwner(t) /\ CvSpinOwner(t) /\ HolderIsExact(t) /\ LinksFit(t) /\ Answered(t)

LockQueue ==
  /\ \A i \in 1 .. Len(lk_wchan) : pc[lk_wchan[i]] = "acq_asleep"
  /\ \A i, j \in 1 .. Len(lk_wchan) : lk_wchan[i] = lk_wchan[j] => i = j

CvQueue ==
  /\ \A t \in Threads : pc[t] = "wait_asleep" <=> t \in Sleepers
  /\ \A i, j \in 1 .. Len(cv_wchan) : cv_wchan[i] = cv_wchan[j] => i = j

IInv ==
  /\ TypeOK
  /\ \A t \in Threads : ThreadInv(t)
  /\ LockQueue /\ CvQueue
  /\ NoLostWakeup

-----------------------------------------------------------------------------
LEMMA InitIInv == Init => IInv
<1> SUFFICES ASSUME Init PROVE IInv
  OBVIOUS
<1> USE ThreadsAssumption DEF Init, LockInit, lock_create, cv_create
<1>1. TypeOK
  BY DEF TypeOK, Labels, LockLabels, ReturnLabels
<1>2. ASSUME NEW t \in Threads PROVE ThreadInv(t)
  <2>1. pc[t] = "client" /\ inside = {}
    OBVIOUS
  <2>2. SpinOwner(t)
    BY <2>1 DEF SpinOwner, SpinLabels
  <2>3. CvSpinOwner(t)
    BY <2>1 DEF CvSpinOwner, InCvSection, CvSpinLabels, ReleaseLabels
  <2>4. HolderIsExact(t)
    BY <2>1 DEF HolderIsExact, PassageLabels, InsideLabels, CvInsideLabels, AssertLabels
  <2>5. LinksFit(t)
    BY <2>1 DEF LinksFit, AcquireLabels, ReleaseLabels, CheckLabels
  <2>6. Answered(t)
    BY <2>1 DEF Answered, AssertLabels
  <2> QED BY <2>2, <2>3, <2>4, <2>5, <2>6 DEF ThreadInv
<1>3. LockQueue /\ CvQueue /\ NoLostWakeup
  BY DEF LockQueue, CvQueue, Sleepers, NoLostWakeup
<1> QED BY <1>1, <1>2, <1>3 DEF IInv

\* What a thread's own invariant depends on.
SameButPc(t) ==
  /\ link'[t] = link[t] /\ result'[t] = result[t]
  /\ t \in inside' <=> t \in inside
  /\ lk_spinlock' = t <=> lk_spinlock = t
  /\ cv_spinlock' = t <=> cv_spinlock = t
  /\ (lk_lock' = 1 /\ lk_holder' = t) <=> (lk_lock = 1 /\ lk_holder = t)

Same(t) == pc'[t] = pc[t] /\ SameButPc(t)

\* A step that changes none of it preserves the thread's invariant.
LEMMA SameThreadInv == ASSUME NEW t \in Threads, ThreadInv(t), Same(t) PROVE ThreadInv(t)'
<1>1. SpinOwner(t)' /\ CvSpinOwner(t)'
  BY DEF ThreadInv, Same, SameButPc, SpinOwner, CvSpinOwner, InCvSection
<1>2. HolderIsExact(t)'
  BY DEF ThreadInv, Same, SameButPc, HolderIsExact
<1>3. LinksFit(t)'
  BY DEF ThreadInv, Same, SameButPc, LinksFit
<1>4. Answered(t)'
  BY Zenon DEF ThreadInv, Same, SameButPc, Answered
<1> QED BY <1>1, <1>2, <1>3, <1>4 DEF ThreadInv

\* A step of thread t preserves IInv if it leaves every other thread's own
\* invariant alone.
LEMMA StepOf ==
  ASSUME IInv, NEW t \in Threads, TypeOK', ThreadInv(t)',
         \A u \in Threads : u # t => Same(u), LockQueue', CvQueue', NoLostWakeup'
  PROVE  IInv'
  BY SameThreadInv DEF IInv

\* A step that moves thread t only, neither from nor to sleep, keeps the queues.
LEMMA QueuesKept ==
  ASSUME IInv, NEW t \in Threads, NEW label \in Labels,
         pc' = [pc EXCEPT ![t] = label], UNCHANGED <<lk_wchan, cv_wchan>>,
         pc[t] \notin {"acq_asleep", "wait_asleep"}, label \notin {"acq_asleep", "wait_asleep"}
  PROVE  LockQueue' /\ CvQueue'
<1>1. LockQueue'
  BY DEF IInv, TypeOK, LockQueue
<1>2. CvQueue'
  BY DEF IInv, TypeOK, CvQueue, Sleepers
<1> QED BY <1>1, <1>2

\* Taking the lock's spinlock moves one thread into its section.
LEMMA SpinAcquireIInv ==
  ASSUME IInv, NEW t \in Threads, UNCHANGED cvVars,
         acq_spin(t) \/ acq_resume(t) \/ rel_spin(t) \/ chk_spin(t)
  PROVE  IInv'
<1> USE DEF acq_spin, acq_resume, rel_spin, chk_spin, SpinAcquire, Goto, cvVars
<1>1. TypeOK'
  BY DEF IInv, TypeOK, Labels, LockLabels, ReturnLabels
<1>2. ThreadInv(t)'
  <2>0. ThreadInv(t) /\ TypeOK
    BY DEF IInv
  <2>1. SpinOwner(t)'
    BY <2>0, ThreadsAssumption DEF ThreadInv, TypeOK, SpinOwner, SpinLabels
  <2>2. CvSpinOwner(t)'
    BY <2>0, ThreadsAssumption DEF ThreadInv, TypeOK, CvSpinOwner, InCvSection, CvSpinLabels, ReleaseLabels
  <2>3. HolderIsExact(t)'
    BY <2>0 DEF ThreadInv, TypeOK, HolderIsExact, PassageLabels, InsideLabels, CvInsideLabels, AssertLabels,
                CheckLabels, LinksFit, ReleaseLabels, AcquireLabels
  <2>4. LinksFit(t)'
    BY <2>0 DEF ThreadInv, TypeOK, LinksFit, AcquireLabels, ReleaseLabels, CheckLabels, AssertLabels
  <2>5. Answered(t)'
    BY <2>0 DEF ThreadInv, TypeOK, Answered, AssertLabels, LinksFit, CheckLabels
  <2> QED BY <2>1, <2>2, <2>3, <2>4, <2>5 DEF ThreadInv
<1>3. \A u \in Threads : u # t => Same(u)
  BY ThreadsAssumption DEF IInv, TypeOK, Same, SameButPc, ThreadInv, SpinOwner, SpinLabels, CvSpinOwner, InCvSection, CvSpinLabels, ReleaseLabels, HolderIsExact, PassageLabels
<1>4. LockQueue' /\ CvQueue'
  BY QueuesKept DEF Labels, LockLabels
<1>5. NoLostWakeup'
  BY DEF IInv, TypeOK, NoLostWakeup
<1> QED BY <1>1, <1>2, <1>3, <1>4, <1>5, StepOf

\* Taking or giving back the condition variable's spinlock.
LEMMA CvSpinIInv ==
  ASSUME IInv, NEW t \in Threads, 
         \/ wait_spin(t) \/ wait_resume(t) \/ wait_unlock(t) \/ sig_spin(t) \/ sig_unlock(t)
         \/ bc_spin(t) \/ bc_unlock(t)
  PROVE  IInv'
<1> USE DEF wait_spin, wait_resume, wait_unlock, sig_spin, sig_unlock, bc_spin, bc_unlock,
           AssertHeldAndSpin, SpinAcquireCV, SpinReleaseCV, Goto, lockVars
<1>1. TypeOK'
  BY DEF IInv, TypeOK, Labels, LockLabels, ReturnLabels
<1>2. ThreadInv(t)'
  <2>0. ThreadInv(t) /\ TypeOK
    BY DEF IInv
  <2>1. SpinOwner(t)'
    BY <2>0, ThreadsAssumption DEF ThreadInv, TypeOK, SpinOwner, SpinLabels
  <2>2. CvSpinOwner(t)'
    BY <2>0, ThreadsAssumption DEF ThreadInv, TypeOK, CvSpinOwner, InCvSection, CvSpinLabels, ReleaseLabels
  <2>3. HolderIsExact(t)'
    BY <2>0 DEF ThreadInv, TypeOK, HolderIsExact, PassageLabels, InsideLabels, CvInsideLabels, AssertLabels,
                CheckLabels, LinksFit, ReleaseLabels, AcquireLabels
  <2>4. LinksFit(t)'
    BY <2>0 DEF ThreadInv, TypeOK, LinksFit, AcquireLabels, ReleaseLabels, CheckLabels, AssertLabels
  <2>5. Answered(t)'
    BY <2>0 DEF ThreadInv, TypeOK, Answered, AssertLabels, LinksFit, CheckLabels
  <2> QED BY <2>1, <2>2, <2>3, <2>4, <2>5 DEF ThreadInv
<1>3. \A u \in Threads : u # t => Same(u)
  BY ThreadsAssumption DEF IInv, TypeOK, Same, SameButPc, ThreadInv, SpinOwner, SpinLabels, CvSpinOwner, InCvSection, CvSpinLabels, ReleaseLabels, HolderIsExact, PassageLabels
<1>4. LockQueue' /\ CvQueue'
  BY QueuesKept DEF Labels, LockLabels
<1>5. NoLostWakeup'
  BY DEF IInv, TypeOK, NoLostWakeup
<1> QED BY <1>1, <1>2, <1>3, <1>4, <1>5, StepOf

\* lock_acquire takes the lock.
LEMMA TakeIInv ==
  ASSUME IInv, NEW t \in Threads, UNCHANGED cvVars, acq_take(t)
  PROVE  IInv'
<1> USE DEF acq_take, Goto, cvVars
<1>1. TypeOK'
  BY DEF IInv, TypeOK, Labels, LockLabels, ReturnLabels
<1>2. ThreadInv(t)'
  <2>0. ThreadInv(t) /\ TypeOK
    BY DEF IInv
  <2>1. SpinOwner(t)'
    BY <2>0, ThreadsAssumption DEF ThreadInv, TypeOK, SpinOwner, SpinLabels
  <2>2. CvSpinOwner(t)'
    BY <2>0, ThreadsAssumption DEF ThreadInv, TypeOK, CvSpinOwner, InCvSection, CvSpinLabels, ReleaseLabels
  <2>3. HolderIsExact(t)'
    BY <2>0 DEF ThreadInv, TypeOK, HolderIsExact, PassageLabels, InsideLabels, CvInsideLabels, AssertLabels,
                CheckLabels, LinksFit, ReleaseLabels, AcquireLabels
  <2>4. LinksFit(t)'
    BY <2>0 DEF ThreadInv, TypeOK, LinksFit, AcquireLabels, ReleaseLabels, CheckLabels, AssertLabels
  <2>5. Answered(t)'
    BY <2>0 DEF ThreadInv, TypeOK, Answered, AssertLabels, LinksFit, CheckLabels
  <2> QED BY <2>1, <2>2, <2>3, <2>4, <2>5 DEF ThreadInv
<1>3. \A u \in Threads : u # t => Same(u)
  BY ThreadsAssumption DEF IInv, TypeOK, Same, SameButPc, ThreadInv, SpinOwner, SpinLabels, CvSpinOwner, InCvSection, CvSpinLabels, ReleaseLabels, HolderIsExact, PassageLabels
<1>4. LockQueue' /\ CvQueue'
  BY QueuesKept DEF Labels, LockLabels
<1>5. NoLostWakeup'
  BY DEF IInv, TypeOK, NoLostWakeup
<1> QED BY <1>1, <1>2, <1>3, <1>4, <1>5, StepOf

\* lock_acquire returns.
LEMMA AcquiredIInv ==
  ASSUME IInv, NEW t \in Threads, UNCHANGED cvVars, acq_unlock(t)
  PROVE  IInv'
<1> USE DEF acq_unlock, Goto, cvVars
<1>0. link[t] \in {"client", "wait_return"}
  BY DEF IInv, ThreadInv, LinksFit, AcquireLabels, ReleaseLabels
<1>1. TypeOK'
  BY <1>0 DEF IInv, TypeOK, Labels, LockLabels, ReturnLabels
<1>2. ThreadInv(t)'
  <2>0. ThreadInv(t) /\ TypeOK
    BY DEF IInv
  <2>1. SpinOwner(t)'
    BY <1>0, <2>0, ThreadsAssumption DEF ThreadInv, TypeOK, SpinOwner, SpinLabels
  <2>2. CvSpinOwner(t)'
    BY <1>0, <2>0, ThreadsAssumption DEF ThreadInv, TypeOK, CvSpinOwner, InCvSection, CvSpinLabels, ReleaseLabels
  <2>3. HolderIsExact(t)'
    BY <1>0, <2>0 DEF ThreadInv, TypeOK, HolderIsExact, PassageLabels, InsideLabels, CvInsideLabels, AssertLabels,
                CheckLabels, LinksFit, ReleaseLabels, AcquireLabels
  <2>4. LinksFit(t)'
    BY <1>0, <2>0 DEF ThreadInv, TypeOK, LinksFit, AcquireLabels, ReleaseLabels, CheckLabels, AssertLabels
  <2>5. Answered(t)'
    BY <1>0, <2>0 DEF ThreadInv, TypeOK, Answered, AssertLabels, LinksFit, CheckLabels
  <2> QED BY <2>1, <2>2, <2>3, <2>4, <2>5 DEF ThreadInv
<1>3. \A u \in Threads : u # t => Same(u)
  BY <1>0, ThreadsAssumption DEF IInv, TypeOK, Same, SameButPc, ThreadInv, SpinOwner, SpinLabels, CvSpinOwner, InCvSection, CvSpinLabels, ReleaseLabels, HolderIsExact, PassageLabels
<1>4. LockQueue' /\ CvQueue'
  BY <1>0, QueuesKept DEF Labels, LockLabels
<1>5. NoLostWakeup'
  BY <1>0 DEF IInv, TypeOK, NoLostWakeup
<1> QED BY <1>1, <1>2, <1>3, <1>4, <1>5, StepOf

\* lock_release up to the wakeup.
LEMMA ReleaseIInv ==
  ASSUME IInv, NEW t \in Threads, UNCHANGED cvVars, rel_assert(t) \/ rel_clear(t)
  PROVE  IInv'
<1> USE DEF rel_assert, rel_clear, Goto, cvVars, lockVars
<1>1. TypeOK'
  BY DEF IInv, TypeOK, Labels, LockLabels, ReturnLabels
<1>2. ThreadInv(t)'
  <2>0. ThreadInv(t) /\ TypeOK
    BY DEF IInv
  <2>1. SpinOwner(t)'
    BY <2>0, ThreadsAssumption DEF ThreadInv, TypeOK, SpinOwner, SpinLabels
  <2>2. CvSpinOwner(t)'
    BY <2>0, ThreadsAssumption DEF ThreadInv, TypeOK, CvSpinOwner, InCvSection, CvSpinLabels, ReleaseLabels
  <2>3. HolderIsExact(t)'
    BY <2>0 DEF ThreadInv, TypeOK, HolderIsExact, PassageLabels, InsideLabels, CvInsideLabels, AssertLabels,
                CheckLabels, LinksFit, ReleaseLabels, AcquireLabels
  <2>4. LinksFit(t)'
    BY <2>0 DEF ThreadInv, TypeOK, LinksFit, AcquireLabels, ReleaseLabels, CheckLabels, AssertLabels
  <2>5. Answered(t)'
    BY <2>0 DEF ThreadInv, TypeOK, Answered, AssertLabels, LinksFit, CheckLabels
  <2> QED BY <2>1, <2>2, <2>3, <2>4, <2>5 DEF ThreadInv
<1>3. \A u \in Threads : u # t => Same(u)
  BY ThreadsAssumption DEF IInv, TypeOK, Same, SameButPc, ThreadInv, SpinOwner, SpinLabels, CvSpinOwner, InCvSection, CvSpinLabels, ReleaseLabels, HolderIsExact, PassageLabels
<1>4. LockQueue' /\ CvQueue'
  BY QueuesKept DEF Labels, LockLabels
<1>5. NoLostWakeup'
  BY DEF IInv, TypeOK, NoLostWakeup
<1> QED BY <1>1, <1>2, <1>3, <1>4, <1>5, StepOf

\* lock_release returns.
LEMMA ReleasedIInv ==
  ASSUME IInv, NEW t \in Threads, UNCHANGED cvVars, rel_unlock(t)
  PROVE  IInv'
<1> USE DEF rel_unlock, Goto, cvVars
<1>0. link[t] \in {"client", "wait_sleep"}
  BY DEF IInv, ThreadInv, LinksFit, AcquireLabels, ReleaseLabels
<1>1. TypeOK'
  BY <1>0 DEF IInv, TypeOK, Labels, LockLabels, ReturnLabels
<1>2. ThreadInv(t)'
  <2>0. ThreadInv(t) /\ TypeOK
    BY DEF IInv
  <2>1. SpinOwner(t)'
    BY <1>0, <2>0, ThreadsAssumption DEF ThreadInv, TypeOK, SpinOwner, SpinLabels
  <2>2. CvSpinOwner(t)'
    BY <1>0, <2>0, ThreadsAssumption DEF ThreadInv, TypeOK, CvSpinOwner, InCvSection, CvSpinLabels, ReleaseLabels
  <2>3. HolderIsExact(t)'
    BY <1>0, <2>0 DEF ThreadInv, TypeOK, HolderIsExact, PassageLabels, InsideLabels, CvInsideLabels, AssertLabels,
                CheckLabels, LinksFit, ReleaseLabels, AcquireLabels
  <2>4. LinksFit(t)'
    BY <1>0, <2>0 DEF ThreadInv, TypeOK, LinksFit, AcquireLabels, ReleaseLabels, CheckLabels, AssertLabels
  <2>5. Answered(t)'
    BY <1>0, <2>0 DEF ThreadInv, TypeOK, Answered, AssertLabels, LinksFit, CheckLabels
  <2> QED BY <2>1, <2>2, <2>3, <2>4, <2>5 DEF ThreadInv
<1>3. \A u \in Threads : u # t => Same(u)
  BY <1>0, ThreadsAssumption DEF IInv, TypeOK, Same, SameButPc, ThreadInv, SpinOwner, SpinLabels, CvSpinOwner, InCvSection, CvSpinLabels, ReleaseLabels, HolderIsExact, PassageLabels
<1>4. LockQueue' /\ CvQueue'
  BY <1>0, QueuesKept DEF Labels, LockLabels
<1>5. NoLostWakeup'
  BY <1>0 DEF IInv, TypeOK, NoLostWakeup
<1> QED BY <1>1, <1>2, <1>3, <1>4, <1>5, StepOf

\* lock_do_i_hold returns.
LEMMA CheckedIInv ==
  ASSUME IInv, NEW t \in Threads, UNCHANGED cvVars, chk_unlock(t)
  PROVE  IInv'
<1> USE DEF chk_unlock, Goto, cvVars
<1>0. /\ link[t] \in {"client", "wait_spin", "sig_spin", "bc_spin"}
      /\ link[t] # "client" => t \in inside
  BY DEF IInv, ThreadInv, LinksFit, CheckLabels, AssertLabels
<1>1. TypeOK'
  BY <1>0 DEF IInv, TypeOK, Labels, LockLabels, ReturnLabels
<1>2. ThreadInv(t)'
  <2>0. ThreadInv(t) /\ TypeOK
    BY DEF IInv
  <2>1. SpinOwner(t)'
    BY <1>0, <2>0, ThreadsAssumption DEF ThreadInv, TypeOK, SpinOwner, SpinLabels
  <2>2. CvSpinOwner(t)'
    BY <1>0, <2>0, ThreadsAssumption DEF ThreadInv, TypeOK, CvSpinOwner, InCvSection, CvSpinLabels, ReleaseLabels
  <2>3. HolderIsExact(t)'
    BY <1>0, <2>0 DEF ThreadInv, TypeOK, HolderIsExact, PassageLabels, InsideLabels, CvInsideLabels, AssertLabels,
                CheckLabels, LinksFit, ReleaseLabels, AcquireLabels
  <2>4. LinksFit(t)'
    BY <1>0, <2>0 DEF ThreadInv, TypeOK, LinksFit, AcquireLabels, ReleaseLabels, CheckLabels, AssertLabels
  <2>5. Answered(t)'
    BY <1>0, <2>0 DEF ThreadInv, TypeOK, Answered, AssertLabels, LinksFit, CheckLabels
  <2> QED BY <2>1, <2>2, <2>3, <2>4, <2>5 DEF ThreadInv
<1>3. \A u \in Threads : u # t => Same(u)
  BY <1>0, ThreadsAssumption DEF IInv, TypeOK, Same, SameButPc, ThreadInv, SpinOwner, SpinLabels, CvSpinOwner, InCvSection, CvSpinLabels, ReleaseLabels, HolderIsExact, PassageLabels
<1>4. LockQueue' /\ CvQueue'
  BY <1>0, QueuesKept DEF Labels, LockLabels
<1>5. NoLostWakeup'
  BY <1>0 DEF IInv, TypeOK, NoLostWakeup
<1> QED BY <1>1, <1>2, <1>3, <1>4, <1>5, StepOf

\* cv_wait returns.
LEMMA WaitReturnIInv ==
  ASSUME IInv, NEW t \in Threads, wait_return(t)
  PROVE  IInv'
<1> USE DEF wait_return, Goto, cvVars, lockVars
<1>1. TypeOK'
  BY DEF IInv, TypeOK, Labels, LockLabels, ReturnLabels
<1>2. ThreadInv(t)'
  <2>0. ThreadInv(t) /\ TypeOK
    BY DEF IInv
  <2>1. SpinOwner(t)'
    BY <2>0, ThreadsAssumption DEF ThreadInv, TypeOK, SpinOwner, SpinLabels
  <2>2. CvSpinOwner(t)'
    BY <2>0, ThreadsAssumption DEF ThreadInv, TypeOK, CvSpinOwner, InCvSection, CvSpinLabels, ReleaseLabels
  <2>3. HolderIsExact(t)'
    BY <2>0 DEF ThreadInv, TypeOK, HolderIsExact, PassageLabels, InsideLabels, CvInsideLabels, AssertLabels,
                CheckLabels, LinksFit, ReleaseLabels, AcquireLabels
  <2>4. LinksFit(t)'
    BY <2>0 DEF ThreadInv, TypeOK, LinksFit, AcquireLabels, ReleaseLabels, CheckLabels, AssertLabels
  <2>5. Answered(t)'
    BY <2>0 DEF ThreadInv, TypeOK, Answered, AssertLabels, LinksFit, CheckLabels
  <2> QED BY <2>1, <2>2, <2>3, <2>4, <2>5 DEF ThreadInv
<1>3. \A u \in Threads : u # t => Same(u)
  BY ThreadsAssumption DEF IInv, TypeOK, Same, SameButPc, ThreadInv, SpinOwner, SpinLabels, CvSpinOwner, InCvSection, CvSpinLabels, ReleaseLabels, HolderIsExact, PassageLabels
<1>4. LockQueue' /\ CvQueue'
  BY QueuesKept DEF Labels, LockLabels
<1>5. NoLostWakeup'
  BY DEF IInv, TypeOK, NoLostWakeup
<1> QED BY <1>1, <1>2, <1>3, <1>4, <1>5, StepOf

\* A call of lock_acquire, by the client or at the end of cv_wait.
LEMMA CallAcquireIInv ==
  ASSUME IInv, NEW t \in Threads, UNCHANGED cvVars,
         CallAcquire(t, "client", "client") \/ CallAcquire(t, "wait_reacquire", "wait_return")
  PROVE  IInv'
<1> USE DEF CallAcquire, Call, Goto, cvVars, lockVars
<1>1. TypeOK'
  BY DEF IInv, TypeOK, Labels, LockLabels, ReturnLabels
<1>2. ThreadInv(t)'
  <2>0. ThreadInv(t) /\ TypeOK
    BY DEF IInv
  <2>1. SpinOwner(t)'
    BY <2>0, ThreadsAssumption DEF ThreadInv, TypeOK, SpinOwner, SpinLabels
  <2>2. CvSpinOwner(t)'
    BY <2>0, ThreadsAssumption DEF ThreadInv, TypeOK, CvSpinOwner, InCvSection, CvSpinLabels, ReleaseLabels
  <2>3. HolderIsExact(t)'
    BY <2>0 DEF ThreadInv, TypeOK, HolderIsExact, PassageLabels, InsideLabels, CvInsideLabels, AssertLabels,
                CheckLabels, LinksFit, ReleaseLabels, AcquireLabels
  <2>4. LinksFit(t)'
    BY <2>0 DEF ThreadInv, TypeOK, LinksFit, AcquireLabels, ReleaseLabels, CheckLabels, AssertLabels
  <2>5. Answered(t)'
    BY <2>0 DEF ThreadInv, TypeOK, Answered, AssertLabels, LinksFit, CheckLabels
  <2> QED BY <2>1, <2>2, <2>3, <2>4, <2>5 DEF ThreadInv
<1>3. \A u \in Threads : u # t => Same(u)
  BY ThreadsAssumption DEF IInv, TypeOK, Same, SameButPc, ThreadInv, SpinOwner, SpinLabels, CvSpinOwner, InCvSection, CvSpinLabels, ReleaseLabels, HolderIsExact, PassageLabels
<1>4. LockQueue' /\ CvQueue'
  BY QueuesKept DEF Labels, LockLabels
<1>5. NoLostWakeup'
  BY DEF IInv, TypeOK, NoLostWakeup
<1> QED BY <1>1, <1>2, <1>3, <1>4, <1>5, StepOf

\* A call of lock_release, by the client or by cv_wait.
LEMMA CallReleaseIInv ==
  ASSUME IInv, NEW t \in Threads, UNCHANGED cvVars,
         CallRelease(t, "client", "client") \/ CallRelease(t, "wait_release", "wait_sleep")
  PROVE  IInv'
<1> USE DEF CallRelease, Call, Goto, cvVars, lockVars
<1>1. TypeOK'
  BY DEF IInv, TypeOK, Labels, LockLabels, ReturnLabels
<1>2. ThreadInv(t)'
  <2>0. ThreadInv(t) /\ TypeOK
    BY DEF IInv
  <2>1. SpinOwner(t)'
    BY <2>0, ThreadsAssumption DEF ThreadInv, TypeOK, SpinOwner, SpinLabels
  <2>2. CvSpinOwner(t)'
    BY <2>0, ThreadsAssumption DEF ThreadInv, TypeOK, CvSpinOwner, InCvSection, CvSpinLabels, ReleaseLabels
  <2>3. HolderIsExact(t)'
    BY <2>0 DEF ThreadInv, TypeOK, HolderIsExact, PassageLabels, InsideLabels, CvInsideLabels, AssertLabels,
                CheckLabels, LinksFit, ReleaseLabels, AcquireLabels
  <2>4. LinksFit(t)'
    BY <2>0 DEF ThreadInv, TypeOK, LinksFit, AcquireLabels, ReleaseLabels, CheckLabels, AssertLabels
  <2>5. Answered(t)'
    BY <2>0 DEF ThreadInv, TypeOK, Answered, AssertLabels, LinksFit, CheckLabels
  <2> QED BY <2>1, <2>2, <2>3, <2>4, <2>5 DEF ThreadInv
<1>3. \A u \in Threads : u # t => Same(u)
  BY ThreadsAssumption DEF IInv, TypeOK, Same, SameButPc, ThreadInv, SpinOwner, SpinLabels, CvSpinOwner, InCvSection, CvSpinLabels, ReleaseLabels, HolderIsExact, PassageLabels
<1>4. LockQueue' /\ CvQueue'
  BY QueuesKept DEF Labels, LockLabels
<1>5. NoLostWakeup'
  BY DEF IInv, TypeOK, NoLostWakeup
<1> QED BY <1>1, <1>2, <1>3, <1>4, <1>5, StepOf

\* A call of lock_do_i_hold, by the client or at the beginning of cv_wait,
\* cv_signal or cv_broadcast.
LEMMA CallDoIHoldIInv ==
  ASSUME IInv, NEW t \in Threads, UNCHANGED cvVars, NEW return \in {"client"} \cup AssertLabels,
         return # "client" => t \in inside, CallDoIHold(t, "client", return)
  PROVE  IInv'
<1> USE DEF CallDoIHold, Call, Goto, cvVars, lockVars, AssertLabels
<1>1. TypeOK'
  BY DEF IInv, TypeOK, Labels, LockLabels, ReturnLabels
<1>2. ThreadInv(t)'
  <2>0. ThreadInv(t) /\ TypeOK
    BY DEF IInv
  <2>1. SpinOwner(t)'
    BY <2>0, ThreadsAssumption DEF ThreadInv, TypeOK, SpinOwner, SpinLabels
  <2>2. CvSpinOwner(t)'
    BY <2>0, ThreadsAssumption DEF ThreadInv, TypeOK, CvSpinOwner, InCvSection, CvSpinLabels, ReleaseLabels
  <2>3. HolderIsExact(t)'
    BY <2>0 DEF ThreadInv, TypeOK, HolderIsExact, PassageLabels, InsideLabels, CvInsideLabels, AssertLabels,
                CheckLabels, LinksFit, ReleaseLabels, AcquireLabels
  <2>4. LinksFit(t)'
    BY <2>0 DEF ThreadInv, TypeOK, LinksFit, AcquireLabels, ReleaseLabels, CheckLabels, AssertLabels
  <2>5. Answered(t)'
    BY <2>0 DEF ThreadInv, TypeOK, Answered, AssertLabels, LinksFit, CheckLabels
  <2> QED BY <2>1, <2>2, <2>3, <2>4, <2>5 DEF ThreadInv
<1>3. \A u \in Threads : u # t => Same(u)
  BY ThreadsAssumption DEF IInv, TypeOK, Same, SameButPc, ThreadInv, SpinOwner, SpinLabels, CvSpinOwner, InCvSection, CvSpinLabels, ReleaseLabels, HolderIsExact, PassageLabels
<1>4. LockQueue' /\ CvQueue'
  BY QueuesKept DEF Labels, LockLabels
<1>5. NoLostWakeup'
  BY DEF IInv, TypeOK, NoLostWakeup
<1> QED BY <1>1, <1>2, <1>3, <1>4, <1>5, StepOf

\* wchan_sleep appends a thread that was awake to the lock's wait channel.
LEMMA SleepIInv ==
  ASSUME IInv, NEW t \in Threads, UNCHANGED cvVars, acq_sleep(t)
  PROVE  IInv'
<1> USE DEF acq_sleep, Goto, cvVars
<1>1. TypeOK'
  BY DEF IInv, TypeOK, Labels, LockLabels, ReturnLabels
<1>2. ThreadInv(t)'
  <2>0. ThreadInv(t) /\ TypeOK
    BY DEF IInv
  <2>1. SpinOwner(t)'
    BY <2>0, ThreadsAssumption DEF ThreadInv, TypeOK, SpinOwner, SpinLabels
  <2>2. CvSpinOwner(t)'
    BY <2>0, ThreadsAssumption DEF ThreadInv, TypeOK, CvSpinOwner, InCvSection, CvSpinLabels, ReleaseLabels
  <2>3. HolderIsExact(t)'
    BY <2>0 DEF ThreadInv, TypeOK, HolderIsExact, PassageLabels, InsideLabels, CvInsideLabels, AssertLabels,
                CheckLabels, LinksFit, ReleaseLabels, AcquireLabels
  <2>4. LinksFit(t)'
    BY <2>0 DEF ThreadInv, TypeOK, LinksFit, AcquireLabels, ReleaseLabels, CheckLabels, AssertLabels
  <2>5. Answered(t)'
    BY <2>0 DEF ThreadInv, TypeOK, Answered, AssertLabels, LinksFit, CheckLabels
  <2> QED BY <2>1, <2>2, <2>3, <2>4, <2>5 DEF ThreadInv
<1>3. \A u \in Threads : u # t => Same(u)
  BY ThreadsAssumption DEF IInv, TypeOK, Same, SameButPc, ThreadInv, SpinOwner, SpinLabels, CvSpinOwner, InCvSection, CvSpinLabels, ReleaseLabels, HolderIsExact, PassageLabels
<1>4. LockQueue' /\ CvQueue'
  <2>1. LockQueue'
    BY DEF IInv, TypeOK, LockQueue
  <2>2. CvQueue'
    BY DEF IInv, TypeOK, CvQueue, Sleepers
  <2> QED BY <2>1, <2>2
<1>5. NoLostWakeup'
  BY DEF IInv, TypeOK, NoLostWakeup
<1> QED BY <1>1, <1>2, <1>3, <1>4, <1>5, StepOf

\* wchan_sleep appends a thread that was awake to the condition variable's
\* wait channel.
LEMMA WaitSleepIInv ==
  ASSUME IInv, NEW t \in Threads, wait_sleep(t)
  PROVE  IInv'
<1> USE DEF wait_sleep, Goto, lockVars
<1>1. TypeOK'
  BY DEF IInv, TypeOK, Labels, LockLabels, ReturnLabels
<1>2. ThreadInv(t)'
  <2>0. ThreadInv(t) /\ TypeOK
    BY DEF IInv
  <2>1. SpinOwner(t)'
    BY <2>0, ThreadsAssumption DEF ThreadInv, TypeOK, SpinOwner, SpinLabels
  <2>2. CvSpinOwner(t)'
    BY <2>0, ThreadsAssumption DEF ThreadInv, TypeOK, CvSpinOwner, InCvSection, CvSpinLabels, ReleaseLabels
  <2>3. HolderIsExact(t)'
    BY <2>0 DEF ThreadInv, TypeOK, HolderIsExact, PassageLabels, InsideLabels, CvInsideLabels, AssertLabels,
                CheckLabels, LinksFit, ReleaseLabels, AcquireLabels
  <2>4. LinksFit(t)'
    BY <2>0 DEF ThreadInv, TypeOK, LinksFit, AcquireLabels, ReleaseLabels, CheckLabels, AssertLabels
  <2>5. Answered(t)'
    BY <2>0 DEF ThreadInv, TypeOK, Answered, AssertLabels, LinksFit, CheckLabels
  <2> QED BY <2>1, <2>2, <2>3, <2>4, <2>5 DEF ThreadInv
<1>3. \A u \in Threads : u # t => Same(u)
  BY ThreadsAssumption DEF IInv, TypeOK, Same, SameButPc, ThreadInv, SpinOwner, SpinLabels, CvSpinOwner, InCvSection, CvSpinLabels, ReleaseLabels, HolderIsExact, PassageLabels
<1>4. LockQueue' /\ CvQueue'
  <2>1. LockQueue'
    BY DEF IInv, TypeOK, LockQueue
  <2>2. Sleepers' = Sleepers \cup {t}
    BY DEF IInv, TypeOK, Sleepers
  <2>3. t \notin Sleepers
    BY DEF IInv, CvQueue
  <2>4. CvQueue'
    <3>1. \A u \in Threads : pc'[u] = "wait_asleep" <=> u \in Sleepers'
      BY <2>2 DEF IInv, TypeOK, CvQueue
    <3>2. \A i, j \in 1 .. Len(cv_wchan') : cv_wchan'[i] = cv_wchan'[j] => i = j
      BY <2>3 DEF IInv, TypeOK, CvQueue, Sleepers
    <3> QED BY <3>1, <3>2 DEF CvQueue
  <2> QED BY <2>1, <2>4
<1>5. NoLostWakeup'
  BY DEF IInv, TypeOK, NoLostWakeup
<1> QED BY <1>1, <1>2, <1>3, <1>4, <1>5, StepOf

\* The head and the tail of a queue.
LEMMA HeadAndTail ==
  ASSUME NEW q \in Seq(Threads), q # <<>>
  PROVE  /\ Head(q) \in Threads /\ Head(q) = q[1] /\ 1 \in 1 .. Len(q)
         /\ Tail(q) \in Seq(Threads)
         /\ \A i \in 1 .. Len(Tail(q)) : i + 1 \in 1 .. Len(q) /\ Tail(q)[i] = q[i + 1]
  OBVIOUS

\* A sleeping thread that is woken keeps its own invariant.
WokenUp(u) ==
  /\ \/ pc[u] = "acq_asleep" /\ pc'[u] = "acq_resume"
     \/ pc[u] = "wait_asleep" /\ pc'[u] = "wait_resume"
  /\ SameButPc(u)

LEMMA WokenThreadInv == ASSUME NEW u \in Threads, ThreadInv(u), WokenUp(u) PROVE ThreadInv(u)'
<1> USE DEF WokenUp, SameButPc
<1>1. SpinOwner(u)' /\ CvSpinOwner(u)'
  BY DEF ThreadInv, SpinOwner, SpinLabels, CvSpinOwner, InCvSection, CvSpinLabels, ReleaseLabels
<1>2. HolderIsExact(u)'
  BY DEF ThreadInv, HolderIsExact, PassageLabels, InsideLabels, CvInsideLabels, AssertLabels, CheckLabels
<1>3. LinksFit(u)'
  BY DEF ThreadInv, LinksFit, AcquireLabels, ReleaseLabels, CheckLabels
<1>4. Answered(u)'
  BY DEF Answered, AssertLabels
<1> QED BY <1>1, <1>2, <1>3, <1>4 DEF ThreadInv

\* A step of t that wakes others preserves IInv if it touches nobody else.
LEMMA WakingStepOf ==
  ASSUME IInv, NEW t \in Threads, TypeOK', ThreadInv(t)',
         \A u \in Threads : u # t => Same(u) \/ WokenUp(u), LockQueue', CvQueue', NoLostWakeup'
  PROVE  IInv'
  BY SameThreadInv, WokenThreadInv DEF IInv

\* The wakeup of lock_release moves the first sleeper, which is not the
\* releasing thread.
LEMMA WakeIInv ==
  ASSUME IInv, NEW t \in Threads, UNCHANGED cvVars, rel_wake(t)
  PROVE  IInv'
<1>1. ThreadInv(t) /\ TypeOK /\ pc[t] = "rel_wake"
  BY DEF IInv, rel_wake
<1>2. /\ pc' \in [Threads -> Labels] /\ pc'[t] = "rel_unlock"
      /\ lk_wchan' \in Seq(Threads)
      /\ UNCHANGED <<lk_lock, lk_holder, lk_spinlock, link, result, inside>>
      /\ \A u \in Threads : u # t => \/ pc'[u] = pc[u]
                                     \/ pc[u] = "acq_asleep" /\ pc'[u] = "acq_resume"
  <2>1. CASE lk_wchan = <<>>
    BY <2>1, <1>1 DEF TypeOK, rel_wake, Goto, Labels, LockLabels
  <2>2. CASE lk_wchan # <<>>
    <3> DEFINE h == Head(lk_wchan)
    <3>1. h \in Threads /\ pc[h] = "acq_asleep"
      BY <2>2, <1>1 DEF IInv, TypeOK, LockQueue
    <3>2. pc' = [pc EXCEPT ![t] = "rel_unlock", ![h] = "acq_resume"] /\ lk_wchan' = Tail(lk_wchan)
      BY <2>2 DEF rel_wake
    <3>3. UNCHANGED <<lk_lock, lk_holder, lk_spinlock, link, result, inside>>
      BY DEF rel_wake
    <3>4. lk_wchan' \in Seq(Threads)
      BY <2>2, <1>1, <3>2 DEF TypeOK
    <3> HIDE DEF h
    <3> QED BY <1>1, <3>1, <3>2, <3>3, <3>4 DEF TypeOK, Labels, LockLabels
  <2> QED BY <2>1, <2>2
<1>3. TypeOK'
  BY <1>1, <1>2 DEF TypeOK, cvVars
<1>4. ThreadInv(t)'
  <2>1. SpinOwner(t)' /\ CvSpinOwner(t)'
    BY <1>1, <1>2 DEF ThreadInv, SpinOwner, SpinLabels, CvSpinOwner, InCvSection, CvSpinLabels,
                      ReleaseLabels, cvVars
  <2>2. HolderIsExact(t)'
    BY <1>1, <1>2 DEF ThreadInv, HolderIsExact, PassageLabels, InsideLabels, CvInsideLabels,
                      AssertLabels, CheckLabels
  <2>3. LinksFit(t)' /\ Answered(t)'
    BY <1>1, <1>2 DEF ThreadInv, LinksFit, AcquireLabels, ReleaseLabels, CheckLabels, Answered,
                      AssertLabels
  <2> QED BY <2>1, <2>2, <2>3 DEF ThreadInv
<1>5. \A u \in Threads : u # t => Same(u) \/ WokenUp(u)
  BY <1>2 DEF Same, WokenUp, SameButPc, cvVars
<1>6. LockQueue'
  <2>1. CASE lk_wchan = <<>>
    BY <2>1, <1>1 DEF IInv, TypeOK, LockQueue, rel_wake, Goto
  <2>2. CASE lk_wchan # <<>>
    <3>1. Head(lk_wchan) \in Threads /\ Head(lk_wchan) = lk_wchan[1]
      BY <2>2, <1>1 DEF TypeOK
    <3>2. \A i \in 1 .. Len(lk_wchan') : i + 1 \in 1 .. Len(lk_wchan) /\ lk_wchan'[i] = lk_wchan[i + 1]
      BY <2>2, <1>1, HeadAndTail DEF TypeOK, rel_wake
    <3>3. \A i \in 1 .. Len(lk_wchan) : pc[lk_wchan[i]] = "acq_asleep" /\ lk_wchan[i] \in Threads
      BY <1>1 DEF IInv, TypeOK, LockQueue
    <3>4. \A i \in 1 .. Len(lk_wchan') : pc'[lk_wchan'[i]] = "acq_asleep"
      <4> TAKE i \in 1 .. Len(lk_wchan')
      <4>1. lk_wchan[i + 1] # Head(lk_wchan)
        BY <2>2, <3>1, <3>2 DEF IInv, LockQueue
      <4> QED BY <2>2, <1>1, <3>1, <3>2, <3>3, <4>1 DEF rel_wake, TypeOK
    <3>5. \A i, j \in 1 .. Len(lk_wchan') : lk_wchan'[i] = lk_wchan'[j] => i = j
      BY <3>2 DEF IInv, LockQueue
    <3> QED BY <3>4, <3>5 DEF LockQueue
  <2> QED BY <2>1, <2>2
<1>7. CvQueue'
  BY <1>1, <1>2 DEF IInv, CvQueue, Sleepers, cvVars
<1>8. NoLostWakeup'
  <2>1. CASE lk_wchan = <<>>
    BY <2>1, <1>2 DEF rel_wake, NoLostWakeup
  <2>2. CASE lk_wchan # <<>>
    BY <2>2, <1>1 DEF TypeOK, rel_wake, NoLostWakeup
  <2> QED BY <2>1, <2>2
<1> QED BY <1>3, <1>4, <1>5, <1>6, <1>7, <1>8, WakingStepOf

\* cv_signal moves the first thread asleep on the condition variable.
LEMMA SignalIInv ==
  ASSUME IInv, NEW t \in Threads, sig_wake(t)
  PROVE  IInv'
<1>1. ThreadInv(t) /\ TypeOK /\ pc[t] = "sig_wake"
  BY DEF IInv, sig_wake
<1>2. UNCHANGED <<lockVars, link, result, inside, cv_spinlock>>
  BY DEF sig_wake
<1>3. /\ pc' \in [Threads -> Labels] /\ pc'[t] = "sig_unlock"
      /\ cv_wchan' \in Seq(Threads)
      /\ \A u \in Threads : u # t => \/ pc'[u] = pc[u] /\ (u \in Sleepers' <=> u \in Sleepers)
                                     \/ /\ pc[u] = "wait_asleep" /\ pc'[u] = "wait_resume"
                                        /\ u \notin Sleepers'
      /\ t \notin Sleepers'
      /\ \A i, j \in 1 .. Len(cv_wchan') : cv_wchan'[i] = cv_wchan'[j] => i = j
  <2>0. t \notin Sleepers
    BY <1>1 DEF IInv, CvQueue
  <2>1. CASE cv_wchan = <<>>
    BY <2>0, <2>1, <1>1 DEF TypeOK, sig_wake, Goto, Labels, Sleepers
  <2>2. CASE cv_wchan # <<>>
    <3> DEFINE h == Head(cv_wchan)
    <3>1. /\ h \in Threads /\ h = cv_wchan[1] /\ 1 \in 1 .. Len(cv_wchan)
          /\ Tail(cv_wchan) \in Seq(Threads)
          /\ \A i \in 1 .. Len(Tail(cv_wchan)) :
               i + 1 \in 1 .. Len(cv_wchan) /\ Tail(cv_wchan)[i] = cv_wchan[i + 1]
      BY <2>2, <1>1, HeadAndTail DEF TypeOK
    <3>2. pc' = [pc EXCEPT ![t] = "sig_unlock", ![h] = "wait_resume"] /\ cv_wchan' = Tail(cv_wchan)
      BY <2>2 DEF sig_wake
    <3>3. pc[h] = "wait_asleep"
      BY <3>1 DEF IInv, CvQueue, Sleepers
    <3>4. Sleepers' = Sleepers \ {h}
      <4>1. \A i \in 1 .. Len(cv_wchan) : i # 1 => i - 1 \in 1 .. Len(Tail(cv_wchan))
        BY <2>2, <1>1 DEF TypeOK
      <4>2. \A i \in 1 .. Len(cv_wchan) : cv_wchan[i] = h => i = 1
        BY <3>1 DEF IInv, CvQueue
      <4>3. Sleepers' \subseteq Sleepers \ {h}
        BY <3>1, <3>2, <4>2 DEF Sleepers
      <4>4. Sleepers \ {h} \subseteq Sleepers'
        <5> SUFFICES ASSUME NEW i \in 1 .. Len(cv_wchan), cv_wchan[i] # h
                     PROVE  cv_wchan[i] \in Sleepers'
          BY DEF Sleepers
        <5>1. i - 1 \in 1 .. Len(Tail(cv_wchan)) /\ (i - 1) + 1 = i
          BY <3>1, <4>1
        <5>2. Tail(cv_wchan)[i - 1] = cv_wchan[i]
          BY <3>1, <5>1
        <5> QED BY <3>2, <5>1, <5>2 DEF Sleepers
      <4> QED BY <4>3, <4>4
    <3>5. \A i, j \in 1 .. Len(cv_wchan') : cv_wchan'[i] = cv_wchan'[j] => i = j
      BY <3>1, <3>2 DEF IInv, CvQueue
    <3> HIDE DEF h
    <3> QED BY <1>1, <2>0, <3>1, <3>2, <3>3, <3>4, <3>5 DEF TypeOK, Labels
  <2> QED BY <2>1, <2>2
<1>4. TypeOK'
  BY <1>1, <1>2, <1>3 DEF TypeOK, lockVars
<1>5. ThreadInv(t)'
  <2>1. SpinOwner(t)' /\ CvSpinOwner(t)'
    BY <1>1, <1>2, <1>3 DEF ThreadInv, SpinOwner, SpinLabels, CvSpinOwner, InCvSection,
                            CvSpinLabels, ReleaseLabels, lockVars
  <2>2. HolderIsExact(t)'
    BY <1>1, <1>2, <1>3 DEF ThreadInv, HolderIsExact, PassageLabels, InsideLabels,
                            CvInsideLabels, AssertLabels, CheckLabels, lockVars
  <2>3. LinksFit(t)' /\ Answered(t)'
    BY <1>1, <1>2, <1>3 DEF LinksFit, AcquireLabels, ReleaseLabels, CheckLabels, Answered,
                            AssertLabels
  <2> QED BY <2>1, <2>2, <2>3 DEF ThreadInv
<1>6. \A u \in Threads : u # t => Same(u) \/ WokenUp(u)
  BY <1>2, <1>3 DEF Same, WokenUp, SameButPc, lockVars
<1>7. CvQueue'
  BY <1>1, <1>3 DEF IInv, CvQueue
<1>8. LockQueue' /\ NoLostWakeup'
  <2>1. LockQueue'
    BY <1>1, <1>2, <1>3 DEF IInv, TypeOK, LockQueue, lockVars
  <2>2. NoLostWakeup'
    BY <1>1, <1>2, <1>3 DEF IInv, NoLostWakeup, lockVars
  <2> QED BY <2>1, <2>2
<1> QED BY <1>4, <1>5, <1>6, <1>7, <1>8, WakingStepOf

\* cv_broadcast moves every thread asleep on the condition variable.
LEMMA BroadcastIInv ==
  ASSUME IInv, NEW t \in Threads, bc_wake(t)
  PROVE  IInv'
<1>1. ThreadInv(t) /\ TypeOK /\ pc[t] = "bc_wake"
  BY DEF IInv, bc_wake
<1>2. UNCHANGED <<lockVars, link, result, inside, cv_spinlock>> /\ cv_wchan' = <<>>
  BY DEF bc_wake
<1>3. /\ pc' \in [Threads -> Labels] /\ pc'[t] = "bc_unlock"
      /\ \A u \in Threads : u # t => \/ pc'[u] = pc[u] /\ pc[u] # "wait_asleep"
                                     \/ pc[u] = "wait_asleep" /\ pc'[u] = "wait_resume"
  BY <1>1 DEF IInv, TypeOK, bc_wake, CvQueue, Labels
<1>4. Sleepers' = {}
  BY <1>2 DEF Sleepers
<1>5. TypeOK'
  BY <1>1, <1>2, <1>3 DEF TypeOK, lockVars
<1>6. ThreadInv(t)'
  <2>1. SpinOwner(t)' /\ CvSpinOwner(t)'
    BY <1>1, <1>2, <1>3 DEF ThreadInv, SpinOwner, SpinLabels, CvSpinOwner, InCvSection,
                            CvSpinLabels, ReleaseLabels, lockVars
  <2>2. HolderIsExact(t)'
    BY <1>1, <1>2, <1>3 DEF ThreadInv, HolderIsExact, PassageLabels, InsideLabels,
                            CvInsideLabels, AssertLabels, CheckLabels, lockVars
  <2>3. LinksFit(t)' /\ Answered(t)'
    BY <1>1, <1>2, <1>3 DEF LinksFit, AcquireLabels, ReleaseLabels, CheckLabels, Answered,
                            AssertLabels
  <2> QED BY <2>1, <2>2, <2>3 DEF ThreadInv
<1>7. \A u \in Threads : u # t => Same(u) \/ WokenUp(u)
  BY <1>2, <1>3 DEF Same, WokenUp, SameButPc, lockVars
<1>8. CvQueue'
  BY <1>2, <1>3, <1>4 DEF CvQueue
<1>9. LockQueue'
  BY <1>1, <1>2, <1>3 DEF IInv, TypeOK, LockQueue, lockVars
<1>10. NoLostWakeup'
  BY <1>1, <1>2, <1>3 DEF IInv, NoLostWakeup, lockVars
<1> QED BY <1>5, <1>6, <1>7, <1>8, <1>9, <1>10, WakingStepOf

\* lock_do_i_hold reads under the spinlock.
LEMMA CheckIInv ==
  ASSUME IInv, NEW t \in Threads, UNCHANGED cvVars, chk_read(t)
  PROVE  IInv'
<1>1. /\ ThreadInv(t) /\ TypeOK /\ pc[t] = "chk_read"
      /\ pc' = [pc EXCEPT ![t] = "chk_unlock"]
      /\ UNCHANGED <<lockVars, link, inside>>
  BY DEF IInv, chk_read, Goto
<1>2. result' \in [Threads -> BOOLEAN] /\ (result'[t] <=> (lk_lock = 1 /\ lk_holder = t))
  BY Zenon DEF IInv, TypeOK, chk_read
<1>3. \A u \in Threads : u # t => result'[u] = result[u]
  BY Zenon DEF IInv, TypeOK, chk_read
<1>4. TypeOK'
  BY <1>1, <1>2 DEF TypeOK, Labels, LockLabels, lockVars, cvVars
<1>5. ThreadInv(t)'
  <2>0. pc'[t] = "chk_unlock"
    BY <1>1 DEF TypeOK
  <2>1. SpinOwner(t)' /\ CvSpinOwner(t)'
    BY <1>1, <2>0 DEF ThreadInv, SpinOwner, SpinLabels, CvSpinOwner, InCvSection, CvSpinLabels,
                      ReleaseLabels, lockVars, cvVars
  <2>2. HolderIsExact(t)'
    BY <1>1, <2>0 DEF ThreadInv, HolderIsExact, PassageLabels, InsideLabels, CvInsideLabels,
                      AssertLabels, CheckLabels, lockVars
  <2>3. LinksFit(t)'
    BY <1>1, <2>0 DEF ThreadInv, LinksFit, AcquireLabels, ReleaseLabels, CheckLabels
  <2>4. (lk_lock = 1 /\ lk_holder = t) <=> t \in inside'
    BY <1>1 DEF ThreadInv, HolderIsExact, PassageLabels
  <2>5. pc'[t] \notin AssertLabels
    BY <2>0 DEF AssertLabels
  <2>6. Answered(t)'
    BY <1>2, <2>4, <2>5, Zenon DEF Answered
  <2> QED BY <2>1, <2>2, <2>3, <2>6 DEF ThreadInv
<1>6. \A u \in Threads : u # t => Same(u)
  <2> TAKE u \in Threads
  <2> HAVE u # t
  <2>1. pc'[u] = pc[u]
    BY <1>1 DEF TypeOK
  <2>2. result'[u] = result[u]
    BY <1>3
  <2> QED BY <1>1, <2>1, <2>2, Zenon DEF Same, SameButPc, lockVars, cvVars
<1>7. LockQueue' /\ CvQueue'
  BY <1>1, QueuesKept DEF Labels, LockLabels, lockVars, cvVars
<1>8. NoLostWakeup'
  BY <1>1 DEF IInv, TypeOK, NoLostWakeup, lockVars
<1> QED BY <1>4, <1>5, <1>6, <1>7, <1>8, StepOf

-----------------------------------------------------------------------------
LEMMA NextIInv == IInv /\ [Next]_vars => IInv'
<1> SUFFICES ASSUME IInv, [Next]_vars PROVE IInv'
  OBVIOUS
<1>1. CASE UNCHANGED vars
  <2>1. \A t \in Threads : Same(t)
    BY <1>1 DEF vars, lockVars, callVars, cvVars, Same, SameButPc
  <2>2. (TypeOK /\ LockQueue /\ CvQueue /\ NoLostWakeup)'
    BY <1>1 DEF vars, lockVars, callVars, cvVars, IInv, TypeOK, LockQueue, CvQueue, Sleepers,
                NoLostWakeup
  <2> QED BY <2>1, <2>2, SameThreadInv DEF IInv
<1>2. ASSUME NEW t \in Threads, Client(t) PROVE IInv'
  <2>1. CASE CallAcquire(t, "client", "client") /\ UNCHANGED cvVars
    BY <2>1, CallAcquireIInv
  <2>2. CASE CallRelease(t, "client", "client") /\ UNCHANGED cvVars
    BY <2>2, CallReleaseIInv
  <2>3. CASE CallDoIHold(t, "client", "client") /\ UNCHANGED cvVars
    BY <2>3, CallDoIHoldIInv DEF AssertLabels
  <2>4. ASSUME NEW entry \in AssertLabels, CallCV(t, entry) PROVE IInv'
    BY <2>4, CallDoIHoldIInv DEF CallCV
  <2> QED BY <1>2, <2>1, <2>2, <2>3, <2>4 DEF Client, AssertLabels
<1>3. ASSUME NEW t \in Threads, LockStep(t), UNCHANGED cvVars PROVE IInv'
  BY <1>3, SpinAcquireIInv, SleepIInv, TakeIInv, AcquiredIInv, ReleaseIInv, WakeIInv, ReleasedIInv,
     CheckIInv, CheckedIInv
  DEF LockStep, lock_acquire, lock_release, lock_do_i_hold
<1>4. ASSUME NEW t \in Threads, cv_wait(t) PROVE IInv'
  BY <1>4, CvSpinIInv, CallReleaseIInv, WaitSleepIInv, CallAcquireIInv, WaitReturnIInv
  DEF cv_wait, wait_release, wait_reacquire
<1>5. ASSUME NEW t \in Threads, cv_signal(t) \/ cv_broadcast(t) PROVE IInv'
  BY <1>5, CvSpinIInv, SignalIInv, BroadcastIInv DEF cv_signal, cv_broadcast
<1> QED BY <1>1, <1>2, <1>3, <1>4, <1>5 DEF Next, Step

\* The inductive invariant holds in every state.
THEOREM IInvHolds == Spec => []IInv
  BY InitIInv, NextIInv, PTL DEF Spec

\* Every variable has its type, whatever the threads do.
THEOREM TypeCorrect == Spec => []TypeOK
<1>1. IInv => TypeOK BY DEF IInv
<1> QED BY <1>1, IInvHolds, PTL

\* lock_acquire, lock_release and cv_wait give mutual exclusion to any set of
\* threads.
THEOREM LockExcludes == Spec => []MutualExclusion
<1>1. IInv => MutualExclusion
  BY DEF IInv, ThreadInv, HolderIsExact, TypeOK, MutualExclusion
<1> QED BY <1>1, IInvHolds, PTL

\* No KASSERT of lock_release, cv_wait, cv_signal or cv_broadcast fires.
THEOREM NothingPanics == Spec => []NoPanic
<1>1. IInv => NoPanic
  BY DEF IInv, ThreadInv, HolderIsExact, PassageLabels, Answered, AssertLabels, NoPanic
<1> QED BY <1>1, IInvHolds, PTL

\* lock_do_i_hold's answer is right, whatever lk_holder was at first.
THEOREM DoIHoldCorrect == Spec => []DoIHoldIsExact
<1>1. IInv => DoIHoldIsExact
  BY DEF IInv, ThreadInv, Answered, DoIHoldIsExact
<1> QED BY <1>1, IInvHolds, PTL

\* No release of the lock loses the wakeup of a sleeping thread.
THEOREM WakeupsNotLost == Spec => []NoLostWakeup
<1>1. IInv => NoLostWakeup BY DEF IInv
<1> QED BY <1>1, IInvHolds, PTL

\* A signal cannot fall between the release of the lock in cv_wait and the
\* sleep that follows it.
THEOREM SignalsNotLost == Spec => []SignalSeesEveryWaiter
<1>1. IInv => SignalSeesEveryWaiter
  <2> SUFFICES ASSUME IInv, NEW t \in Threads, pc[t] \in {"sig_wake", "bc_wake"}
               PROVE  Waiting = Sleepers
    BY DEF SignalSeesEveryWaiter
  <2>1. cv_spinlock = t
    BY DEF IInv, ThreadInv, CvSpinOwner, InCvSection, CvSpinLabels
  <2>2. \A u \in Threads : InCvSection(u) => u = t
    BY <2>1 DEF IInv, ThreadInv, CvSpinOwner
  <2>3. \A u \in Threads : u \in Waiting <=> pc[u] = "wait_asleep"
    BY <2>2 DEF Waiting, InCvSection, CvSpinLabels, ReleaseLabels
  <2>4. Sleepers \subseteq Threads
    BY DEF IInv, TypeOK, Sleepers
  <2>5. Waiting \subseteq Threads
    BY DEF Waiting
  <2> QED BY <2>3, <2>4, <2>5 DEF IInv, CvQueue
<1> QED BY <1>1, IInvHolds, PTL

\* The lock excludes, answers lock_do_i_hold exactly and meets no failing
\* assertion, for any number of threads.
THEOREM LockIsSound == Spec => []LockSound
  BY LockExcludes, NothingPanics, DoIHoldCorrect, PTL DEF LockSound

\* Neither lock_release nor cv_signal or cv_broadcast loses a wakeup.
THEOREM WakeupsAreKept == Spec => []WakeupsKept
  BY WakeupsNotLost, SignalsNotLost, PTL DEF WakeupsKept

-----------------------------------------------------------------------------
(* Refinement: every operation takes effect in one step of Monitor.        *)
LEMMA InitRefines == Init => M!Init
  BY DEF Init, LockInit, lock_create, M!Init, Waiting, Woken

Unseen(u) == (u \in Waiting' <=> u \in Waiting) /\ (u \in Woken' <=> u \in Woken)

\* A step that moves nobody in or out of the two sets keeps them.
LEMMA SetsKept ==
  ASSUME \A u \in Threads : Unseen(u)
  PROVE  Waiting' = Waiting /\ Woken' = Woken
<1>1. Waiting \subseteq Threads /\ Waiting' \subseteq Threads
  BY DEF Waiting
<1>2. Woken \subseteq Threads /\ Woken' \subseteq Threads
  BY DEF Woken
<1> QED BY <1>1, <1>2 DEF Unseen

LEMMA OthersUnseen ==
  ASSUME NEW u \in Threads, pc'[u] = pc[u], link'[u] = link[u]
  PROVE  Unseen(u)
  BY DEF Unseen, Waiting, Woken

\* Nothing but acq_take, rel_clear, sig_wake and bc_wake is seen in Monitor.
LEMMA LockStepStutters ==
  ASSUME IInv, NEW t \in Threads, UNCHANGED cvVars,
         \/ acq_spin(t) \/ acq_sleep(t) \/ acq_resume(t) \/ acq_unlock(t)
         \/ rel_assert(t) \/ rel_spin(t) \/ rel_unlock(t)
         \/ chk_spin(t) \/ chk_read(t) \/ chk_unlock(t)
  PROVE  UNCHANGED M!vars
<1> USE DEF acq_spin, acq_sleep, acq_resume, acq_unlock, rel_assert, rel_spin, rel_unlock, chk_spin,
            chk_read, chk_unlock, SpinAcquire, Goto, lockVars
<1>1. UNCHANGED <<lk_lock, lk_holder>>
  OBVIOUS
<1>2. Unseen(t)
  BY DEF IInv, TypeOK, ThreadInv, LinksFit, AcquireLabels, ReleaseLabels, CheckLabels, AssertLabels,
         Unseen, Waiting, Woken
<1>3. \A u \in Threads : u # t => Unseen(u)
  BY OthersUnseen DEF IInv, TypeOK
<1> QED BY <1>1, <1>2, <1>3, SetsKept DEF M!vars

LEMMA WakeStutters ==
  ASSUME IInv, NEW t \in Threads, rel_wake(t)
  PROVE  UNCHANGED M!vars
<1>1. UNCHANGED <<lk_lock, lk_holder, link>> /\ TypeOK /\ pc[t] = "rel_wake"
  BY DEF rel_wake, IInv
<1>2. /\ pc'[t] = "rel_unlock"
      /\ \A u \in Threads : u # t => \/ pc'[u] = pc[u]
                                     \/ pc[u] = "acq_asleep" /\ pc'[u] = "acq_resume"
  <2>1. CASE lk_wchan = <<>>
    BY <2>1, <1>1 DEF TypeOK, rel_wake, Goto
  <2>2. CASE lk_wchan # <<>>
    <3> DEFINE h == Head(lk_wchan)
    <3>1. h \in Threads /\ pc[h] = "acq_asleep"
      BY <2>2, <1>1, HeadAndTail DEF IInv, TypeOK, LockQueue
    <3>2. pc' = [pc EXCEPT ![t] = "rel_unlock", ![h] = "acq_resume"]
      BY <2>2 DEF rel_wake
    <3> HIDE DEF h
    <3> QED BY <1>1, <3>1, <3>2 DEF TypeOK
  <2> QED BY <2>1, <2>2
<1>3. \A u \in Threads : Unseen(u)
  BY <1>1, <1>2 DEF Unseen, Waiting, Woken
<1> QED BY <1>1, <1>3, SetsKept DEF M!vars

LEMMA CvStepStutters ==
  ASSUME IInv, NEW t \in Threads,
         \/ wait_spin(t) \/ wait_sleep(t) \/ wait_resume(t) \/ wait_unlock(t) \/ wait_return(t)
         \/ sig_spin(t) \/ sig_unlock(t) \/ bc_spin(t) \/ bc_unlock(t)
  PROVE  UNCHANGED M!vars
<1> USE DEF wait_spin, wait_sleep, wait_resume, wait_unlock, wait_return, sig_spin, sig_unlock,
            bc_spin, bc_unlock, AssertHeldAndSpin, SpinAcquireCV, SpinReleaseCV, Goto, lockVars
<1>1. UNCHANGED <<lk_lock, lk_holder>>
  OBVIOUS
<1>2. Unseen(t)
  BY DEF IInv, TypeOK, Unseen, Waiting, Woken
<1>3. \A u \in Threads : u # t => Unseen(u)
  BY OthersUnseen DEF IInv, TypeOK
<1> QED BY <1>1, <1>2, <1>3, SetsKept DEF M!vars

LEMMA CallStutters ==
  ASSUME IInv, NEW t \in Threads,
         \/ CallAcquire(t, "client", "client") \/ CallAcquire(t, "wait_reacquire", "wait_return")
         \/ CallRelease(t, "client", "client") \/ CallRelease(t, "wait_release", "wait_sleep")
         \/ \E return \in {"client"} \cup AssertLabels : CallDoIHold(t, "client", return)
  PROVE  UNCHANGED M!vars
<1> USE DEF CallAcquire, CallRelease, CallDoIHold, Call, Goto, lockVars
<1>1. UNCHANGED <<lk_lock, lk_holder>>
  OBVIOUS
<1>2. Unseen(t)
  BY DEF IInv, TypeOK, Unseen, Waiting, Woken, AssertLabels
<1>3. \A u \in Threads : u # t => Unseen(u)
  BY OthersUnseen DEF IInv, TypeOK
<1> QED BY <1>1, <1>2, <1>3, SetsKept DEF M!vars

\* lock_acquire takes the lock for a client, or for cv_wait.
LEMMA TakeRefines ==
  ASSUME IInv, NEW t \in Threads, acq_take(t)
  PROVE  M!Acquire(t) \/ M!Return(t)
<1>1. /\ TypeOK /\ pc[t] = "acq_loop" /\ pc' = [pc EXCEPT ![t] = "acq_unlock"] /\ UNCHANGED link
      /\ link[t] \in {"client", "wait_return"}
      /\ lk_lock = 0 /\ lk_lock' = 1 /\ lk_holder' = t
  BY DEF IInv, TypeOK, ThreadInv, LinksFit, AcquireLabels, acq_take, Goto
<1>2. \A u \in Threads : u # t => Unseen(u)
  BY <1>1, OthersUnseen DEF TypeOK
<1>3. t \notin Waiting /\ t \notin Waiting' /\ t \notin Woken' /\ (t \in Woken <=> link[t] = "wait_return")
  BY <1>1 DEF TypeOK, Waiting, Woken
<1>4. Waiting' = Waiting
  BY <1>2, <1>3 DEF Unseen, Waiting
<1>5. Woken' = Woken \ {t}
  BY <1>2, <1>3 DEF Unseen, Woken
<1>6. CASE link[t] = "client"
  BY <1>1, <1>3, <1>4, <1>5, <1>6 DEF M!Acquire
<1>7. CASE link[t] = "wait_return"
  BY <1>1, <1>3, <1>4, <1>5, <1>7 DEF M!Return
<1> QED BY <1>1, <1>6, <1>7

\* lock_release gives the lock up for a client, or for cv_wait, whose caller is
\* waiting from here on.
LEMMA ClearRefines ==
  ASSUME IInv, NEW t \in Threads, rel_clear(t)
  PROVE  M!Release(t) \/ M!Wait(t)
<1>1. /\ TypeOK /\ pc[t] = "rel_clear" /\ pc' = [pc EXCEPT ![t] = "rel_wake"] /\ UNCHANGED link
      /\ link[t] \in {"client", "wait_sleep"}
      /\ lk_lock = 1 /\ lk_holder = t /\ lk_lock' = 0
  BY DEF IInv, ThreadInv, LinksFit, ReleaseLabels, HolderIsExact, PassageLabels, rel_clear, Goto
<1>2. \A u \in Threads : u # t => Unseen(u)
  BY <1>1, OthersUnseen DEF TypeOK
<1>3. /\ t \notin Waiting /\ t \notin Woken /\ t \notin Woken'
      /\ t \in Waiting' <=> link[t] = "wait_sleep"
  BY <1>1 DEF TypeOK, Waiting, Woken
<1>4. Woken' = Woken
  BY <1>2, <1>3 DEF Unseen, Woken
<1>5. CASE link[t] = "client"
  <2>1. Waiting' = Waiting
    BY <1>2, <1>3, <1>5 DEF Unseen, Waiting
  <2> QED BY <1>1, <1>4, <2>1 DEF M!Release
<1>6. CASE link[t] = "wait_sleep"
  <2>1. Waiting' = Waiting \cup {t}
    BY <1>2, <1>3, <1>6 DEF Unseen, Waiting
  <2> QED BY <1>1, <1>4, <2>1 DEF M!Wait
<1> QED BY <1>1, <1>5, <1>6

\* cv_signal wakes one waiting thread, or there is none.
LEMMA SignalRefines ==
  ASSUME IInv, NEW t \in Threads, sig_wake(t)
  PROVE  M!Signal(t) \/ UNCHANGED M!vars
<1>1. /\ TypeOK /\ pc[t] = "sig_wake" /\ UNCHANGED <<lk_lock, lk_holder, link>>
      /\ lk_lock = 1 /\ lk_holder = t
  BY DEF IInv, ThreadInv, HolderIsExact, CvInsideLabels, sig_wake, lockVars
<1>2. CASE cv_wchan = <<>>
  <2>1. pc' = [pc EXCEPT ![t] = "sig_unlock"]
    BY <1>2 DEF sig_wake, Goto
  <2>2. \A u \in Threads : Unseen(u)
    BY <1>1, <2>1 DEF TypeOK, Unseen, Waiting, Woken
  <2> QED BY <1>1, <2>2, SetsKept DEF M!vars
<1>3. CASE cv_wchan # <<>>
  <2> DEFINE h == Head(cv_wchan)
  <2>1. h \in Threads /\ pc[h] = "wait_asleep"
    BY <1>1, <1>3, HeadAndTail DEF IInv, TypeOK, CvQueue, Sleepers
  <2>2. pc' = [pc EXCEPT ![t] = "sig_unlock", ![h] = "wait_resume"]
    BY <1>3 DEF sig_wake
  <2> HIDE DEF h
  <2>3. h # t /\ pc'[t] = "sig_unlock" /\ pc'[h] = "wait_resume"
    BY <1>1, <2>1, <2>2 DEF TypeOK
  <2>4. h \in Waiting /\ h \notin Waiting' /\ h \in Woken'
    BY <2>1, <2>3 DEF Waiting, Woken
  <2>5. \A u \in Threads : u # h => Unseen(u)
    <3>1. Unseen(t)
      BY <1>1, <2>3 DEF Unseen, Waiting, Woken
    <3>2. \A u \in Threads : u # h /\ u # t => Unseen(u)
      BY <1>1, <2>2, OthersUnseen DEF TypeOK
    <3> QED BY <3>1, <3>2
  <2>6. Waiting' = Waiting \ {h}
    BY <2>4, <2>5 DEF Unseen, Waiting
  <2>7. Woken' = Woken \cup {h}
    BY <2>1, <2>4, <2>5 DEF Unseen, Woken
  <2> QED BY <1>1, <2>4, <2>6, <2>7 DEF M!Signal
<1> QED BY <1>2, <1>3

\* cv_broadcast wakes all the threads that wait.
LEMMA BroadcastRefines ==
  ASSUME IInv, NEW t \in Threads, bc_wake(t)
  PROVE  M!Broadcast(t)
<1>1. /\ TypeOK /\ pc[t] = "bc_wake" /\ UNCHANGED <<lk_lock, lk_holder, link>>
      /\ lk_lock = 1 /\ lk_holder = t
  BY DEF IInv, ThreadInv, HolderIsExact, CvInsideLabels, bc_wake, lockVars
<1>2. /\ pc'[t] = "bc_unlock"
      /\ \A u \in Threads : u # t => \/ pc'[u] = pc[u] /\ pc[u] # "wait_asleep"
                                     \/ pc[u] = "wait_asleep" /\ pc'[u] = "wait_resume"
  BY <1>1 DEF IInv, TypeOK, bc_wake, CvQueue
<1>3. \A u \in Threads : u \in Waiting => pc[u] = "wait_asleep"
  <2>1. cv_spinlock = t
    BY <1>1 DEF IInv, ThreadInv, CvSpinOwner, InCvSection, CvSpinLabels
  <2>2. \A u \in Threads : InCvSection(u) => u = t
    BY <2>1 DEF IInv, ThreadInv, CvSpinOwner
  <2> QED BY <1>1, <2>2 DEF Waiting, InCvSection, CvSpinLabels, ReleaseLabels
<1>4. \A u \in Threads : u \notin Waiting'
  BY <1>1, <1>2, <1>3 DEF Waiting
<1>5. \A u \in Threads : u \in Woken' <=> u \in Woken \/ u \in Waiting
  BY <1>1, <1>2, <1>3 DEF Waiting, Woken
<1>6. Waiting' = {} /\ Woken' = Woken \cup Waiting
  BY <1>4, <1>5 DEF Waiting, Woken
<1> QED BY <1>1, <1>6 DEF M!Broadcast

LEMMA NextRefines == IInv /\ [Next]_vars => [M!Next]_M!vars
<1> SUFFICES ASSUME IInv, [Next]_vars PROVE [M!Next]_M!vars
  OBVIOUS
<1>1. CASE UNCHANGED vars
  BY <1>1 DEF vars, lockVars, callVars, M!vars, Waiting, Woken
<1>2. ASSUME NEW t \in Threads, Client(t) PROVE UNCHANGED M!vars
  BY <1>2, CallStutters DEF Client, CallCV, AssertLabels
<1>3. ASSUME NEW t \in Threads, LockStep(t), UNCHANGED cvVars PROVE [M!Next]_M!vars
  BY <1>3, LockStepStutters, WakeStutters, TakeRefines, ClearRefines
  DEF LockStep, lock_acquire, lock_release, lock_do_i_hold, M!Next
<1>4. ASSUME NEW t \in Threads, cv_wait(t) PROVE UNCHANGED M!vars
  BY <1>4, CvStepStutters, CallStutters DEF cv_wait, wait_release, wait_reacquire
<1>5. ASSUME NEW t \in Threads, cv_signal(t) \/ cv_broadcast(t) PROVE [M!Next]_M!vars
  BY <1>5, CvStepStutters, SignalRefines, BroadcastRefines DEF cv_signal, cv_broadcast, M!Next
<1> QED BY <1>1, <1>2, <1>3, <1>4, <1>5 DEF Next, Step

\* The lock and the condition variable implement those that synch.h describes:
\* seen from outside, cv_wait gives up the lock and waits in one step.
THEOREM Refinement == Spec => ImplementsMonitor
  BY InitRefines, NextRefines, IInvHolds, InitIInv, PTL DEF Spec, ImplementsMonitor, M!Spec
=============================================================================

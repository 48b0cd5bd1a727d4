--------------------------- MODULE MCKernelTests ---------------------------
(***************************************************************************)
(* The kernel's concurrent self-tests on small instances: kt_part says     *)
(* which of them the behaviour runs.  Semaphore, on which they build, is   *)
(* one of the parts.                                                       *)
(***************************************************************************)
EXTENDS Semaphore, AirBalloon, KernelTests

VARIABLE kt_part
kt_vars == <<kt_part, vars, air_vars, st, ft>>

SemPart(A) == kt_part = "sem" /\ A /\ UNCHANGED <<kt_part, air_vars, st, ft>>
AirPart(A) == kt_part = "air" /\ A /\ UNCHANGED <<kt_part, vars, st, ft>>
SynchPart(A) == kt_part = "synch" /\ A /\ UNCHANGED <<kt_part, vars, air_vars, ft>>
FsPart(A) == kt_part = "fs" /\ A /\ UNCHANGED <<kt_part, vars, air_vars, st>>

KtInit ==
    /\ kt_part \in {"sem", "air", "synch", "fs"}
    /\ Init /\ AirInit /\ TestInit /\ FsTestInit

KtNext ==
    \/ SemPart(Next) \/ AirPart(AirNext) \/ SynchPart(TestNext) \/ FsPart(FsTestNext)

(* The fairness of the parts (Fairness, AirFair, TestFairSpec, FsTestSpec). *)
(* A behaviour stays in its part, so one strong fairness condition can     *)
(* speak of one action of each.                                            *)
AirStrong(i) ==
    CASE i = 0 -> lock_rope("dandelion", rope1, "lock", "test")
      [] i = 1 -> lock_rope("marigold", rope1, "lock", "test")
      [] i = 2 -> \E t \in Cutters : pick(t, 0)
      [] i = 3 -> \E t \in Cutters : pick(t, 1)
AirWeak(i) ==
    CASE i = 0 -> dandelion [] i = 1 -> marigold
      [] i = 2 -> flowerkiller("k1") [] i = 3 -> flowerkiller("k2")
FsWeak(i) == i \in FsWorkers /\ FsThread(i)
SynchStrong(i) ==
    CASE i \in TestThreads -> StThread(i)
      [] i = 3 -> StMain
      [] i \in {4, 5} -> st.test = "threadtest3" /\ wakeall(0, i - 4)
KtFair ==
    /\ \A i \in 0 .. 3 : SF_kt_vars(SemPart(Step(i)) \/ AirPart(AirStrong(i)) \/ SynchPart(SynchStrong(i)))
    /\ \A i \in 4 .. 5 : SF_kt_vars(SynchPart(SynchStrong(i)))
    /\ WF_kt_vars(AirPart(balloon) \/ FsPart(FsMain)) /\ WF_kt_vars(AirPart(airballoon))
    /\ \A i \in 0 .. 3 : WF_kt_vars(AirPart(AirWeak(i)) \/ FsPart(FsWeak(i)))

KtSpec == KtInit /\ [][KtNext]_kt_vars /\ KtFair

----------------------------------------------------------------------------
(* The test of this behaviour has been called and has not come back. *)
Called ==
    \/ kt_part = "air" /\ air_pc["main"] # "menu"
    \/ kt_part = "synch" /\ ~StAt(MAIN, "menu")
    \/ kt_part = "fs" /\ ~FsAt(FsMAIN, "menu")

(* No concurrent self-test of the kernel reports a failure, and each       *)
(* leaves its semaphores, locks and files as it found them.                *)
KernelTestsPass == TestsPass /\ FsTestsPass

(* No thread stays inside P while the count stays positive; every test     *)
(* comes back to the menu, airballoon with its killers and each file       *)
(* system test whatever fails included ("If this hangs, it's broken"); and *)
(* cvtest's "Threads should print out in reverse order" holds on the way.  *)
KernelTestsReturn ==
    /\ PReturns /\ PrintedInReverse
    /\ Called ~> ~Called
=============================================================================

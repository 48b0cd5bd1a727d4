----------------------------- MODULE MCSpinlock -----------------------------
(***************************************************************************)
(* Interrupts: the spinlocks and the interrupt level under them, and the   *)
(* traps.  The two share no state, so a behaviour runs one of them, the    *)
(* part, while the other has none.                                         *)
(***************************************************************************)
EXTENDS Spinlock, Traps

CONSTANTS boot1, boot2

\* Each CPU starts on a thread of its own; the other threads are new.
TwoBoot == <<boot1, boot2>>

VARIABLE part

mcVars == <<vars, trapVars, part>>

NoTraps ==
  /\ cpu_thread = <<>> /\ sp = <<>> /\ s7 = <<>> /\ ie = <<>>
  /\ cpustacks = <<>> /\ cputhreads = <<>> /\ th = <<>> /\ panicked = "no"

MCInit ==
  \/ part = "spinlocks" /\ Init /\ NoTraps
  \/ part = "traps" /\ Init /\ TrapInit
MCNext ==
  \/ part = "spinlocks" /\ Next /\ UNCHANGED <<trapVars, part>>
  \/ part = "traps" /\ TrapNext /\ UNCHANGED <<vars, part>>
MCSpec == MCInit /\ [][MCNext]_mcVars

(* TrapsSound of the behaviours that run the traps: entering and leaving   *)
(* the kernel (mips_trap, common_exception) keeps the processor's stack,   *)
(* the interrupt level and the fault recovery of its thread.               *)
TrapsHold == part = "traps" => TrapsSound
=============================================================================

-------------------------------- MODULE Ipi --------------------------------
(***************************************************************************)
(* Interprocessor interrupts: ipi_send and interprocessor_interrupt of     *)
(* kern/thread/thread.c, and the dispatcher mainbus_interrupt of           *)
(* kern/arch/sys161/dev/lamebus_machdep.c that clears the line afterwards. *)
(*                                                                         *)
(* c_ipi_pending and the line of a CPU are written under its c_ipi_lock    *)
(* by ipi_send; the handler reads and clears c_ipi_pending under the lock, *)
(* and clears the line after it has released it.                           *)
(***************************************************************************)
EXTENDS Naturals, FiniteSets

CONSTANTS IpiCPUs, MaxUnidles   \* bound: wakeups of idle CPUs

VARIABLES c_ipi_pending, ipi_line, ipi_pc, ipi_told, ipi_unidles

ipiVars == <<c_ipi_pending, ipi_line, ipi_pc, ipi_told, ipi_unidles>>

IpiInit ==
  /\ c_ipi_pending = [c \in IpiCPUs |-> {}]
  /\ ipi_line = [c \in IpiCPUs |-> FALSE]
  /\ ipi_pc = [c \in IpiCPUs |-> "run"]     \* run, clear, shutdown or halt
  /\ ipi_told = [c \in IpiCPUs |-> {}]      \* CPUs that c, shutting down, has sent IPI_OFFLINE to
  /\ ipi_unidles = 0

ipi_send(target, code) ==
  /\ c_ipi_pending' = [c_ipi_pending EXCEPT ![target] = @ \cup {code}]
  /\ ipi_line' = [ipi_line EXCEPT ![target] = TRUE]

\* thread_make_runnable on another CPU finds the target idle.
unidle(c) ==
  /\ ipi_pc[c] = "run" /\ ipi_unidles < MaxUnidles
  /\ \E target \in IpiCPUs \ {c} : ipi_send(target, "IPI_UNIDLE")
  /\ ipi_unidles' = ipi_unidles + 1
  /\ UNCHANGED <<ipi_pc, ipi_told>>

\* thread_shutdown, by one CPU: ipi_broadcast(IPI_OFFLINE)
thread_shutdown(c) ==
  /\ \/ ipi_pc[c] = "run" /\ \A d \in IpiCPUs : ipi_pc[d] # "shutdown"
     \/ ipi_pc[c] = "shutdown"
  /\ \E target \in IpiCPUs \ ({c} \cup ipi_told[c]) :
       /\ ipi_send(target, "IPI_OFFLINE")
       /\ ipi_told' = [ipi_told EXCEPT ![c] = @ \cup {target}]
  /\ ipi_pc' = [ipi_pc EXCEPT ![c] = "shutdown"]
  /\ UNCHANGED ipi_unidles

\* mainbus_interrupt: the line is up and interrupts are on.  A CPU told to go
\* offline halts; otherwise the pending bits are cleared and the lock released.
interprocessor_interrupt(c) ==
  /\ ipi_pc[c] = "run" /\ ipi_line[c]
  /\ IF "IPI_OFFLINE" \in c_ipi_pending[c]
     THEN ipi_pc' = [ipi_pc EXCEPT ![c] = "halt"] /\ UNCHANGED c_ipi_pending
     ELSE /\ c_ipi_pending' = [c_ipi_pending EXCEPT ![c] = {}]
          /\ ipi_pc' = [ipi_pc EXCEPT ![c] = "clear"]
  /\ UNCHANGED <<ipi_line, ipi_told, ipi_unidles>>

lamebus_clear_ipi(c) ==
  /\ ipi_pc[c] = "clear"
  /\ ipi_line' = [ipi_line EXCEPT ![c] = FALSE]
  /\ ipi_pc' = [ipi_pc EXCEPT ![c] = "run"]
  /\ UNCHANGED <<c_ipi_pending, ipi_told, ipi_unidles>>

IpiStep(c) == interprocessor_interrupt(c) \/ lamebus_clear_ipi(c)

IpiNext == \E c \in IpiCPUs : unidle(c) \/ thread_shutdown(c) \/ IpiStep(c)

\* A CPU that can run its handler does, and one that has begun to shut the
\* others down tells them all.
IpiSpec ==
  /\ IpiInit /\ [][IpiNext]_ipiVars
  /\ \A c \in IpiCPUs : WF_ipiVars(IpiStep(c)) /\ WF_ipiVars(ipi_pc[c] = "shutdown" /\ thread_shutdown(c))

-----------------------------------------------------------------------------
\* thread_shutdown says "Stop the other CPUs.": a CPU that was sent IPI_OFFLINE
\* halts.
OfflineStops ==
  \A c, d \in IpiCPUs : d \in ipi_told[c] ~> ipi_pc[d] = "halt"
=============================================================================

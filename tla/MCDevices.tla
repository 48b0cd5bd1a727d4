----------------------------- MODULE MCDevices -----------------------------
(***************************************************************************)
(* The device drivers, side by side.  They share no state, so a behaviour  *)
(* runs one of them, the scene, and the others keep their first state.     *)
(***************************************************************************)
EXTENDS Lhd, Emu, Console, Lamebus

VARIABLE scene

mcVars == <<lhdVars, emuVars, conVars, lbVars, clkVars, scene>>

Request_(rw, offset, resid, val) == [rw |-> rw, offset |-> offset, resid |-> resid, val |-> val]
MCRequests ==
  LET rd == "UIO_READ"
      wr == "UIO_WRITE"
  IN {Request_(rd, 0, 4, 0), Request_(rd, 2, 2, 0), Request_(wr, 0, 2, 1), Request_(wr, 0, 4, 2),
      Request_(wr, 2, 4, 1), Request_(rd, 6, 2, 0), Request_(wr, 8, 2, 2), Request_(rd, 3, 2, 0),
      Request_(rd, 0, 1, 0)}

MCEmuFiles == [f |-> FALSE, d |-> TRUE]

MCJobs == {[t1 |-> "user", t2 |-> "kprintf", t3 |-> "polled"],
           [t1 |-> "user", t2 |-> "user", t3 |-> "polled"],
           [t1 |-> "boot", t2 |-> "kprintf", t3 |-> "polled"],
           [t1 |-> "read", t2 |-> "read", t3 |-> "idle"],
           [t1 |-> "kgets", t2 |-> "idle", t3 |-> "idle"]}
MCText == [t1 |-> <<"a", NL>>, t2 |-> <<"x", "y">>, t3 |-> <<"p", "q">>]
MCKeys == [read |-> {"a", "b", CR}, kgets |-> {"a", " ", BS, NL, "^C", "^U", "^W", "^R"}]
MCTyped == [read |-> 4, kgets |-> 3]

\* A serial port, a disk of a revision that is not supported, a timer and a
\* second serial port
MCCards ==
  LET a(d) == [dev |-> d, ver |-> 1] IN
  [s \in 0 .. 3 |-> <<a("lser"), a("lhd"), a("ltimer"), a("lser")>>[s + 1]]

Init ==
  /\ LhdInit /\ EmuInit /\ ConInit /\ LbInit /\ ClkInit
  /\ scene \in {"lhd", "emu", "console", "bus", "clock"}
  /\ scene = "lhd" \/ lh_disk[0] = 0
  /\ scene = "console" \/ con_jobs = CHOOSE j \in MCJobs : TRUE
  /\ scene = "clock" \/ now = 0

InLhd(A) == scene = "lhd" /\ A /\ UNCHANGED <<emuVars, conVars, lbVars, clkVars, scene>>
InEmu(A) == scene = "emu" /\ A /\ UNCHANGED <<lhdVars, conVars, lbVars, clkVars, scene>>
InConsole(A) == scene = "console" /\ A /\ UNCHANGED <<lhdVars, emuVars, lbVars, clkVars, scene>>
InBus(A) == scene = "bus" /\ A /\ UNCHANGED <<lhdVars, emuVars, conVars, clkVars, scene>>
InClock(A) == scene = "clock" /\ A /\ UNCHANGED <<lhdVars, emuVars, conVars, lbVars, scene>>

Next == InLhd(LhdNext) \/ InEmu(EmuNext) \/ InConsole(ConNext) \/ InBus(LbNext) \/ InClock(ClkNext)

\* The hardware answers, interrupts are taken, and a thread that can run does.
Fairness ==
  /\ WF_mcVars(InLhd(Card)) /\ WF_mcVars(InLhd(lhd_irq))
  /\ \A t \in LhdThreads : WF_mcVars(InLhd(LhdStep(t)))
  /\ WF_mcVars(InConsole(ConHardware))
  /\ \A t \in ConThreads : WF_mcVars(InConsole(ConStep(t)))
  /\ WF_mcVars(InBus(Boot)) /\ WF_mcVars(InBus(Irq))

Spec == Init /\ [][Next]_mcVars /\ Fairness

\* The console: output is exact, input is in order, and what kgets echoes is
\* what it returns (putch, lser_irq, getch, kgets).
ConsoleExact == OutputExact /\ WritePermitExact /\ InputFifo /\ EchoIsLine

\* The emulator file system owns every open handle once and never makes the card
\* report an error of the driver (emufs_loadvnode, emufs_reclaim, emu_close).
EmuExact == HandlesOwned /\ EmuNeverPanics

\* The clock: a time read is current and no sleep is cut short (ltimer_gettime,
\* clocksleep).
ClockExact == TimeIsCurrent /\ SleepsLongEnough

\* The drivers that are not the disk do exactly what their users rely on.
DriversExact == ConsoleExact /\ EmuExact /\ ClockExact /\ SlotsConsistent

\* Every disk request returns, every writer's text leaves the port, and the boot
\* ends, or panics, under a card that interrupts for ever (lhd_irq, con_start,
\* lamebus_interrupt).
DevicesProgress ==
  /\ scene = "lhd" => IoReturns
  /\ scene = "console" => WritersFinish
  /\ scene = "bus" => BootEnds
=============================================================================

------------------------------- MODULE Traps -------------------------------
(***************************************************************************)
(* Entering and leaving the kernel: common_exception and asm_usermode of   *)
(* kern/arch/mips/locore/exception-mips1.S, mips_trap, mips_usermode and   *)
(* kill_curthread of trap.c, syscall of syscall.c, the fault recovery of   *)
(* kern/vm/copyinout.c, and the switch of stacks in thread_switch.         *)
(*                                                                         *)
(* A thread's kernel stack is the sequence of its trap frames.  A          *)
(* processor finds its kernel stack and its thread in the arrays cpustacks *)
(* and cputhreads, which every return from a trap refreshes: between two   *)
(* traps of a thread, it may have moved to another processor.              *)
(*                                                                         *)
(* The thread boot is the one that started the machine: it has no t_stack  *)
(* and never runs in user mode.  The run queue and its lock are those of   *)
(* Sched: here a processor in thread_switch takes any ready thread that no *)
(* other processor still runs on.                                          *)
(***************************************************************************)
EXTENDS Integers, Sequences, SequencesExt, Functions

CONSTANTS TrapCPUs, TrapThreads,  \* the processors and the threads
          boot,                   \* the thread that started the machine
          NOBODY

ASSUME TrapsAssumption ==
  /\ boot \in TrapThreads /\ NOBODY \notin TrapThreads

VARIABLES
  cpu_thread, sp, s7,      \* per processor: c_curthread, whose stack sp is in, curthread
  ie,                      \* per processor: interrupts enabled (CST_IEc)
  cpustacks, cputhreads,   \* the arrays of cpu.c
  th,                      \* the threads
  panicked                 \* what stopped the machine

cpuVars == <<cpu_thread, sp, s7, ie, cpustacks, cputhreads>>
trapVars == <<cpuVars, th, panicked>>

SPL_HIGH == 1
\* EX_MOD, EX_TLBL and EX_TLBS are TLB, EX_IBE and EX_DBE are BUS.
TrapCodes == {"IRQ", "SYS", "TLB", "BUS", "other"}

\* thread_create with thread_machdep_init and switchframe_init.
NewThread ==
  [at |-> "switch", state |-> "ready", cont |-> "startup", saved |-> 0, curspl |-> SPL_HIGH,
   iplhigh |-> 1, in_interrupt |-> FALSE, badfault |-> FALSE, frames |-> <<>>]

\* cpu_machdep_init, cpu_hatch: the boot thread runs the menu; the thread
\* that started the other processors has exited.
TrapInit ==
  LET bootcpu == CHOOSE c \in TrapCPUs : TRUE
      hatched == CHOOSE f \in Injection(TrapCPUs, TrapThreads) : f[bootcpu] = boot
      stack(c) == IF c = bootcpu THEN NOBODY ELSE hatched[c]
  IN /\ cpu_thread = hatched
     /\ sp = cpu_thread /\ s7 = cpu_thread
     /\ ie = [c \in TrapCPUs |-> c = bootcpu]
     /\ cpustacks = [c \in TrapCPUs |-> stack(c)] /\ cputhreads = cpustacks
     /\ th = [t \in TrapThreads |->
          IF t = boot
          THEN [NewThread EXCEPT !.at = "sys", !.state = "run", !.curspl = 0, !.iplhigh = 0]
          ELSE [NewThread EXCEPT !.state = "zombie", !.cont = "none"]]
     /\ panicked = "no"

-----------------------------------------------------------------------------
Self(c) == s7[c]
InPlace(c, place) == panicked = "no" /\ th[Self(c)].at = place
SetThread(c, r) == th' = [th EXCEPT ![Self(c)] = r]
GoTo(c, place) == SetThread(c, [th[Self(c)] EXCEPT !.at = place])
set_ie(c, b) == ie' = [ie EXCEPT ![c] = b]
Panic(why) == panicked' = why /\ UNCHANGED <<cpuVars, th>>
Running == UNCHANGED panicked
StacksKept == UNCHANGED <<cpu_thread, sp, s7, cpustacks, cputhreads>>

\* The frame of the trap in progress on a processor.
TopFrame(c) == Last(th[sp[c]].frames)

\* splx(0) and splhigh() on a thread's record: the count, then the level.
spl0(r) == IF r.curspl = 0 THEN r ELSE [r EXCEPT !.curspl = 0, !.iplhigh = @ - 1]
splhigh(r) == IF r.curspl = SPL_HIGH THEN r ELSE [r EXCEPT !.curspl = SPL_HIGH, !.iplhigh = @ + 1]
\* spllower and splraise leave interrupts on exactly when the count is zero.
OnIf(r) == r.iplhigh = 0

\* An exception or an interrupt: from user mode the stack and the thread
\* come from the arrays, from the kernel they are the ones in use.
common_exception(c, code) ==
  LET user == th[Self(c)].at = "user"
      stack == IF user THEN cpustacks[c] ELSE sp[c]
      self == IF user THEN cputhreads[c] ELSE Self(c)
      frame == [user |-> user, at |-> th[Self(c)].at, ie |-> ie[c], code |-> code,
                doadjust |-> FALSE, old_in |-> FALSE]
  IN /\ sp' = [sp EXCEPT ![c] = stack]
     /\ s7' = [s7 EXCEPT ![c] = self]
     /\ th' = [th EXCEPT ![stack].frames = Append(@, frame), ![stack].at = "trap"]
     /\ set_ie(c, FALSE)
     /\ Running /\ UNCHANGED <<cpu_thread, cpustacks, cputhreads>>

\* What a program does: a system call, a page to load, a fatal error; or the
\* memory system fails it.
UserTraps(c) == \E code \in TrapCodes \ {"IRQ"} : InPlace(c, "user") /\ common_exception(c, code)

\* In the kernel, user memory is touched under copyin and copyout, and by
\* sys_execv directly, in a system call.
KernelFaults(c) ==
  /\ InPlace(c, "copy") \/ (InPlace(c, "sys") /\ Self(c) # boot)
  /\ \E code \in {"TLB", "BUS"} : common_exception(c, code)

Interrupted(c) == panicked = "no" /\ ie[c] /\ common_exception(c, "IRQ")

\* cpu_idle: a processor with nothing to run turns interrupts on and off.
cpu_idle(c) ==
  /\ InPlace(c, "switch") /\ th[Self(c)].state \in {"sleep", "zombie"}
  /\ common_exception(c, "IRQ")

-----------------------------------------------------------------------------
OnOwnStack(c) == Self(c) = boot \/ sp[c] = Self(c)

trap_irq(c) ==
  /\ InPlace(c, "trap") /\ TopFrame(c).code = "IRQ"
  /\ LET r == th[Self(c)]
         doadjust == r.curspl = 0
         n == Len(r.frames)
     IN IF ~OnOwnStack(c) \/ (doadjust /\ r.iplhigh # 0) THEN Panic("KASSERT")
        ELSE /\ SetThread(c, [r EXCEPT !.at = "irq",
                                       !.frames[n].old_in = r.in_interrupt,
                                       !.frames[n].doadjust = doadjust,
                                       !.in_interrupt = TRUE,
                                       !.curspl = SPL_HIGH,
                                       !.iplhigh = IF doadjust THEN @ + 1 ELSE @])
             /\ Running /\ StacksKept /\ UNCHANGED ie

\* mainbus_interrupt makes a sleeper runnable.
irq_wakes(c, u) ==
  /\ InPlace(c, "irq") /\ th[u].state = "sleep"
  /\ th' = [th EXCEPT ![u].state = "ready"]
  /\ Running /\ UNCHANGED cpuVars

\* thread_switch: where the thread goes on, and the level it goes back to.
switch_away(c, newstate, cont) ==
  /\ SetThread(c, [splhigh(th[Self(c)]) EXCEPT !.at = "switch", !.state = newstate,
                                              !.cont = cont, !.saved = th[Self(c)].curspl])
  /\ set_ie(c, FALSE)
  /\ Running /\ StacksKept

\* Nobody returns to the frames of a zombie.
exit_thread(c) ==
  /\ SetThread(c, [splhigh(th[Self(c)]) EXCEPT !.at = "switch", !.state = "zombie", !.cont = "none",
                                              !.frames = <<>>])
  /\ set_ie(c, FALSE)
  /\ Running /\ StacksKept

\* The timer's thread_yield: nothing happens on an idle processor.
irq_yields(c) ==
  /\ InPlace(c, "irq") /\ TopFrame(c).at # "switch"
  /\ \E u \in TrapThreads : th[u].state = "ready"
  /\ switch_away(c, "ready", "irq_end")

\* Fault: an interrupt, which does not pass through done, leaves the arrays alone.
done2_not_irq(c, r) ==
  /\ IF Self(c) # boot /\ TopFrame(c).code # "IRQ"
     THEN /\ cputhreads' = [cputhreads EXCEPT ![c] = Self(c)]
          /\ cpustacks' = [cpustacks EXCEPT ![c] = Self(c)]
     ELSE UNCHANGED <<cputhreads, cpustacks>>
  /\ SetThread(c, [r EXCEPT !.at = "return"])
  /\ set_ie(c, FALSE)
  /\ Running /\ UNCHANGED <<cpu_thread, sp, s7>>

\* The end of mips_trap, with interrupts off on the processor.
done2(c, r) ==
  IF ~OnOwnStack(c) THEN Panic("KASSERT")
  ELSE /\ IF Self(c) # boot
          THEN /\ cputhreads' = [cputhreads EXCEPT ![c] = Self(c)]
               /\ cpustacks' = [cpustacks EXCEPT ![c] = Self(c)]
          ELSE UNCHANGED <<cputhreads, cpustacks>>
       /\ SetThread(c, [r EXCEPT !.at = "return"])
       /\ set_ie(c, FALSE)
       /\ Running /\ UNCHANGED <<cpu_thread, sp, s7>>

\* mainbus_interrupt is over.
irq_end(c) ==
  /\ InPlace(c, "irq") \/ InPlace(c, "irq_end")
  /\ LET r == th[Self(c)]
     IN IF TopFrame(c).doadjust /\ (r.curspl # SPL_HIGH \/ r.iplhigh # 1) THEN Panic("KASSERT")
        ELSE done2(c, [r EXCEPT !.curspl = IF TopFrame(c).doadjust THEN 0 ELSE @,
                                !.iplhigh = IF TopFrame(c).doadjust THEN @ - 1 ELSE @,
                                !.in_interrupt = TopFrame(c).old_in])

\* The other traps: splhigh() and splx() bring the processor in line with
\* the recorded level; syscall() asserts that it is low.
trap_enter(c) ==
  /\ InPlace(c, "trap") /\ TopFrame(c).code # "IRQ"
  /\ LET r == th[Self(c)]
     IN IF ~OnOwnStack(c) \/ (TopFrame(c).code = "SYS" /\ ~(r.curspl = 0 /\ r.iplhigh = 0))
        THEN Panic("KASSERT")
        ELSE /\ GoTo(c, IF TopFrame(c).code = "SYS" THEN "sys" ELSE "fault")
             /\ set_ie(c, r.curspl = 0 /\ OnIf(r))
             /\ Running /\ StacksKept

\* vm_fault loaded the page: the access is tried again.
fault_served(c) ==
  /\ InPlace(c, "fault") /\ TopFrame(c).code = "TLB"
  /\ done2(c, th[Self(c)])

\* A bus error is the kernel's, whoever met it.
bus_error(c) == InPlace(c, "fault") /\ TopFrame(c).code = "BUS" /\ Panic("bus error")

\* A fault of the program kills it: sys__exit and thread_exit.
kill_curthread(c) ==
  /\ InPlace(c, "fault") /\ TopFrame(c).code # "BUS" /\ TopFrame(c).user
  /\ exit_thread(c)

\* A fault of the kernel goes on in copyfail when a copy is in progress.
fault_in_kernel(c) ==
  /\ InPlace(c, "fault") /\ TopFrame(c).code # "BUS" /\ ~TopFrame(c).user
  /\ IF th[Self(c)].badfault
     THEN done2(c, [th[Self(c)] EXCEPT !.frames[Len(th[Self(c)].frames)].at = "copyfail"])
     ELSE Panic("fatal fault in kernel mode")

\* Restores the status register and the place that was interrupted.
exception_return(c) ==
  /\ InPlace(c, "return")
  /\ SetThread(c, [th[Self(c)] EXCEPT !.at = TopFrame(c).at, !.frames = Front(@)])
  /\ set_ie(c, TopFrame(c).ie)
  /\ Running /\ StacksKept

-----------------------------------------------------------------------------
(* Inside a system call, and in the menu. *)
copy_starts(c) ==
  /\ InPlace(c, "sys") /\ Self(c) # boot
  /\ SetThread(c, [th[Self(c)] EXCEPT !.at = "copy", !.badfault = TRUE])
  /\ Running /\ UNCHANGED cpuVars

\* The copy is complete, or copyfail's longjmp returned to it.
copy_ends(c) ==
  /\ InPlace(c, "copy") \/ InPlace(c, "copyfail")
  /\ SetThread(c, [th[Self(c)] EXCEPT !.at = "sys", !.badfault = FALSE])
  /\ Running /\ UNCHANGED cpuVars

sys_sleeps(c) == InPlace(c, "sys") /\ switch_away(c, "sleep", "sys")

sys_exits(c) == InPlace(c, "sys") /\ Self(c) # boot /\ exit_thread(c)

\* thread_fork, after exorcise() freed the zombie u whose stack nobody uses.
sys_forks(c, u) ==
  /\ InPlace(c, "sys")
  /\ th[u].state = "zombie" /\ \A d \in TrapCPUs : sp[d] # u
  /\ IF th[u].badfault THEN Panic("KASSERT")
     ELSE th' = [th EXCEPT ![u] = NewThread] /\ Running /\ UNCHANGED cpuVars

\* The end of syscall().
sys_returns(c) ==
  /\ InPlace(c, "sys") /\ Self(c) # boot
  /\ IF th[Self(c)].curspl # 0 \/ th[Self(c)].iplhigh # 0 THEN Panic("KASSERT")
     ELSE done2(c, th[Self(c)])

\* enter_usermode after fork, enter_new_process after execv and runprogram:
\* the way out of a trap, from a frame made for it.
mips_usermode(c) ==
  /\ InPlace(c, "startup") \/ (InPlace(c, "sys") /\ Self(c) # boot)
  /\ SetThread(c, [spl0(th[Self(c)]) EXCEPT !.at = "return",
       !.frames = <<[user |-> TRUE, at |-> "user", ie |-> TRUE, code |-> "SYS",
                     doadjust |-> FALSE, old_in |-> FALSE]>>])
  /\ cputhreads' = [cputhreads EXCEPT ![c] = Self(c)]
  /\ cpustacks' = [cpustacks EXCEPT ![c] = Self(c)]
  /\ set_ie(c, FALSE)
  /\ Running /\ UNCHANGED <<cpu_thread, sp, s7>>

\* The end of thread_switch: curthread, then the stack, then splx; a new
\* thread goes to thread_startup, which calls spl0.
switchframe_switch(c, u) ==
  /\ InPlace(c, "switch") /\ ~ie[c]
  /\ th[u].state = "ready" /\ \A d \in TrapCPUs \ {c} : sp[d] # u
  /\ cpu_thread' = [cpu_thread EXCEPT ![c] = u]
  /\ s7' = [s7 EXCEPT ![c] = u]
  /\ sp' = [sp EXCEPT ![c] = u]
  /\ LET r == IF th[u].saved = 0 THEN spl0(th[u]) ELSE th[u]
     IN /\ th' = [th EXCEPT ![u] = [r EXCEPT !.at = r.cont, !.state = "run",
                                              !.saved = 0, !.cont = "none"]]
        /\ set_ie(c, th[u].saved = 0 /\ OnIf(r))
  /\ Running /\ UNCHANGED <<cpustacks, cputhreads>>

TrapStep(c) ==
  \/ UserTraps(c) \/ KernelFaults(c) \/ Interrupted(c) \/ cpu_idle(c)
  \/ trap_irq(c) \/ irq_yields(c) \/ irq_end(c)
  \/ trap_enter(c) \/ fault_served(c) \/ bus_error(c) \/ kill_curthread(c) \/ fault_in_kernel(c)
  \/ exception_return(c)
  \/ copy_starts(c) \/ copy_ends(c) \/ sys_sleeps(c) \/ sys_exits(c) \/ sys_returns(c)
  \/ mips_usermode(c)
  \/ \E u \in TrapThreads : irq_wakes(c, u) \/ sys_forks(c, u) \/ switchframe_switch(c, u)

\* The machine has stopped.
cpu_halt == panicked # "no" /\ UNCHANGED trapVars

TrapNext == cpu_halt \/ \E c \in TrapCPUs : TrapStep(c)
TrapSpec == TrapInit /\ [][TrapNext]_trapVars

-----------------------------------------------------------------------------
\* The frames of a thread that interrupts put there.
IrqFrames(t) == {i \in DOMAIN th[t].frames : th[t].frames[i].code = "IRQ"}

(* In the kernel a processor works on the stack of its thread and for its  *)
(* thread, and the assertions of mips_trap, syscall and                    *)
(* thread_machdep_cleanup hold: cpustacks and cputhreads are never stale   *)
(* when a program traps, wherever its thread was moved.                    *)
StacksSound ==
  /\ panicked # "KASSERT"
  /\ \A c \in TrapCPUs : sp[c] = cpu_thread[c] /\ s7[c] = cpu_thread[c]

(* A program runs with interrupts on at level zero, on an empty kernel     *)
(* stack and with no recovery left behind by a copy.                       *)
UserModeClean == \A c \in TrapCPUs :
  LET r == th[s7[c]]
  IN r.at = "user" => /\ ie[c] /\ r.curspl = 0 /\ r.iplhigh = 0
                      /\ ~r.badfault /\ ~r.in_interrupt /\ r.frames = <<>>

(* A fault recovery is armed exactly while a copy is in progress, under    *)
(* whatever traps interrupted it; so a fault in a copy stops the machine   *)
(* only when it is a bus error.                                            *)
RecoveryExact ==
  /\ \A t \in TrapThreads :
       LET places == {th[t].at} \cup {th[t].frames[i].at : i \in DOMAIN th[t].frames}
       IN th[t].state # "zombie" => (th[t].badfault <=> places \cap {"copy", "copyfail"} # {})
  /\ panicked = "fatal fault in kernel mode" =>
       \E t \in TrapThreads : th[t].at = "fault" /\ Last(th[t].frames).at = "sys"

(* t_in_interrupt is set exactly while an interrupt is handled in the      *)
(* thread, and the interrupt enable bit agrees with the recorded level     *)
(* wherever the kernel runs outside a trap's entry and exit.               *)
InterruptStateExact ==
  /\ \A t \in TrapThreads : th[t].state # "zombie" =>
       (th[t].in_interrupt <=>
          \E i \in IrqFrames(t) : ~(i = Len(th[t].frames) /\ th[t].at \in {"trap", "return"}))
  /\ \A c \in TrapCPUs : th[s7[c]].at \in {"sys", "copy", "copyfail", "fault", "startup"} =>
       (ie[c] <=> th[s7[c]].iplhigh = 0) /\ (ie[c] <=> th[s7[c]].curspl = 0)

(* Entering and leaving the kernel, as the four statements above.          *)
TrapsSound == StacksSound /\ UserModeClean /\ RecoveryExact /\ InterruptStateExact
=============================================================================

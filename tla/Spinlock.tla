------------------------------ MODULE Spinlock ------------------------------
(***************************************************************************)
(* Spinlocks, the interrupt level and the trap entry under thread switches: *)
(* kern/thread/spinlock.c, kern/thread/spl.c, the EX_IRQ part of mips_trap  *)
(* (kern/arch/mips/locore/trap.c) and the places where thread.c hands the   *)
(* run queue lock from the thread that takes it to the one that releases it.*)
(*                                                                         *)
(* The interrupt level is kept per thread (t_curspl, t_iplhigh_count), the *)
(* enable bit and the spinlock count per CPU, so that every thread switch  *)
(* and every interrupt has to keep the two in step.  stack[t] is the call  *)
(* stack of thread t: a frame is a function that has not returned, with    *)
(* its label pc, the lock it works on, the spinlocks its caller's code     *)
(* holds and the spl value it has saved.  The run queue is a set, since    *)
(* its order does not matter here (Sched has it); a wakeup or a migration  *)
(* is one step that needs the run queue locks to be free.                  *)
(***************************************************************************)
EXTENDS Integers, Sequences, SequencesExt, FiniteSets

CONSTANTS Threads,
          NumCPUs,
          NumLocks,  \* spinlocks other than the run queue locks
          Boot       \* the thread each CPU starts on

CPUs == 1 .. NumCPUs
NoCPU == 0
NoLock == 0
NoSpl == -1
IPL_NONE == 0
IPL_HIGH == 1

\* c_runqueue_lock of CPU c
RunqueueLock(c) == NumLocks + c
Locks == 1 .. NumLocks + NumCPUs

VARIABLES irq,              \* IEc, the interrupt enable bit of each CPU
          c_curthread, c_spinlocks, c_isidle,
          splk_lock, splk_holder,
          t_curspl, t_iplhigh_count,
          ready,            \* threads on each CPU's run queue
          asleep,           \* threads on a wait channel, with their t_cpu
          stack

irqVars == <<irq, t_curspl, t_iplhigh_count>>
lockVars == <<splk_lock, splk_holder, c_spinlocks>>
schedVars == <<c_curthread, c_isidle, ready, asleep>>
vars == <<irqVars, lockVars, schedVars, stack>>

Frame(label, l) == [pc |-> label, lock |-> l, held |-> {}, spl |-> NoSpl]

\* Fault: thread_fork does not account for the release of the run queue lock.
IplhighCountUnadjusted == 1

\* t_iplhigh_count of a new thread: one for its t_curspl (thread_create), one
\* for the run queue lock that thread_startup releases (thread_fork).
NewIplhighCount == 2

\* The CPUs run their boot threads with interrupts on; all the other threads
\* are new: thread_create and thread_fork have left them on a run queue.
Init ==
  /\ irq = [c \in CPUs |-> TRUE]
  /\ c_curthread = Boot
  /\ c_spinlocks = [c \in CPUs |-> 0]
  /\ c_isidle = [c \in CPUs |-> FALSE]
  /\ splk_lock = [l \in Locks |-> 0]
  /\ splk_holder = [l \in Locks |-> NoCPU]
  /\ t_curspl = [t \in Threads |-> IF t \in Range(Boot) THEN IPL_NONE ELSE IPL_HIGH]
  /\ t_iplhigh_count = [t \in Threads |-> IF t \in Range(Boot) THEN 0 ELSE NewIplhighCount]
  /\ ready = [c \in CPUs |-> IF c = 1 THEN Threads \ Range(Boot) ELSE {}]
  /\ asleep = [c \in CPUs |-> {}]
  /\ stack = [t \in Threads |-> IF t \in Range(Boot) THEN <<Frame("main", NoLock)>>
                                ELSE <<Frame("main", NoLock), Frame("st_arrive", NoLock)>>]

-----------------------------------------------------------------------------
(* Call stacks.  Every action is a step of the thread that CPU c runs.     *)
Cur(c) == c_curthread[c]
Top(c) == Last(stack[Cur(c)])
At(c, label) == Top(c).pc = label

Replaced(s, f) == Append(Front(s), f)

Jump(c, label) ==
  stack' = [stack EXCEPT ![Cur(c)] = Replaced(@, [Top(c) EXCEPT !.pc = label])]

\* The current frame goes to label and calls a function on lock l.
Call(c, label, callee, l) ==
  stack' = [stack EXCEPT ![Cur(c)] =
              Append(Replaced(@, [Top(c) EXCEPT !.pc = label]), Frame(callee, l))]

Return(c) == stack' = [stack EXCEPT ![Cur(c)] = Front(@)]

\* spinlock_acquire returns: its caller holds the lock.
ReturnHolding(c, l) ==
  stack' = [stack EXCEPT ![Cur(c)] =
              Replaced(Front(@), [Last(Front(@)) EXCEPT !.held = @ \cup {l}])]

-----------------------------------------------------------------------------
(* spl.c *)
splraise(c) ==
  /\ irq' = [irq EXCEPT ![c] = IF t_iplhigh_count[Cur(c)] = 0 THEN FALSE ELSE @]
  /\ t_iplhigh_count' = [t_iplhigh_count EXCEPT ![Cur(c)] = @ + 1]

spllower(c) ==
  /\ irq' = [irq EXCEPT ![c] = IF t_iplhigh_count[Cur(c)] = 1 THEN TRUE ELSE @]
  /\ t_iplhigh_count' = [t_iplhigh_count EXCEPT ![Cur(c)] = @ - 1]

splx(c, spl) ==
  /\ CASE t_curspl[Cur(c)] < spl -> splraise(c)
       [] t_curspl[Cur(c)] > spl -> spllower(c)
       [] OTHER -> UNCHANGED <<irq, t_iplhigh_count>>
  /\ t_curspl' = [t_curspl EXCEPT ![Cur(c)] = spl]

-----------------------------------------------------------------------------
(* spinlock_acquire *)
\* Fault: interrupts stay on while the lock is taken.
acq_raise_not(c) ==
  /\ At(c, "acq_raise")
  /\ splk_holder[Top(c).lock] # c
  /\ c_spinlocks' = [c_spinlocks EXCEPT ![c] = @ + 1]
  /\ Jump(c, "acq_spin")
  /\ UNCHANGED <<irqVars, splk_lock, splk_holder, schedVars>>

\* splraise, then panic("Deadlock on spinlock") when this CPU already holds
\* the lock: the CPU stays here.
acq_raise(c) ==
  /\ At(c, "acq_raise")
  /\ splraise(c)
  /\ splk_holder[Top(c).lock] # c
  /\ c_spinlocks' = [c_spinlocks EXCEPT ![c] = @ + 1]
  /\ Jump(c, "acq_spin")
  /\ UNCHANGED <<t_curspl, splk_lock, splk_holder, schedVars>>

\* Fault: the word is read and then set, without test-and-set.
acq_spin_no_tas(c) ==
  /\ At(c, "acq_spin")
  /\ splk_lock' = [splk_lock EXCEPT ![Top(c).lock] = 1]
  /\ Jump(c, "acq_mine")
  /\ UNCHANGED <<irqVars, splk_holder, c_spinlocks, schedVars>>

acq_spin(c) ==
  /\ At(c, "acq_spin")
  /\ splk_lock[Top(c).lock] = 0
  /\ splk_lock' = [splk_lock EXCEPT ![Top(c).lock] = 1]
  /\ Jump(c, "acq_mine")
  /\ UNCHANGED <<irqVars, splk_holder, c_spinlocks, schedVars>>

acq_mine(c) ==
  /\ At(c, "acq_mine")
  /\ splk_holder' = [splk_holder EXCEPT ![Top(c).lock] = c]
  /\ ReturnHolding(c, Top(c).lock)
  /\ UNCHANGED <<irqVars, splk_lock, c_spinlocks, schedVars>>

spinlock_acquire(c) == acq_raise(c) \/ acq_spin(c) \/ acq_mine(c)

(* spinlock_release *)
\* The two KASSERTs, the count and the holder.
rel_clear(c) ==
  /\ At(c, "rel_clear")
  /\ splk_holder[Top(c).lock] = c
  /\ c_spinlocks[c] > 0
  /\ c_spinlocks' = [c_spinlocks EXCEPT ![c] = @ - 1]
  /\ splk_holder' = [splk_holder EXCEPT ![Top(c).lock] = NoCPU]
  /\ Jump(c, "rel_word")
  /\ UNCHANGED <<irqVars, splk_lock, schedVars>>

rel_word(c) ==
  /\ At(c, "rel_word")
  /\ splk_lock' = [splk_lock EXCEPT ![Top(c).lock] = 0]
  /\ spllower(c)
  /\ Return(c)
  /\ UNCHANGED <<t_curspl, splk_holder, c_spinlocks, schedVars>>

spinlock_release(c) == rel_clear(c) \/ rel_word(c)

-----------------------------------------------------------------------------
(* Interrupts: mips_trap with EX_IRQ.  The processor takes one whenever    *)
(* the enable bit is set and clears the bit; returning sets it again.  The *)
(* frame's spl remembers doadjust.                                         *)
irq_enter(c) ==
  LET t == Cur(c)
      adjust == t_curspl[t] = IPL_NONE
  IN /\ irq[c]
     /\ irq' = [irq EXCEPT ![c] = FALSE]
     /\ adjust => t_iplhigh_count[t] = 0
     /\ t_curspl' = [t_curspl EXCEPT ![t] = IPL_HIGH]
     /\ t_iplhigh_count' = [t_iplhigh_count EXCEPT ![t] = IF adjust THEN @ + 1 ELSE @]
     /\ stack' = [stack EXCEPT ![t] = Append(@, Frame(IF adjust THEN "irq_adjusted" ELSE "irq", NoLock))]
     /\ UNCHANGED <<lockVars, schedVars>>

\* The handler is done: it has given back what it took.
irq_return(c) ==
  LET t == Cur(c)
      adjusted == At(c, "irq_adjusted")
  IN /\ Top(c).pc \in {"irq", "irq_adjusted"}
     /\ Top(c).held = {} /\ Top(c).spl = NoSpl
     /\ adjusted => t_curspl[t] = IPL_HIGH /\ t_iplhigh_count[t] = 1
     /\ t_curspl' = [t_curspl EXCEPT ![t] = IF adjusted THEN IPL_NONE ELSE @]
     /\ t_iplhigh_count' = [t_iplhigh_count EXCEPT ![t] = IF adjusted THEN @ - 1 ELSE @]
     /\ irq' = [irq EXCEPT ![c] = TRUE]
     /\ Return(c)
     /\ UNCHANGED <<lockVars, schedVars>>

-----------------------------------------------------------------------------
(* Kernel code, in a thread or in an interrupt handler.  It takes several  *)
(* spinlocks in increasing order only, and gives them and the spl back in  *)
(* any order: spl.c, lines 64 to 76.  Handlers use splhigh only through    *)
(* thread_switch.                                                          *)
InKernelCode(c) == Top(c).pc \in {"main", "irq", "irq_adjusted"}

use_spinlock(c) ==
  \E l \in 1 .. NumLocks :
    /\ InKernelCode(c)
    /\ \A h \in Top(c).held : h < l
    /\ Call(c, Top(c).pc, "acq_raise", l)
    /\ UNCHANGED <<irqVars, lockVars, schedVars>>

done_with_spinlock(c) ==
  \E l \in Top(c).held :
    /\ InKernelCode(c)
    /\ stack' = [stack EXCEPT ![Cur(c)] =
                   Append(Replaced(@, [Top(c) EXCEPT !.held = @ \ {l}]), Frame("rel_clear", l))]
    /\ UNCHANGED <<irqVars, lockVars, schedVars>>

use_splhigh(c) ==
  /\ At(c, "main")
  /\ Top(c).spl = NoSpl
  /\ splx(c, IPL_HIGH)
  /\ stack' = [stack EXCEPT ![Cur(c)] = Replaced(@, [Top(c) EXCEPT !.spl = t_curspl[Cur(c)]])]
  /\ UNCHANGED <<lockVars, schedVars>>

use_splx(c) ==
  /\ At(c, "main")
  /\ Top(c).spl # NoSpl
  /\ splx(c, Top(c).spl)
  /\ stack' = [stack EXCEPT ![Cur(c)] = Replaced(@, [Top(c) EXCEPT !.spl = NoSpl])]
  /\ UNCHANGED <<lockVars, schedVars>>

\* thread_yield, by a thread or by hardclock
yield(c) ==
  /\ InKernelCode(c)
  /\ Top(c).held = {}
  /\ Call(c, Top(c).pc, "sw_enter", NoLock)
  /\ UNCHANGED <<irqVars, lockVars, schedVars>>

\* wchan_sleep, with its KASSERTs: not in an interrupt, one spinlock held
sleep(c) ==
  \E l \in Top(c).held :
    /\ At(c, "main")
    /\ c_spinlocks[c] = 1
    /\ stack' = [stack EXCEPT ![Cur(c)] =
                   Append(Replaced(@, [Top(c) EXCEPT !.held = {}]), Frame("sw_enter", l))]
    /\ UNCHANGED <<irqVars, lockVars, schedVars>>

\* wchan_wakeone and thread_make_runnable on another thread
wake(c) ==
  \E d \in CPUs : \E t \in asleep[d] :
    /\ InKernelCode(c)
    /\ splk_lock[RunqueueLock(d)] = 0
    /\ asleep' = [asleep EXCEPT ![d] = @ \ {t}]
    /\ ready' = [ready EXCEPT ![d] = @ \cup {t}]
    /\ UNCHANGED <<irqVars, lockVars, c_curthread, c_isidle, stack>>

\* thread_consider_migration
migrate(c) ==
  \E d \in CPUs \ {c} : \E t \in ready[c] \ {Cur(c)} :
    /\ Top(c).pc \in {"irq", "irq_adjusted"}
    /\ splk_lock[RunqueueLock(c)] = 0 /\ splk_lock[RunqueueLock(d)] = 0
    /\ ready' = [ready EXCEPT ![c] = @ \ {t}, ![d] = @ \cup {t}]
    /\ UNCHANGED <<irqVars, lockVars, c_curthread, c_isidle, asleep, stack>>

-----------------------------------------------------------------------------
(* thread_switch *)
\* splhigh, then the run queue lock; on an idle CPU, splx and back
sw_enter(c) ==
  /\ At(c, "sw_enter")
  /\ IF c_isidle[c]
     THEN Return(c) /\ UNCHANGED irqVars
     ELSE /\ splx(c, IPL_HIGH)
          /\ stack' = [stack EXCEPT ![Cur(c)] =
                         Append(Replaced(@, [Top(c) EXCEPT !.pc = "sw_place", !.spl = t_curspl[Cur(c)]]),
                                Frame("acq_raise", RunqueueLock(c)))]
  /\ UNCHANGED <<lockVars, schedVars>>

\* Nothing else to run: unlock and leave.
sw_nothing_to_do(c) ==
  /\ At(c, "sw_place")
  /\ Top(c).lock = NoLock
  /\ ready[c] = {}
  /\ Call(c, "sw_leave", "rel_clear", RunqueueLock(c))
  /\ UNCHANGED <<irqVars, lockVars, schedVars>>

sw_yield(c) ==
  /\ At(c, "sw_place")
  /\ Top(c).lock = NoLock
  /\ ready[c] # {}
  /\ ready' = [ready EXCEPT ![c] = @ \cup {Cur(c)}]
  /\ c_isidle' = [c_isidle EXCEPT ![c] = TRUE]
  /\ Jump(c, "sw_pick")
  /\ UNCHANGED <<irqVars, lockVars, c_curthread, asleep>>

\* The thread goes on the channel, then the channel's spinlock is released.
sw_sleep(c) ==
  /\ At(c, "sw_place")
  /\ Top(c).lock # NoLock
  /\ asleep' = [asleep EXCEPT ![c] = @ \cup {Cur(c)}]
  /\ c_isidle' = [c_isidle EXCEPT ![c] = TRUE]
  /\ Call(c, "sw_pick", "rel_clear", Top(c).lock)
  /\ UNCHANGED <<irqVars, lockVars, c_curthread, ready>>

\* The run queue is empty: it is unlocked, and cpu_idle opens a window for
\* interrupts while the recorded level stays high.
sw_idle(c) ==
  /\ At(c, "sw_pick")
  /\ ready[c] = {}
  /\ Call(c, "sw_idle", "rel_clear", RunqueueLock(c))
  /\ UNCHANGED <<irqVars, lockVars, schedVars>>

cpu_idle_on(c) ==
  /\ At(c, "sw_idle")
  /\ irq' = [irq EXCEPT ![c] = TRUE]
  /\ Jump(c, "sw_window")
  /\ UNCHANGED <<t_curspl, t_iplhigh_count, lockVars, schedVars>>

cpu_idle_off(c) ==
  /\ At(c, "sw_window")
  /\ irq' = [irq EXCEPT ![c] = FALSE]
  /\ Call(c, "sw_pick", "acq_raise", RunqueueLock(c))
  /\ UNCHANGED <<t_curspl, t_iplhigh_count, lockVars, schedVars>>

\* switchframe_switch: the run queue lock is now the next thread's to release.
sw_pick(c) ==
  \E next \in ready[c] :
    LET left == [stack EXCEPT ![Cur(c)] = Replaced(@, [Top(c) EXCEPT !.pc = "sw_arrive", !.held = {}])] IN
    /\ At(c, "sw_pick")
    /\ ready' = [ready EXCEPT ![c] = @ \ {next}]
    /\ c_isidle' = [c_isidle EXCEPT ![c] = FALSE]
    /\ c_curthread' = [c_curthread EXCEPT ![c] = next]
    /\ stack' = left
    /\ UNCHANGED <<irqVars, lockVars, asleep>>

\* ... on its own stack, on whichever CPU it is now
sw_arrive(c) ==
  /\ At(c, "sw_arrive")
  /\ Call(c, "sw_leave", "rel_clear", RunqueueLock(c))
  /\ UNCHANGED <<irqVars, lockVars, schedVars>>

\* splx(spl); a thread that slept then takes the channel's spinlock again
sw_leave(c) ==
  /\ At(c, "sw_leave")
  /\ splx(c, Top(c).spl)
  /\ IF Top(c).lock = NoLock
     THEN Return(c)
     ELSE stack' = [stack EXCEPT ![Cur(c)] = Replaced(@, Frame("acq_raise", Top(c).lock))]
  /\ UNCHANGED <<lockVars, schedVars>>

thread_switch(c) ==
  \/ sw_enter(c) \/ sw_nothing_to_do(c) \/ sw_yield(c) \/ sw_sleep(c) \/ sw_idle(c)
  \/ cpu_idle_on(c) \/ cpu_idle_off(c) \/ sw_pick(c) \/ sw_arrive(c) \/ sw_leave(c)

(* thread_startup, where a new thread arrives *)
st_arrive(c) ==
  /\ At(c, "st_arrive")
  /\ Call(c, "st_spl0", "rel_clear", RunqueueLock(c))
  /\ UNCHANGED <<irqVars, lockVars, schedVars>>

st_spl0(c) ==
  /\ At(c, "st_spl0")
  /\ splx(c, IPL_NONE)
  /\ Return(c)
  /\ UNCHANGED <<lockVars, schedVars>>

thread_startup(c) == st_arrive(c) \/ st_spl0(c)

-----------------------------------------------------------------------------
Next == \E c \in CPUs :
  \/ spinlock_acquire(c) \/ spinlock_release(c)
  \/ irq_enter(c) \/ irq_return(c)
  \/ use_spinlock(c) \/ done_with_spinlock(c) \/ use_splhigh(c) \/ use_splx(c)
  \/ yield(c) \/ sleep(c) \/ wake(c) \/ migrate(c)
  \/ thread_switch(c) \/ thread_startup(c)

Spec == Init /\ [][Next]_vars

-----------------------------------------------------------------------------
\* The threads in whose code a lock is held.
HoldersOf(l) == {t \in Threads : \E i \in DOMAIN stack[t] : l \in stack[t][i].held}

\* Two threads never hold the same spinlock, whatever CPUs they have moved
\* between and whatever interrupts they were in.
SpinlockExcludes == \A l \in 1 .. NumLocks : Cardinality(HoldersOf(l)) <= 1

\* A CPU that holds a spinlock, or spins for one, takes no interrupts.
HoldingMasksInterrupts == \A c \in CPUs : c_spinlocks[c] > 0 => ~irq[c]

\* No panic and no KASSERT: spinlock_acquire never meets a lock of its own
\* CPU, spinlock_release always releases a lock of its own CPU, mips_trap
\* finds the recorded level in step when it enters and when it leaves.
NoPanic ==
  \A c \in CPUs :
    /\ At(c, "acq_raise") => splk_holder[Top(c).lock] # c
    /\ At(c, "rel_clear") => splk_holder[Top(c).lock] = c /\ c_spinlocks[c] > 0
    /\ irq[c] /\ t_curspl[Cur(c)] = IPL_NONE => t_iplhigh_count[Cur(c)] = 0
    /\ At(c, "irq_adjusted") /\ Top(c).held = {} /\ Top(c).spl = NoSpl =>
         t_curspl[Cur(c)] = IPL_HIGH /\ t_iplhigh_count[Cur(c)] = 1

\* Spinlocks exclude, keep interrupts off as long as they are held, and none
\* of their assertions fails, across switches, migrations and interrupts.
SpinlocksSound == SpinlockExcludes /\ HoldingMasksInterrupts /\ NoPanic

\* A thread that has given back every spinlock and every splhigh runs with
\* interrupts on, however often it was switched, moved and interrupted.
InterruptsComeBack ==
  \A c \in CPUs :
    At(c, "main") /\ Top(c).held = {} /\ Top(c).spl = NoSpl =>
      irq[c] /\ t_iplhigh_count[Cur(c)] = 0 /\ t_curspl[Cur(c)] = IPL_NONE
=============================================================================

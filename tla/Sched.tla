------------------------------- MODULE Sched -------------------------------
(***************************************************************************)
(* The scheduler of kern/thread/thread.c: thread_switch with its idle      *)
(* loop, thread_make_runnable, the wait channels, thread_fork,             *)
(* thread_exit and exorcise, thread_consider_migration, and the IPI that   *)
(* unidles a CPU.  The timer is hardclock of kern/thread/clock.c.          *)
(*                                                                         *)
(* Each CPU executes one instruction stream, so that the control state is  *)
(* per CPU: pc[c] is where CPU c is, on the stack of curthread[c].  After  *)
(* switchframe_switch the CPU is in the context of the next thread; resume *)
(* is where that thread goes on.  A run queue lock is an explicit variable *)
(* because thread_switch takes it on one stack and releases it on another. *)
(* A critical section that can neither block nor hand its lock over is one *)
(* step.  Interrupts are taken at "run" and in the idle loop only: all     *)
(* the rest runs at splhigh or with a spinlock held.                       *)
(***************************************************************************)
EXTENDS Integers, Sequences, FiniteSets, Functions, TLC

CONSTANTS Threads,  \* thread structures
          NumCPUs   \* cpuarray_num(&allcpus)

CPUs == 1 .. NumCPUs
NoCPU == 0

ASSUME CPUAssumption == NumCPUs \in Nat \ {0}

VARIABLES
  t_state,     \* S_RUN, S_READY, S_SLEEP, S_ZOMBIE; S_FREE when not allocated
  t_cpu,       \* the CPU a thread belongs to
  resume,      \* where a thread goes on when it is switched to
  c_curthread, c_runqueue, c_runqueue_lock, c_isidle, c_zombies,
  c_unidle,    \* IPI_UNIDLE is set in c_ipi_pending
  wc_threads,  \* threads asleep on a wait channel
  wc_lock,     \* the CPU that holds the spinlock associated with the channel
  pc,          \* where each CPU is
  newstate,    \* the argument of the thread_switch a CPU is in
  list,        \* private list of wchan_wakeall, or the one target of wakeone
  victims,     \* private list of thread_consider_migration
  mig          \* its local counters

NoCounts == [i |-> 1, my |-> 0, total |-> 0, share |-> 0, send |-> 0]

threadVars == <<t_state, t_cpu, resume>>
cpuVars == <<c_curthread, c_isidle, c_zombies>>
queueVars == <<c_runqueue, c_runqueue_lock, c_unidle>>
wchanVars == <<wc_threads, wc_lock>>
localVars == <<newstate, list, victims, mig>>
vars == <<threadVars, cpuVars, queueVars, wchanVars, pc, localVars>>

\* cpu_create has given each CPU a thread of its own, which it runs.
Init ==
  /\ c_curthread \in Injection(CPUs, Threads)
  /\ t_state = [t \in Threads |-> IF t \in Range(c_curthread) THEN "S_RUN" ELSE "S_FREE"]
  /\ t_cpu = [t \in Threads |-> IF t \in Range(c_curthread)
                                THEN CHOOSE c \in CPUs : c_curthread[c] = t ELSE NoCPU]
  /\ resume = [t \in Threads |-> "run"]
  /\ c_runqueue = [c \in CPUs |-> <<>>]
  /\ c_runqueue_lock = [c \in CPUs |-> NoCPU]
  /\ c_isidle = [c \in CPUs |-> FALSE]
  /\ c_zombies = [c \in CPUs |-> <<>>]
  /\ c_unidle = [c \in CPUs |-> FALSE]
  /\ wc_threads = <<>>
  /\ wc_lock = NoCPU
  /\ pc = [c \in CPUs |-> "run"]
  /\ newstate = [c \in CPUs |-> "S_READY"]
  /\ list = [c \in CPUs |-> <<>>]
  /\ victims = [c \in CPUs |-> <<>>]
  /\ mig = [c \in CPUs |-> NoCounts]

-----------------------------------------------------------------------------
Goto(c, label) == pc' = [pc EXCEPT ![c] = label]

\* Where an interrupt handler returns to: the idle loop, or the thread.
Interrupted(c) == IF c_isidle[c] THEN "unidle" ELSE "run"

\* Fault: the CPU that a thread is queued on is not interrupted.
make_runnable_silently(t, c) ==
  /\ t_state' = [t_state EXCEPT ![t] = "S_READY"]
  /\ c_runqueue' = [c_runqueue EXCEPT ![c] = Append(@, t)]
  /\ UNCHANGED c_unidle

\* thread_make_runnable, with the run queue of t's CPU c locked
make_runnable(t, c) ==
  /\ t_state' = [t_state EXCEPT ![t] = "S_READY"]
  /\ c_runqueue' = [c_runqueue EXCEPT ![c] = Append(@, t)]
  /\ c_unidle' = [c_unidle EXCEPT ![c] = @ \/ c_isidle[c]]

-----------------------------------------------------------------------------
(* thread_switch *)

\* Called with newstate ns; an idle CPU, whose timer went off, returns.
CallSwitch(c, ns) ==
  IF c_isidle[c] THEN Goto(c, "unidle") /\ UNCHANGED newstate
  ELSE Goto(c, "sw_lock") /\ newstate' = [newstate EXCEPT ![c] = ns]

\* Nothing else to run: thread_yield returns at once.
sw_nothing_to_do(c) ==
  /\ pc[c] = "sw_lock"
  /\ c_runqueue_lock[c] = NoCPU
  /\ newstate[c] = "S_READY"
  /\ c_runqueue[c] = <<>>
  /\ Goto(c, "run")
  /\ UNCHANGED <<threadVars, cpuVars, queueVars, wchanVars, localVars>>

\* The run queue is locked, to be unlocked by sw_pick or sw_idle, and the
\* thread is put in the right place.
sw_lock(c, ns) ==
  /\ pc[c] = "sw_lock"
  /\ newstate[c] = ns
  /\ c_runqueue_lock[c] = NoCPU
  /\ c_runqueue_lock' = [c_runqueue_lock EXCEPT ![c] = c]
  /\ t_state' = [t_state EXCEPT ![c_curthread[c]] = ns]
  /\ c_isidle' = [c_isidle EXCEPT ![c] = TRUE]
  /\ newstate' = [newstate EXCEPT ![c] = "S_READY"]
  /\ Goto(c, "sw_pick")
  /\ UNCHANGED <<t_cpu, c_curthread, list, victims, mig>>

sw_yield(c) ==
  /\ sw_lock(c, "S_READY")
  /\ c_runqueue[c] # <<>>
  /\ make_runnable(c_curthread[c], c)
  /\ resume' = [resume EXCEPT ![c_curthread[c]] = "run"]
  /\ UNCHANGED <<c_zombies, wchanVars>>

\* The thread goes on the channel and the channel's spinlock is released.
sw_sleep(c) ==
  /\ sw_lock(c, "S_SLEEP")
  /\ wc_threads' = Append(wc_threads, c_curthread[c])
  /\ wc_lock' = NoCPU
  /\ resume' = [resume EXCEPT ![c_curthread[c]] = "relock"]
  /\ UNCHANGED <<c_zombies, c_runqueue, c_unidle>>

sw_zombie(c) ==
  /\ sw_lock(c, "S_ZOMBIE")
  /\ c_zombies' = [c_zombies EXCEPT ![c] = Append(@, c_curthread[c])]
  /\ UNCHANGED <<resume, c_runqueue, c_unidle, wchanVars>>

\* Fault: the idle loop uses its time to exorcise.
sw_idle_exorcising(c) ==
  /\ pc[c] = "sw_pick"
  /\ c_runqueue[c] = <<>>
  /\ c_runqueue_lock' = [c_runqueue_lock EXCEPT ![c] = NoCPU]
  /\ t_state' = [t \in Threads |-> IF t \in Range(c_zombies[c]) THEN "S_FREE" ELSE t_state[t]]
  /\ c_zombies' = [c_zombies EXCEPT ![c] = <<>>]
  /\ Goto(c, "idle")
  /\ UNCHANGED <<t_cpu, resume, c_curthread, c_isidle, c_runqueue, c_unidle, wchanVars, localVars>>

\* The run queue is empty: it is unlocked and the CPU waits for an interrupt.
sw_idle(c) ==
  /\ pc[c] = "sw_pick"
  /\ c_runqueue[c] = <<>>
  /\ c_runqueue_lock' = [c_runqueue_lock EXCEPT ![c] = NoCPU]
  /\ Goto(c, "idle")
  /\ UNCHANGED <<threadVars, cpuVars, c_runqueue, c_unidle, wchanVars, localVars>>

\* Back from cpu_idle, the run queue is locked again.
sw_unidle(c) ==
  /\ pc[c] = "unidle"
  /\ c_runqueue_lock[c] = NoCPU
  /\ c_runqueue_lock' = [c_runqueue_lock EXCEPT ![c] = c]
  /\ Goto(c, "sw_pick")
  /\ UNCHANGED <<threadVars, cpuVars, c_runqueue, c_unidle, wchanVars, localVars>>

\* The head of the run queue becomes curthread (switchframe_switch), is S_RUN
\* and unlocks the run queue on its own stack; a new thread does the same in
\* thread_startup.
sw_pick(c) ==
  LET next == Head(c_runqueue[c]) IN
  /\ pc[c] = "sw_pick"
  /\ c_runqueue[c] # <<>>
  /\ c_curthread' = [c_curthread EXCEPT ![c] = next]
  /\ c_runqueue' = [c_runqueue EXCEPT ![c] = Tail(@)]
  /\ c_isidle' = [c_isidle EXCEPT ![c] = FALSE]
  /\ t_state' = [t_state EXCEPT ![next] = "S_RUN"]
  /\ c_runqueue_lock' = [c_runqueue_lock EXCEPT ![c] = NoCPU]
  /\ Goto(c, "exorcise")
  /\ UNCHANGED <<t_cpu, resume, c_zombies, c_unidle, wchanVars, localVars>>

\* thread_destroy on every thread that exited on this CPU
exorcise(c) ==
  /\ pc[c] = "exorcise"
  /\ t_state' = [t \in Threads |-> IF t \in Range(c_zombies[c]) THEN "S_FREE" ELSE t_state[t]]
  /\ c_zombies' = [c_zombies EXCEPT ![c] = <<>>]
  /\ t_cpu' = [t \in Threads |-> IF t \in Range(c_zombies[c]) THEN NoCPU ELSE t_cpu[t]]
  /\ Goto(c, resume[c_curthread[c]])
  /\ resume' = [resume EXCEPT ![c_curthread[c]] = "run"]
  /\ UNCHANGED <<c_curthread, c_isidle, queueVars, wchanVars, localVars>>

thread_switch(c) ==
  \/ sw_nothing_to_do(c) \/ sw_yield(c) \/ sw_sleep(c) \/ sw_zombie(c)
  \/ sw_idle(c) \/ sw_unidle(c) \/ sw_pick(c) \/ exorcise(c)

-----------------------------------------------------------------------------
(* Wait channels.  The caller holds the channel's spinlock.                *)
wc_acquire(c, from) ==
  /\ pc[c] = from
  /\ wc_lock = NoCPU
  /\ wc_lock' = c
  /\ Goto(c, "locked")
  /\ UNCHANGED <<threadVars, cpuVars, queueVars, wc_threads, localVars>>

wc_release(c) ==
  /\ pc[c] = "locked"
  /\ wc_lock' = NoCPU
  /\ Goto(c, Interrupted(c))
  /\ UNCHANGED <<threadVars, cpuVars, queueVars, wc_threads, localVars>>

\* wchan_sleep, never from an interrupt handler
wchan_sleep(c) ==
  /\ pc[c] = "locked"
  /\ ~c_isidle[c]
  /\ CallSwitch(c, "S_SLEEP")
  /\ UNCHANGED <<threadVars, cpuVars, queueVars, wchanVars, list, victims, mig>>

\* ... which takes the spinlock again when the thread runs again
wchan_sleep_relock(c) == wc_acquire(c, "relock")

\* Fault: the thread that is woken stays on the channel.
wakeone_peeking(c) ==
  /\ pc[c] = "locked"
  /\ wc_threads # <<>>
  /\ list' = [list EXCEPT ![c] = <<Head(wc_threads)>>]
  /\ Goto(c, "wake")
  /\ UNCHANGED <<threadVars, cpuVars, queueVars, wchanVars, newstate, victims, mig>>

wchan_wakeone(c) ==
  /\ pc[c] = "locked"
  /\ wc_threads # <<>>
  /\ list' = [list EXCEPT ![c] = <<Head(wc_threads)>>]
  /\ wc_threads' = Tail(wc_threads)
  /\ Goto(c, "wake")
  /\ UNCHANGED <<threadVars, cpuVars, queueVars, wc_lock, newstate, victims, mig>>

wchan_wakeall(c) ==
  /\ pc[c] = "locked"
  /\ wc_threads # <<>>
  /\ list' = [list EXCEPT ![c] = wc_threads]
  /\ wc_threads' = <<>>
  /\ Goto(c, "wake")
  /\ UNCHANGED <<threadVars, cpuVars, queueVars, wc_lock, newstate, victims, mig>>

\* thread_make_runnable on the next thread of the private list, which takes
\* the lock of that thread's own CPU
wake_next(c) ==
  LET t == Head(list[c]) IN
  /\ pc[c] = "wake"
  /\ c_runqueue_lock[t_cpu[t]] = NoCPU
  /\ make_runnable(t, t_cpu[t])
  /\ list' = [list EXCEPT ![c] = Tail(@)]
  /\ Goto(c, IF Len(list[c]) = 1 THEN "locked" ELSE "wake")
  /\ UNCHANGED <<t_cpu, resume, cpuVars, c_runqueue_lock, wchanVars, newstate, victims, mig>>

wchan(c) ==
  \/ wc_release(c) \/ wchan_sleep(c) \/ wchan_sleep_relock(c)
  \/ wchan_wakeone(c) \/ wchan_wakeall(c) \/ wake_next(c)

-----------------------------------------------------------------------------
(* thread_fork and thread_exit *)
thread_fork(c) ==
  \E t \in Threads :
    /\ pc[c] = "run"
    /\ t_state[t] = "S_FREE"
    /\ c_runqueue_lock[c] = NoCPU
    /\ t_cpu' = [t_cpu EXCEPT ![t] = t_cpu[c_curthread[c]]]
    /\ resume' = [resume EXCEPT ![t] = "run"]
    /\ make_runnable(t, t_cpu[c_curthread[c]])
    /\ UNCHANGED <<cpuVars, c_runqueue_lock, wchanVars, pc, localVars>>

thread_exit(c) ==
  /\ pc[c] = "run"
  /\ CallSwitch(c, "S_ZOMBIE")
  /\ UNCHANGED <<threadVars, cpuVars, queueVars, wchanVars, list, victims, mig>>

-----------------------------------------------------------------------------
(* Interrupts.  cpu_idle returns when one is pending and then takes it.    *)

\* interprocessor_interrupt with IPI_UNIDLE set
interprocessor_interrupt(c) ==
  /\ pc[c] \in {"run", "idle"}
  /\ c_unidle[c]
  /\ c_unidle' = [c_unidle EXCEPT ![c] = FALSE]
  /\ Goto(c, Interrupted(c))
  /\ UNCHANGED <<threadVars, cpuVars, c_runqueue, c_runqueue_lock, wchanVars, localVars>>

\* hardclock that only yields
hardclock(c) ==
  /\ pc[c] \in {"run", "idle"}
  /\ CallSwitch(c, "S_READY")
  /\ UNCHANGED <<threadVars, cpuVars, queueVars, wchanVars, list, victims, mig>>

\* hardclock that first considers migration
hardclock_migrate(c) ==
  /\ pc[c] \in {"run", "idle"}
  /\ Goto(c, "mg_count")
  /\ UNCHANGED <<threadVars, cpuVars, queueVars, wchanVars, localVars>>

\* A device interrupt, or the thread itself, is about to use the channel.
use_wchan(c) == wc_acquire(c, "run") \/ wc_acquire(c, "idle")

-----------------------------------------------------------------------------
(* thread_consider_migration *)

\* Fault: the running thread is counted with the queue of its CPU.
mg_count_curthread(c) ==
  LET m == mig[c]
      n == Len(c_runqueue[m.i])
  IN /\ pc[c] = "mg_count"
     /\ m.i <= NumCPUs
     /\ c_runqueue_lock[m.i] = NoCPU
     /\ mig' = [mig EXCEPT ![c] = [m EXCEPT !.i = @ + 1, !.total = @ + n,
                                            !.my = IF m.i = c THEN n + 1 ELSE @]]
     /\ UNCHANGED <<threadVars, cpuVars, queueVars, wchanVars, pc, newstate, list, victims>>

\* The queues are counted one after the other, each under its own lock.
mg_count(c) ==
  LET m == mig[c]
      n == Len(c_runqueue[m.i])
  IN /\ pc[c] = "mg_count"
     /\ m.i <= NumCPUs
     /\ c_runqueue_lock[m.i] = NoCPU
     /\ mig' = [mig EXCEPT ![c] = [m EXCEPT !.i = @ + 1, !.total = @ + n,
                                            !.my = IF m.i = c THEN n ELSE @]]
     /\ UNCHANGED <<threadVars, cpuVars, queueVars, wchanVars, pc, newstate, list, victims>>

\* one_share and to_send; hardclock goes on to thread_yield when this CPU has
\* less than its share.
mg_share(c) ==
  LET m == mig[c]
      share == (m.total + NumCPUs - 1) \div NumCPUs
  IN /\ pc[c] = "mg_count"
     /\ m.i > NumCPUs
     /\ IF m.my < share
        THEN CallSwitch(c, "S_READY") /\ mig' = [mig EXCEPT ![c] = NoCounts]
        ELSE /\ mig' = [mig EXCEPT ![c] = [m EXCEPT !.i = 1, !.share = share, !.send = m.my - share]]
             /\ Goto(c, "mg_take")
             /\ UNCHANGED newstate
     /\ UNCHANGED <<threadVars, cpuVars, queueVars, wchanVars, list, victims>>

\* The last to_send threads of the run queue move to the private list.
mg_take(c) ==
  LET keep == Len(c_runqueue[c]) - mig[c].send IN
  /\ pc[c] = "mg_take"
  /\ c_runqueue_lock[c] = NoCPU
  /\ victims' = [victims EXCEPT ![c] = SubSeq(c_runqueue[c], keep + 1, Len(c_runqueue[c]))]
  /\ c_runqueue' = [c_runqueue EXCEPT ![c] = SubSeq(@, 1, keep)]
  /\ Goto(c, "mg_send")
  /\ UNCHANGED <<threadVars, cpuVars, c_runqueue_lock, c_unidle, wchanVars, newstate, list, mig>>

\* The loop over the other CPUs takes the lock of the next one.
mg_lock(c) ==
  LET m == mig[c] IN
  /\ pc[c] = "mg_send"
  /\ m.i <= NumCPUs /\ m.send > 0 /\ m.i # c
  /\ c_runqueue_lock[m.i] = NoCPU
  /\ c_runqueue_lock' = [c_runqueue_lock EXCEPT ![m.i] = c]
  /\ Goto(c, "mg_move")
  /\ UNCHANGED <<threadVars, cpuVars, c_runqueue, c_unidle, wchanVars, localVars>>

mg_skip_self(c) ==
  /\ pc[c] = "mg_send"
  /\ mig[c].i = c /\ mig[c].send > 0
  /\ mig' = [mig EXCEPT ![c].i = @ + 1]
  /\ UNCHANGED <<threadVars, cpuVars, queueVars, wchanVars, pc, newstate, list, victims>>

\* Fault: curthread is migrated like any other thread.
mg_move_any(c) ==
  LET d == mig[c].i
      t == Head(victims[c])
  IN /\ pc[c] = "mg_move"
     /\ Len(c_runqueue[d]) < mig[c].share /\ mig[c].send > 0
     /\ t_cpu' = [t_cpu EXCEPT ![t] = d]
     /\ make_runnable(t, d)
     /\ victims' = [victims EXCEPT ![c] = Tail(@)]
     /\ mig' = [mig EXCEPT ![c].send = @ - 1]
     /\ UNCHANGED <<resume, cpuVars, c_runqueue_lock, wchanVars, pc, newstate, list>>

\* Fault: the migrated thread still belongs to the CPU that sent it.
mg_move_keeping_cpu(c) ==
  LET d == mig[c].i
      t == Head(victims[c])
  IN /\ pc[c] = "mg_move"
     /\ Len(c_runqueue[d]) < mig[c].share /\ mig[c].send > 0
     /\ t # c_curthread[c]
     /\ make_runnable(t, d)
     /\ victims' = [victims EXCEPT ![c] = Tail(@)]
     /\ mig' = [mig EXCEPT ![c].send = @ - 1]
     /\ UNCHANGED <<t_cpu, resume, cpuVars, c_runqueue_lock, wchanVars, pc, newstate, list>>

mg_move(c) ==
  LET d == mig[c].i
      t == Head(victims[c])
  IN /\ pc[c] = "mg_move"
     /\ Len(c_runqueue[d]) < mig[c].share /\ mig[c].send > 0
     /\ t # c_curthread[c]
     /\ t_cpu' = [t_cpu EXCEPT ![t] = d]
     /\ c_runqueue' = [c_runqueue EXCEPT ![d] = Append(@, t)]
     /\ c_unidle' = [c_unidle EXCEPT ![d] = @ \/ c_isidle[d]]
     /\ victims' = [victims EXCEPT ![c] = Tail(@)]
     /\ mig' = [mig EXCEPT ![c].send = @ - 1]
     /\ UNCHANGED <<t_state, resume, cpuVars, c_runqueue_lock, wchanVars, pc, newstate, list>>

\* curthread is skipped: it goes to the end of the private list.
mg_skip_curthread(c) ==
  /\ pc[c] = "mg_move"
  /\ Len(c_runqueue[mig[c].i]) < mig[c].share /\ mig[c].send > 0
  /\ Head(victims[c]) = c_curthread[c]
  /\ victims' = [victims EXCEPT ![c] = Append(Tail(@), Head(@))]
  /\ mig' = [mig EXCEPT ![c].send = @ - 1]
  /\ UNCHANGED <<threadVars, cpuVars, queueVars, wchanVars, pc, newstate, list>>

mg_unlock(c) ==
  /\ pc[c] = "mg_move"
  /\ ~(Len(c_runqueue[mig[c].i]) < mig[c].share /\ mig[c].send > 0)
  /\ c_runqueue_lock' = [c_runqueue_lock EXCEPT ![mig[c].i] = NoCPU]
  /\ mig' = [mig EXCEPT ![c].i = @ + 1]
  /\ Goto(c, "mg_send")
  /\ UNCHANGED <<threadVars, cpuVars, c_runqueue, c_unidle, wchanVars, newstate, list, victims>>

\* Leftovers go back on this CPU's run queue; hardclock goes on to yield.
mg_back(c) ==
  /\ pc[c] = "mg_send"
  /\ mig[c].i > NumCPUs \/ mig[c].send = 0
  /\ victims[c] # <<>> => c_runqueue_lock[c] = NoCPU
  /\ c_runqueue' = [c_runqueue EXCEPT ![c] = @ \o victims[c]]
  /\ victims' = [victims EXCEPT ![c] = <<>>]
  /\ mig' = [mig EXCEPT ![c] = NoCounts]
  /\ CallSwitch(c, "S_READY")
  /\ UNCHANGED <<threadVars, cpuVars, c_runqueue_lock, c_unidle, wchanVars, list>>

thread_consider_migration(c) ==
  \/ mg_count(c) \/ mg_share(c) \/ mg_take(c) \/ mg_lock(c) \/ mg_skip_self(c)
  \/ mg_move(c) \/ mg_skip_curthread(c) \/ mg_unlock(c) \/ mg_back(c)

-----------------------------------------------------------------------------
\* What a CPU does by itself, once it is in the code of this module
Step(c) == thread_switch(c) \/ wchan(c) \/ thread_consider_migration(c)

Next == \E c \in CPUs :
  \/ Step(c)
  \/ thread_fork(c) \/ thread_exit(c) \/ use_wchan(c)
  \/ interprocessor_interrupt(c) \/ hardclock(c) \/ hardclock_migrate(c)

Spec == Init /\ [][Next]_vars

-----------------------------------------------------------------------------
Occurrences(s, t) == Cardinality({i \in DOMAIN s : s[i] = t})

\* ... on the lists l of the CPUs
OnLists(l, t) == Cardinality(UNION {{<<c, i>> : i \in {j \in DOMAIN l[c] : l[c][j] = t}} : c \in CPUs})

\* The CPUs that are executing t as a running thread: it is curthread and has
\* not been put on any list by thread_switch.
RunningOn(t) == {c \in CPUs : c_curthread[c] = t /\ ~c_isidle[c]}

\* Every thread is on exactly one list, the one its t_state names, or runs on
\* one CPU and is on none: no path through sleep, wakeup, yield, exit and
\* migration loses or duplicates a thread.
OneHome ==
  \A t \in Threads :
    LET queued == OnLists(c_runqueue, t) + OnLists(victims, t)
        asleep == OnLists(list, t) + Occurrences(wc_threads, t)
        dead == OnLists(c_zombies, t)
        running == Cardinality(RunningOn(t))
    IN /\ queued + asleep + dead + running = (IF t_state[t] = "S_FREE" THEN 0 ELSE 1)
       /\ queued = 1 <=> t_state[t] = "S_READY"
       /\ asleep = 1 <=> t_state[t] = "S_SLEEP"
       /\ dead = 1 <=> t_state[t] = "S_ZOMBIE"

\* The stack of a CPU's curthread, which the CPU keeps using while it idles,
\* is never within reach of another CPU: the thread is on no other run queue
\* and current on no other CPU.
StackUsedByOneCPU ==
  \A c, d \in CPUs : c # d =>
    /\ c_curthread[c] # c_curthread[d]
    /\ c_curthread[c] \notin Range(c_runqueue[d])

\* t_cpu, read by thread_make_runnable before the lock is taken, is the CPU
\* whose queue the thread is on or which runs it.
CpuFieldExact ==
  \A c \in CPUs :
    /\ t_state[c_curthread[c]] # "S_FREE" => t_cpu[c_curthread[c]] = c
    /\ \A t \in Range(c_runqueue[c]) : t_cpu[t] = c

\* A CPU that waits in cpu_idle with a thread on its run queue has the unidle
\* interrupt pending: the wakeup cannot fall between unlock and wait.
UnidleNotLost ==
  \A c \in CPUs : pc[c] = "idle" /\ c_runqueue[c] # <<>> => c_unidle[c]

\* A thread structure is not freed while a CPU is on its stack.
NoStackFreedInUse == \A c \in CPUs : t_state[c_curthread[c]] # "S_FREE"

\* When thread_consider_migration takes its victims the run queue still has
\* as many as it counted, though the lock was dropped in between:
\* threadlist_remtail never returns NULL.
VictimsExist ==
  \A c \in CPUs :
    /\ pc[c] = "mg_take" => mig[c].send <= Len(c_runqueue[c])
    /\ pc[c] \in {"mg_send", "mg_move"} => mig[c].send <= Len(victims[c])

\* No thread is lost or in two places, whichever CPUs it moves between: it is
\* where its state and its t_cpu say, and migration finds the threads it has
\* counted (thread_make_runnable, thread_switch, thread_consider_migration).
ThreadsAccounted == OneHome /\ CpuFieldExact /\ VictimsExist

\* Thread structures are interchangeable.
Symmetry == Permutations(Threads)
=============================================================================

----------------------------- MODULE ProcTable -----------------------------
(***************************************************************************)
(* The process table and the life of a process: proc_table_add, clear_pid, *)
(* proc_create_fork, proc_create_runprogram and proc_destroy of            *)
(* kern/proc/proc.c; sys_fork, sys_waitpid and sys__exit of                *)
(* kern/syscall/proc_syscalls.c; common_prog of kern/main/menu.c.          *)
(*                                                                         *)
(* The table has one sleep lock and one condition variable.  A section     *)
(* under the lock is one step, and a waiter goes back to the loop test     *)
(* after each broadcast: CondVar shows that the lock and the condition     *)
(* variable allow this view.  Everything outside the lock interleaves.     *)
(*                                                                         *)
(* A proc structure is a member of Procs that is handed out again once it  *)
(* is freed, so that stale pointers can meet a new process.  A user        *)
(* process has one thread.  A failed KASSERT, a panic, or an access to     *)
(* freed or foreign memory ends what the code defines: the thread stays    *)
(* where it is.                                                            *)
(***************************************************************************)
EXTENDS Integers, Sequences, FiniteSets, FiniteSetsExt, Functions

CONSTANTS Procs,         \* proc structures
          kproc,         \* the kernel's process
          Threads,       \* threads
          menu,          \* the thread of the kernel menu
          LastPid,       \* the last entry proc_table_bootstrap clears (31)
          Codes,         \* wait codes
          NULL,
          MaxFailures    \* bound: how often memory runs out under a creation

PID_MIN == 2
Pids == PID_MIN .. LastPid
\* Stands for every index behind the entries that the bootstrap prepared.
OutOfTable == LastPid + 1

ASSUME ProcTableAssumption ==
  /\ kproc \in Procs /\ menu \in Threads
  /\ LastPid \in Nat /\ LastPid >= PID_MIN
  /\ NULL \notin Procs \cup Threads \cup Codes
  /\ MaxFailures \in Nat

VARIABLES
  status, proc, waitcode, pid_available, pid_next,  \* struct proc_table
  allocated,  \* proc structures that are not free
  p_pid,      \* their pid
  children,   \* their array of children
  t_proc,     \* the process of each thread
  pc,         \* where each thread is
  arg,        \* the proc structure or pid the thread's system call is about
  exitcode,   \* history: the code each process exited with
  answer,     \* history: what waitpid last answered to each thread
  failures    \* history: how often memory ran out half-way through a creation

tableVars == <<status, proc, waitcode, pid_available, pid_next>>
procVars == <<allocated, p_pid, children>>
histVars == <<exitcode, answer, failures>>
vars == <<tableVars, procVars, t_proc, pc, arg, histVars>>

Init ==
  /\ status = [i \in Pids |-> "READY"]
  /\ proc = [i \in Pids |-> NULL]
  /\ waitcode = [i \in Pids |-> NULL]
  /\ pid_available = Cardinality(Pids)
  /\ pid_next = PID_MIN
  /\ allocated = {kproc}
  /\ p_pid = [p \in Procs |-> 1]
  /\ children = [p \in Procs |-> <<>>]
  /\ t_proc = [t \in Threads |-> IF t = menu THEN kproc ELSE NULL]
  /\ pc = [t \in Threads |-> IF t = menu THEN "menu" ELSE "free"]
  /\ arg = [t \in Threads |-> NULL]
  /\ exitcode = [p \in Procs |-> NULL]
  /\ answer = [t \in Threads |-> NULL]
  /\ failures = 0

-----------------------------------------------------------------------------
Goto(t, label) == pc' = [pc EXCEPT ![t] = label]
Resume(t) == IF t = menu THEN "menu" ELSE "user"

\* Back to the caller of the system call or of common_prog.
Finish(t) ==
  /\ Goto(t, Resume(t))
  /\ arg' = [arg EXCEPT ![t] = NULL]

\* Memory runs out half-way through the creation of a process.
Fails == failures < MaxFailures /\ failures' = failures + 1

\* Fault: the scan starts at the first entry and takes any that is not RUNNING.
ScanForIdle(st, from) ==
  IF \E i \in Pids : st[i] # "RUNNING"
  THEN CHOOSE i \in Pids : st[i] # "RUNNING" /\ \A j \in Pids : j < i => st[j] = "RUNNING"
  ELSE OutOfTable

\* The scan of proc_table_add from the pid just used upwards.  Behind the last
\* entry it reads foreign memory, and finds a zero word there at the latest in
\* waitcode[1], which add_pid has cleared for kproc.
ScanForReady(st, from) ==
  IF \E i \in Pids : i >= from /\ st[i] = "READY"
  THEN Min({i \in Pids : i >= from /\ st[i] = "READY"})
  ELSE OutOfTable

\* array_preallocate has to grow an array of n members for one more: the room
\* goes from 0 to 4 and then doubles.
Grows(n) == n = 0 \/ \E k \in 0 .. n : n = 4 * 2^k

\* array_add of the new child.  proc_table_add ignores its result: when the
\* array cannot grow, the child is lost to its parent.  The new process has none.
array_add(parent, new) ==
  \/ /\ children' = [children EXCEPT ![parent] = Append(@, new), ![new] = <<>>]
     /\ UNCHANGED failures
  \/ /\ Grows(Len(children[parent])) /\ Fails
     /\ children' = [children EXCEPT ![new] = <<>>]

\* proc_table_add and add_pid when there is room.  add_pid outside the table
\* is not defined.
proc_table_add(parent, new) ==
  LET next == pid_next IN
  /\ next \in Pids
  /\ status' = [status EXCEPT ![next] = "RUNNING"]
  /\ proc' = [proc EXCEPT ![next] = new]
  /\ waitcode' = [waitcode EXCEPT ![next] = NULL]
  /\ pid_available' = pid_available - 1
  /\ pid_next' = IF pid_available' > 0 THEN ScanForReady(status', next) ELSE OutOfTable
  /\ array_add(parent, new)
  /\ p_pid' = [p_pid EXCEPT ![new] = next]

\* clear_pid on a set of entries
clear_pid(st, cleared) ==
  /\ status' = [i \in Pids |-> IF i \in cleared THEN "READY" ELSE st[i]]
  /\ proc' = [i \in Pids |-> IF i \in cleared THEN NULL ELSE proc[i]]
  /\ waitcode' = [i \in Pids |-> IF i \in cleared THEN NULL ELSE waitcode[i]]
  /\ pid_available' = pid_available + Cardinality(cleared)

-----------------------------------------------------------------------------
(* sys_fork *)
\* proc_create and proc_table_add.  A full table is ENPROC, and the structure
\* is freed again.
fork_enter(t, from, to) ==
  \E new \in Procs \ allocated :
    /\ pc[t] = from
    /\ pid_available >= 1
    /\ proc_table_add(t_proc[t], new)
    /\ allocated' = allocated \cup {new}
    /\ exitcode' = [exitcode EXCEPT ![new] = NULL]
    /\ arg' = [arg EXCEPT ![t] = new]
    /\ Goto(t, to)
    /\ UNCHANGED <<t_proc, answer>>

sys_fork(t) == fork_enter(t, "user", "fork_copy")

\* as_copy, and the copies of the current directory and the file table
fork_copy(t) ==
  /\ pc[t] = "fork_copy"
  /\ Goto(t, "fork_thread")
  /\ UNCHANGED <<tableVars, procVars, t_proc, arg, histVars>>

\* as_copy fails: the structure is freed, the table entry stays.
fork_copy_fails(t) ==
  /\ Fails
  /\ pc[t] = "fork_copy"
  /\ allocated' = allocated \ {arg[t]}
  /\ Finish(t)
  /\ UNCHANGED <<tableVars, p_pid, children, t_proc, exitcode, answer>>

\* kmalloc of the child's trapframe fails: only the error is returned.
fork_trapframe_fails(t) ==
  /\ Fails
  /\ pc[t] = "fork_thread"
  /\ Finish(t)
  /\ UNCHANGED <<tableVars, procVars, t_proc, exitcode, answer>>

\* thread_fork: the child runs
fork_thread(t) ==
  \E u \in Threads :
    /\ pc[t] = "fork_thread"
    /\ pc[u] = "free"
    /\ pc' = [pc EXCEPT ![t] = "user", ![u] = "user"]
    /\ t_proc' = [t_proc EXCEPT ![u] = arg[t]]
    /\ arg' = [arg EXCEPT ![t] = NULL]
    /\ answer' = [answer EXCEPT ![u] = NULL]
    /\ UNCHANGED <<tableVars, procVars, exitcode, failures>>

\* thread_fork fails: proc_destroy, then proc_table_freepid
fork_thread_fails(t) ==
  /\ Fails
  /\ pc[t] = "fork_thread"
  /\ allocated' = allocated \ {arg[t]}
  /\ arg' = [arg EXCEPT ![t] = p_pid[arg[t]]]
  /\ Goto(t, "fork_freepid")
  /\ UNCHANGED <<tableVars, p_pid, children, t_proc, exitcode, answer>>

fork_freepid(t) ==
  /\ pc[t] = "fork_freepid"
  /\ clear_pid(status, {arg[t]})
  /\ Finish(t)
  /\ UNCHANGED <<pid_next, procVars, t_proc, histVars>>

-----------------------------------------------------------------------------
(* common_prog: the menu runs a program and waits for it *)
run_program(t) == t = menu /\ fork_enter(t, "menu", "run_thread")

\* thread_fork; the new thread still has to load the program (runprogram)
run_thread(t) ==
  \E u \in Threads :
    /\ pc[t] = "run_thread"
    /\ pc[u] = "free"
    /\ pc' = [pc EXCEPT ![t] = "wait_check", ![u] = "load"]
    /\ t_proc' = [t_proc EXCEPT ![u] = arg[t]]
    /\ arg' = [arg EXCEPT ![t] = p_pid[arg[t]]]
    /\ answer' = [answer EXCEPT ![u] = NULL]
    /\ UNCHANGED <<tableVars, procVars, exitcode, failures>>

\* A console cannot be opened or thread_fork fails: proc_destroy only
run_thread_fails(t) ==
  /\ Fails
  /\ pc[t] = "run_thread"
  /\ allocated' = allocated \ {arg[t]}
  /\ Finish(t)
  /\ UNCHANGED <<tableVars, p_pid, children, t_proc, exitcode, answer>>

load(t) ==
  /\ pc[t] = "load"
  /\ Goto(t, "user")
  /\ UNCHANGED <<tableVars, procVars, t_proc, arg, histVars>>

\* runprogram fails: cmd_progthread returns, and the thread ends in
\* thread_exit without sys__exit.
load_fails(t) ==
  /\ pc[t] = "load"
  /\ Goto(t, "thread_exit")
  /\ UNCHANGED <<tableVars, procVars, t_proc, arg, histVars>>

-----------------------------------------------------------------------------
(* sys_waitpid *)
\* PID_MAX lets a pid behind the entries through to the tests of the table.
sys_waitpid(t) ==
  \E pid \in Pids \cup {OutOfTable} :
    /\ pc[t] = "user"
    /\ arg' = [arg EXCEPT ![t] = pid]
    /\ Goto(t, "wait_check")
    /\ UNCHANGED <<tableVars, procVars, t_proc, histVars>>

\* The pid is in use and names a child: read without the lock.  Behind the
\* table that is foreign memory; a word there that is a child's address by
\* chance is left out.
IsChild(t, pid) ==
  /\ pid \in Pids
  /\ status[pid] # "READY"
  /\ proc[pid] \in Range(children[t_proc[t]])

\* ESRCH or ECHILD
wait_refused(t) ==
  /\ pc[t] = "wait_check"
  /\ ~IsChild(t, arg[t])
  /\ Finish(t)
  /\ UNCHANGED <<tableVars, procVars, t_proc, histVars>>

wait_check(t) ==
  /\ pc[t] = "wait_check"
  /\ IsChild(t, arg[t])
  /\ Goto(t, "wait_loop")
  /\ UNCHANGED <<tableVars, procVars, t_proc, arg, histVars>>

\* lock_acquire, or back from cv_wait: not a zombie yet
wait_sleep(t) ==
  /\ pc[t] = "wait_loop"
  /\ status[arg[t]] # "ZOMBIE"
  /\ Goto(t, "waiting")
  /\ UNCHANGED <<tableVars, procVars, t_proc, arg, histVars>>

\* Fault: the zombie is reaped by the wait, but stays among the children.
wait_return_reaping(t) ==
  /\ pc[t] = "wait_loop"
  /\ status[arg[t]] = "ZOMBIE"
  /\ answer' = [answer EXCEPT ![t] = [code |-> waitcode[arg[t]], exited |-> exitcode[proc[arg[t]]]]]
  /\ clear_pid(status, {arg[t]})
  /\ Finish(t)
  /\ UNCHANGED <<pid_next, procVars, t_proc, exitcode, failures>>

wait_return(t) ==
  /\ pc[t] = "wait_loop"
  /\ status[arg[t]] = "ZOMBIE"
  /\ answer' = [answer EXCEPT ![t] = [code |-> waitcode[arg[t]], exited |-> exitcode[proc[arg[t]]]]]
  /\ Finish(t)
  /\ UNCHANGED <<tableVars, procVars, t_proc, exitcode, failures>>

-----------------------------------------------------------------------------
(* sys__exit *)
ChildPids(p) == {p_pid[c] : c \in Range(children[p])}

\* What proc_table_update_children and sys__exit need to get through: every
\* child can be read, none is met twice, and no status makes them panic.
ExitDefined(p) ==
  /\ p \in allocated
  /\ Range(children[p]) \subseteq allocated
  /\ IsInjective(children[p])
  /\ \A c, d \in Range(children[p]) : p_pid[c] = p_pid[d] => c = d
  /\ \A i \in ChildPids(p) : status[i] \in {"RUNNING", "ZOMBIE"}
  /\ status[p_pid[p]] \in {"RUNNING", "ORPHAN"}

\* Fault: the children that still run keep their status.
update_children_reap_only(p) == status

\* proc_table_update_children: running children become orphans ...
update_children(p) ==
  [i \in Pids |-> IF i \in ChildPids(p) /\ status[i] = "RUNNING" THEN "ORPHAN" ELSE status[i]]

\* ... and the zombies among them are destroyed.
Zombies(p) == {c \in Range(children[p]) : status[p_pid[c]] = "ZOMBIE"}

\* Fault: only one waiting thread is woken, as by cv_signal.
cv_broadcast_one(t) ==
  LET sleepers == {u \in Threads : pc[u] = "waiting"} IN
  pc' = [u \in Threads |-> IF u = t THEN "thread_exit"
                           ELSE IF u \in sleepers /\ u = (CHOOSE v \in sleepers : TRUE)
                                THEN "wait_loop" ELSE pc[u]]

\* cv_broadcast, and on to thread_exit
cv_broadcast(t) ==
  pc' = [u \in Threads |-> IF u = t THEN "thread_exit"
                           ELSE IF pc[u] = "waiting" THEN "wait_loop" ELSE pc[u]]

\* The structures that the exit destroys: the zombies, and an orphan itself.
Destroyed(p) == IF status[p_pid[p]] = "ORPHAN" THEN Zombies(p) \cup {p} ELSE Zombies(p)
PidsOf(dead) == {p_pid[c] : c \in dead}

\* Fault: the entry is given back at once, whoever may want the exit code.
exit_entries_at_once(p, code) ==
  /\ clear_pid(update_children(p), PidsOf(Zombies(p) \cup {p}))
  /\ allocated' = allocated \ (Zombies(p) \cup {p})

\* Fault: the wait code is not stored.
exit_entries_codeless(p, code) ==
  /\ clear_pid([update_children(p) EXCEPT ![p_pid[p]] = "ZOMBIE"], PidsOf(Destroyed(p)))
  /\ allocated' = allocated \ Destroyed(p)

\* The entries after the children and the process itself have been dealt with:
\* the process turns into a zombie with its wait code, or its entry is cleared.
exit_entries(p, code) ==
  LET gone == PidsOf(Destroyed(p)) IN
  /\ status' = [i \in Pids |-> IF i \in gone THEN "READY"
                              ELSE IF i = p_pid[p] THEN "ZOMBIE" ELSE update_children(p)[i]]
  /\ proc' = [i \in Pids |-> IF i \in gone THEN NULL ELSE proc[i]]
  /\ waitcode' = [i \in Pids |-> IF i \in gone THEN NULL ELSE IF i = p_pid[p] THEN code ELSE waitcode[i]]
  /\ pid_available' = pid_available + Cardinality(gone)
  /\ allocated' = allocated \ Destroyed(p)

\* Fault: pid_next is lowered for every child, not only for those destroyed.
NextAfterExit_any(p) == Min({pid_next} \cup ChildPids(p))

\* pid_next moves down to the lowest entry freed by reaping.
NextAfterExit(p) == Min({pid_next} \cup PidsOf(Zombies(p)))

sys__exit(t) ==
  \E code \in Codes :
    LET p == t_proc[t] IN
    /\ pc[t] = "user"
    /\ ExitDefined(p)
    /\ exit_entries(p, code)
    /\ pid_next' = NextAfterExit(p)
    /\ exitcode' = [exitcode EXCEPT ![p] = code]
    /\ cv_broadcast(t)
    /\ UNCHANGED <<p_pid, children, t_proc, arg, answer, failures>>

\* thread_exit and proc_remthread: needs the proc structure once more.  The
\* thread is then exorcised and destroyed.
thread_exit(t) ==
  /\ pc[t] = "thread_exit"
  /\ t_proc[t] \in allocated
  /\ t_proc' = [t_proc EXCEPT ![t] = NULL]
  /\ Goto(t, "free")
  /\ UNCHANGED <<tableVars, procVars, arg, histVars>>

Kernel(t) ==
  \/ fork_copy(t) \/ fork_copy_fails(t) \/ fork_trapframe_fails(t)
  \/ fork_thread(t) \/ fork_thread_fails(t) \/ fork_freepid(t)
  \/ run_thread(t) \/ run_thread_fails(t) \/ load(t) \/ load_fails(t)
  \/ wait_refused(t) \/ wait_check(t) \/ wait_sleep(t) \/ wait_return(t)
  \/ thread_exit(t)

Next == \E t \in Threads :
  Kernel(t) \/ sys_fork(t) \/ run_program(t) \/ sys_waitpid(t) \/ sys__exit(t)

Spec == Init /\ [][Next]_vars

-----------------------------------------------------------------------------
(* Properties *)
\* The pid that the next fork will hand out belongs to no process, dead or
\* alive (the scan in proc_table_add, the update in proc_table_update_children).
NextPidNotInUse == pid_next \in Pids => status[pid_next] = "READY"

\* The structures of processes that thread t runs in or is creating.
Holds(t, p) ==
  \/ pc[t] \in {"user", "load", "fork_copy", "fork_thread", "fork_freepid", "wait_check",
                "wait_loop", "waiting"} /\ t # menu /\ p = t_proc[t]
  \/ pc[t] \in {"fork_copy", "fork_thread", "run_thread"} /\ p = arg[t]

\* Every process that runs or is being created has a structure and a table
\* entry of its own: fork gives it "a new, unique process id", even while
\* freed structures and entries are handed out again.
UniquePids ==
  \A t, u \in Threads : \A p, q \in Procs :
    Holds(t, p) /\ Holds(u, q) =>
      /\ p \in allocated /\ status[p_pid[p]] \in {"RUNNING", "ORPHAN"}
      /\ p_pid[p] = p_pid[q] => p = q
      /\ p = q => t = u

Alive(p) == p = kproc \/ \E i \in Pids : proc[i] = p /\ status[i] \in {"RUNNING", "ORPHAN"}
Parents(q) == {p \in allocated : Alive(p) /\ q \in Range(children[p])}

\* An entry is RUNNING or ZOMBIE exactly when one living process has it as a
\* child, and ORPHAN when none has: nobody is left to wait for an orphan, and
\* no zombie is left that nobody will reap.  (Outside the property is a creation
\* that runs out of memory half-way: it leaves an entry behind, or a process
\* that runs and that array_add could not record among its parent's children.)
StatusMatchesParent ==
  failures = 0 => \A i \in Pids :
    /\ status[i] \in {"RUNNING", "ZOMBIE"} => Cardinality(Parents(proc[i])) = 1
    /\ status[i] = "ORPHAN" => Parents(proc[i]) = {}

\* As long as no creation ran out of memory half-way, no living process runs into a
\* panic or a stale child in sys__exit: "Tried to modify a child that did not
\* exist" and "Tried to remove a bad process".
ExitNeverPanics == failures = 0 => \A p \in Procs \ {kproc} : Alive(p) => ExitDefined(p)

\* What waitpid hands back is the code the awaited process exited with.
WaitAnswerIsExitCode ==
  \A t \in Threads : answer[t] # NULL => answer[t].code = answer[t].exited /\ answer[t].code # NULL

\* While a parent is inside waitpid the pid stays that of its child: it is
\* neither freed nor handed to another process, although the checks were made
\* without the lock.  (A creation that runs out of memory leaves its structure
\* among the children of the process, where it may come to stand for the child
\* of another.)
PidNotReusedUnderWaiter ==
  failures = 0 =>
    \A t \in Threads : pc[t] \in {"wait_loop", "waiting"} => IsChild(t, arg[t])

\* pid_available counts the entries that are free, over every path by which
\* one is taken or given back: a fork is refused with ENPROC only when none is.
AvailableExact == pid_available = Cardinality({i \in Pids : status[i] = "READY"})

\* Pids name one process at a time: for fork, which hands them out, for the
\* processes that have them and for the parents that wait for them
\* (proc_table_add, proc_table_freepid, sys_waitpid).
PidsSound == NextPidNotInUse /\ AvailableExact /\ UniquePids /\ PidNotReusedUnderWaiter

\* Every entry's status agrees with who is alive to wait for it, so that no
\* exit runs into an entry it did not expect (proc_table_update_children).
ExitsSound == StatusMatchesParent /\ ExitNeverPanics

\* The process table names processes and their states as the calls rely on.
TableSound == PidsSound /\ ExitsSound

\* No parent sleeps on the condition variable for a child that is a zombie:
\* the broadcast of sys__exit is never missed.
NoMissedExit == \A t \in Threads : pc[t] = "waiting" => status[arg[t]] # "ZOMBIE"
=============================================================================

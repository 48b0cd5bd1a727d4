--------------------------- MODULE ProcTableSteps ---------------------------
(***************************************************************************)
(* The inductive invariant of ProcTableInv is kept when a new thread takes *)
(* its process over and when a creation fails half-way.  Then: what the    *)
(* exit of a process does to the types and to who holds what.              *)
(***************************************************************************)
EXTENDS ProcTableInv

-----------------------------------------------------------------------------
(* The new thread takes the structure over from the one that made it *)
\* fork_thread and run_thread keep the invariant.
LEMMA HandoverInv ==
  ASSUME IInv, NEW t \in Threads, fork_thread(t) \/ run_thread(t)
  PROVE  IInv'
<1> USE DEF IInv, TypesInv, OwnersInv, CallsInv
<1>1. PICK u \in Threads :
        /\ pc[u] = "free"
        /\ \/ pc[t] = "fork_thread" /\ pc' = [pc EXCEPT ![t] = "user", ![u] = "user"]
                                    /\ arg' = [arg EXCEPT ![t] = NULL]
           \/ pc[t] = "run_thread" /\ pc' = [pc EXCEPT ![t] = "wait_check", ![u] = "load"]
                                   /\ arg' = [arg EXCEPT ![t] = p_pid[arg[t]]]
        /\ t_proc' = [t_proc EXCEPT ![u] = arg[t]]
        /\ answer' = [answer EXCEPT ![u] = NULL]
  BY DEF fork_thread, run_thread
<1>2. UNCHANGED <<tableVars, procVars, exitcode, failures>>
  BY DEF fork_thread, run_thread
<1>3. /\ u # menu /\ u # t
      /\ arg[t] \in Users /\ arg[t] # t_proc[t] /\ Holds(t, arg[t])
      /\ p_pid[arg[t]] \in Pids
      /\ pc[t] = "run_thread" => t = menu
      /\ pc[t] = "fork_thread" => t # menu
  BY <1>1, ProcTableAssumption DEF ThreadsInv, MenuLabels, UserLabels, Holds, HeldInv, Users
<1>4. ThreadsInv'
  BY <1>1, <1>3, ProcTableAssumption DEF ThreadsInv, MenuLabels, UserLabels, Users
<1>5. (TableTypeOK /\ ProcsTypeOK /\ ChildrenInv)'
  BY <1>2 DEF tableVars, procVars, TableTypeOK, ProcsTypeOK, ChildrenInv
<1>6. \A v \in Threads, p \in Procs :
        Holds(v, p)' => IF v = u THEN p = arg[t] ELSE Holds(v, p) /\ p # arg[t]
  BY <1>1, <1>3 DEF Holds, ThreadsInv, HeldInv, MenuLabels, UserLabels
<1>7. HeldInv'
  BY <1>2, <1>3, <1>6 DEF HeldInv, tableVars, procVars
<1>8. \A v \in Threads : pc'[v] = "fork_freepid" => pc[v] = "fork_freepid" /\ arg'[v] = arg[v]
  BY <1>1 DEF ThreadsInv
<1>9. FreepidInv'
  BY <1>2, <1>3, <1>6, <1>8 DEF FreepidInv, tableVars, procVars, Users
<1>10. (NextPidNotInUse /\ ZombieInv /\ AvailableExact)'
  BY <1>2 DEF NextPidNotInUse, ZombieInv, AvailableExact, tableVars, procVars
<1>11. CleanInv'
  <2>1. \A p : Alive(p)' <=> Alive(p)
    BY <1>2 DEF Alive, tableVars
  <2>2. Clean => Clean'
    BY <1>2, <1>8, <2>1 DEF Clean, EntriesInv, FamilyInv, ParentInv, tableVars, procVars
  <2>3. QED
    BY <1>2, <2>2 DEF CleanInv
<1>12. WaitAnswerIsExitCode'
  BY <1>1 DEF WaitAnswerIsExitCode, ThreadsInv
<1>13. \A v \in Threads : pc'[v] \in {"wait_loop", "waiting"} =>
         pc[v] = pc'[v] /\ arg'[v] = arg[v] /\ t_proc'[v] = t_proc[v]
  BY <1>1 DEF ThreadsInv
<1>14. (NoMissedExit /\ PidNotReusedUnderWaiter)'
  BY <1>2, <1>13 DEF NoMissedExit, PidNotReusedUnderWaiter, IsChild, tableVars, procVars
<1>15. QED
  BY <1>4, <1>5, <1>7, <1>9, <1>10, <1>11, <1>12, <1>14

-----------------------------------------------------------------------------
(* A creation fails: the structure is freed, and later perhaps its entry *)
LEMMA FreeStructureInv ==
  ASSUME IInv, NEW t \in Threads,
         fork_copy_fails(t) \/ run_thread_fails(t) \/ fork_thread_fails(t)
  PROVE  IInv'
<1> USE DEF IInv, TypesInv, OwnersInv, CallsInv
<1>1. /\ pc[t] \in {"fork_copy", "run_thread", "fork_thread"}
      /\ allocated' = allocated \ {arg[t]}
      /\ failures' = failures + 1
      /\ \/ pc' = [pc EXCEPT ![t] = Resume(t)] /\ arg' = [arg EXCEPT ![t] = NULL]
         \/ /\ pc[t] = "fork_thread"
            /\ pc' = [pc EXCEPT ![t] = "fork_freepid"]
            /\ arg' = [arg EXCEPT ![t] = p_pid[arg[t]]]
      /\ UNCHANGED <<tableVars, p_pid, children, t_proc, exitcode, answer>>
  BY DEF fork_copy_fails, run_thread_fails, fork_thread_fails, Fails, Finish, Goto
<1>2. /\ arg[t] \in Users /\ arg[t] # t_proc[t] /\ Holds(t, arg[t])
      /\ p_pid[arg[t]] \in Pids /\ proc[p_pid[arg[t]]] = arg[t]
      /\ status[p_pid[arg[t]]] \in {"RUNNING", "ORPHAN"}
  BY <1>1, ProcTableAssumption DEF ThreadsInv, Holds, HeldInv, Users
<1>3. ThreadsInv'
  BY <1>1, <1>2, ProcTableAssumption DEF ThreadsInv, MenuLabels, UserLabels, Users, Resume
<1>4. (TableTypeOK /\ ProcsTypeOK /\ ChildrenInv)'
  BY <1>1, <1>2 DEF tableVars, TableTypeOK, ProcsTypeOK, ChildrenInv, Users
<1>5. \A v \in Threads, p \in Procs : Holds(v, p)' => Holds(v, p) /\ p # arg[t]
  BY <1>1, <1>2, ProcTableAssumption
  DEF Holds, ThreadsInv, HeldInv, MenuLabels, UserLabels, Resume
<1>6. HeldInv'
  BY <1>1, <1>5 DEF HeldInv, tableVars
<1>7. \A v \in Threads : pc'[v] = "fork_freepid" =>
        IF v = t THEN arg'[v] = p_pid[arg[t]] ELSE pc[v] = "fork_freepid" /\ arg'[v] = arg[v]
  BY <1>1 DEF ThreadsInv, Resume
<1>8. FreepidInv'
  <2>1. \A v \in Threads, p \in Procs : Holds(v, p)' => p_pid[p] # p_pid[arg[t]]
    BY <1>2, <1>5 DEF HeldInv
  <2>2. \A v \in Threads : pc[v] = "fork_freepid" => arg[v] # p_pid[arg[t]]
    BY <1>2 DEF FreepidInv, Users
  <2>3. QED
    BY <1>1, <1>2, <1>5, <1>7, <2>1, <2>2 DEF FreepidInv, tableVars
<1>9. (NextPidNotInUse /\ ZombieInv /\ AvailableExact)'
  BY <1>1, <1>2 DEF NextPidNotInUse, ZombieInv, AvailableExact, tableVars
<1>10. CleanInv' /\ PidNotReusedUnderWaiter'
  BY <1>1 DEF CleanInv, PidNotReusedUnderWaiter, ProcsTypeOK
<1>11. WaitAnswerIsExitCode' /\ NoMissedExit'
  BY <1>1 DEF WaitAnswerIsExitCode, NoMissedExit, tableVars, ThreadsInv, Resume
<1>12. QED
  BY <1>3, <1>4, <1>6, <1>8, <1>9, <1>10, <1>11

\* fork_freepid keeps the invariant: the entry is still the failed fork's own.
LEMMA FreepidStepInv ==
  ASSUME TableFacts, IInv, NEW t \in Threads, fork_freepid(t)
  PROVE  IInv'
<1> USE DEF IInv, TypesInv, OwnersInv, CallsInv
<1> DEFINE i0 == arg[t]
<1>1. /\ pc[t] = "fork_freepid" /\ i0 \in Pids /\ t # menu
      /\ status[i0] \in {"RUNNING", "ORPHAN"}
      /\ \A u \in Threads, p \in Procs : Holds(u, p) => p_pid[p] # i0
      /\ \A u \in Threads : pc[u] = "fork_freepid" /\ arg[u] = i0 => u = t
  BY DEF fork_freepid, ThreadsInv, FreepidInv, MenuLabels
<1>2. /\ pc' = [pc EXCEPT ![t] = "user"] /\ arg' = [arg EXCEPT ![t] = NULL]
      /\ status' = [i \in Pids |-> IF i = i0 THEN "READY" ELSE status[i]]
      /\ proc' = [i \in Pids |-> IF i = i0 THEN NULL ELSE proc[i]]
      /\ waitcode' = [i \in Pids |-> IF i = i0 THEN NULL ELSE waitcode[i]]
      /\ pid_available' = pid_available + Cardinality({i0})
      /\ UNCHANGED <<pid_next, procVars, t_proc, histVars>>
  BY <1>1 DEF fork_freepid, clear_pid, Finish, Goto, Resume
<1>3. ThreadsInv'
  BY <1>1, <1>2, ProcTableAssumption DEF ThreadsInv, MenuLabels, UserLabels, histVars
<1>4. TableTypeOK'
  BY <1>2 DEF TableTypeOK, Statuses
<1>5. (ProcsTypeOK /\ ChildrenInv)'
  BY <1>2 DEF procVars, histVars, ProcsTypeOK, ChildrenInv
<1>6. \A v \in Threads, p \in Procs : Holds(v, p)' => Holds(v, p)
  BY <1>1, <1>2 DEF Holds, ThreadsInv
<1>7. HeldInv'
  BY <1>1, <1>2, <1>6 DEF HeldInv, procVars, TableTypeOK
<1>8. FreepidInv'
  BY <1>1, <1>2, <1>6 DEF FreepidInv, procVars, ThreadsInv
<1>9. (NextPidNotInUse /\ ZombieInv)'
  BY <1>1, <1>2 DEF NextPidNotInUse, ZombieInv, procVars, histVars
<1>10. AvailableExact'
  <2> DEFINE S == {i \in Pids : status[i] = "READY"}
  <2>1. {i \in Pids : status'[i] = "READY"} = S \cup {i0} /\ S \cap {i0} = {}
    BY <1>1, <1>2
  <2>2. Cardinality(S \cup {i0}) = Cardinality(S) + Cardinality({i0})
    BY <1>1, <2>1 DEF TableFacts
  <2>3. QED
    BY SMTT(30), <1>2, <2>1, <2>2 DEF AvailableExact
<1>11. CleanInv' /\ PidNotReusedUnderWaiter'
  BY <1>1, <1>2 DEF CleanInv, Clean, EntriesInv, PidNotReusedUnderWaiter, histVars
<1>12. WaitAnswerIsExitCode' /\ NoMissedExit'
  BY <1>1, <1>2 DEF WaitAnswerIsExitCode, NoMissedExit, histVars, ThreadsInv
<1>13. QED
  BY <1>3, <1>4, <1>5, <1>7, <1>8, <1>9, <1>10, <1>11, <1>12

-----------------------------------------------------------------------------
(* A process exits *)
\* The exit of process p with its entry own: the structures dead are freed,
\* and the entries gone.
Exiting(t, p, code, own, dead, gone) ==
  /\ p = t_proc[t] /\ own = p_pid[p] /\ dead = Destroyed(p) /\ gone = PidsOf(dead)
  /\ pc[t] = "user" /\ t # menu /\ p \in Users /\ Holds(t, p)
  /\ p \in allocated /\ own \in Pids /\ proc[own] = p /\ status[own] \in {"RUNNING", "ORPHAN"}
  /\ gone \subseteq Pids
  /\ \A i \in gone : status[i] = "ZOMBIE" \/ i = own
  /\ own \in gone <=> status[own] = "ORPHAN"
  /\ \A z \in dead : z \in Users /\ p_pid[z] \in gone
  /\ \A z \in Zombies(p) : z \in Range(children[p]) /\ p_pid[z] \in gone /\ status[p_pid[z]] = "ZOMBIE"
  /\ status' = [i \in Pids |-> IF i \in gone THEN "READY" ELSE IF i = own THEN "ZOMBIE"
                               ELSE IF i \in ChildPids(p) /\ status[i] = "RUNNING" THEN "ORPHAN"
                               ELSE status[i]]
  /\ proc' = [i \in Pids |-> IF i \in gone THEN NULL ELSE proc[i]]
  /\ waitcode' = [i \in Pids |-> IF i \in gone THEN NULL ELSE IF i = own THEN code ELSE waitcode[i]]
  /\ pid_available' = pid_available + Cardinality(gone)
  /\ allocated' = allocated \ dead
  /\ exitcode' = [exitcode EXCEPT ![p] = code]
  /\ pid_next' = NextAfterExit(p)
  /\ pc' = [u \in Threads |-> IF u = t THEN "thread_exit"
                              ELSE IF pc[u] = "waiting" THEN "wait_loop" ELSE pc[u]]
  /\ UNCHANGED <<p_pid, children, t_proc, arg, answer, failures>>

\* That is what sys__exit does.
LEMMA ExitIsExiting ==
  ASSUME IInv, NEW t \in Threads, sys__exit(t)
  PROVE  \E code \in Codes :
           Exiting(t, t_proc[t], code, p_pid[t_proc[t]], Destroyed(t_proc[t]),
                   PidsOf(Destroyed(t_proc[t])))
<1> USE DEF IInv, TypesInv, OwnersInv
<1> DEFINE p == t_proc[t]
           own == p_pid[p]
           gone == PidsOf(Destroyed(p))
<1>1. PICK code \in Codes :
        /\ exit_entries(p, code)
        /\ exitcode' = [exitcode EXCEPT ![p] = code]
  BY Zenon DEF sys__exit
<1>2. /\ pc[t] = "user"
      /\ pid_next' = NextAfterExit(p)
      /\ pc' = [u \in Threads |-> IF u = t THEN "thread_exit"
                                  ELSE IF pc[u] = "waiting" THEN "wait_loop" ELSE pc[u]]
      /\ UNCHANGED <<p_pid, children, t_proc, arg, answer, failures>>
  BY DEF sys__exit, cv_broadcast
<1>3. /\ t # menu /\ p \in Users /\ p \in Procs /\ p # kproc /\ Holds(t, p)
      /\ p \in allocated /\ own \in Pids /\ proc[own] = p
      /\ status[own] \in {"RUNNING", "ORPHAN"}
  <2>1. t # menu /\ p \in Users
    BY <1>2 DEF ThreadsInv, MenuLabels
  <2>2. Holds(t, p)
    BY <1>2, <2>1 DEF Holds
  <2>3. QED
    BY <2>1, <2>2 DEF HeldInv, Users
<1>4. \A z \in Zombies(p) : /\ z \in Range(children[p]) /\ z \in Users /\ z \in Procs
                            /\ p_pid[z] \in Pids
                            /\ status[p_pid[z]] = "ZOMBIE"
  BY Zenon, <1>3, ChildrenAreUsers DEF Zombies, ChildrenInv, ProcsTypeOK, Users
<1>5. /\ gone \subseteq Pids
      /\ \A i \in gone : status[i] = "ZOMBIE" \/ i = own
      /\ own \in gone <=> status[own] = "ORPHAN"
      /\ \A z \in Destroyed(p) : z \in Users /\ p_pid[z] \in gone
      /\ \A z \in Zombies(p) : p_pid[z] \in gone
  BY <1>3, <1>4 DEF PidsOf, Destroyed
<1>6. status' = [i \in Pids |-> IF i \in gone THEN "READY" ELSE IF i = own THEN "ZOMBIE"
                                ELSE IF i \in ChildPids(p) /\ status[i] = "RUNNING" THEN "ORPHAN"
                                ELSE status[i]]
  BY <1>1 DEF exit_entries, update_children
<1>7. /\ proc' = [i \in Pids |-> IF i \in gone THEN NULL ELSE proc[i]]
      /\ waitcode' = [i \in Pids |-> IF i \in gone THEN NULL
                                     ELSE IF i = own THEN code ELSE waitcode[i]]
      /\ pid_available' = pid_available + Cardinality(gone)
      /\ allocated' = allocated \ Destroyed(p)
  BY <1>1 DEF exit_entries
<1>8. Exiting(t, p, code, own, Destroyed(p), gone)
  BY Zenon, <1>1, <1>2, <1>3, <1>4, <1>5, <1>6, <1>7 DEF Exiting
<1>9. QED
  BY <1>8

\* The lowest free entry afterwards.
LEMMA ExitNext ==
  ASSUME TableFacts, IInv, NEW p \in Users, NEW gone \in SUBSET Pids,
         \A z \in Zombies(p) : p_pid[z] \in gone
  PROVE  /\ NextAfterExit(p) \in PID_MIN .. OutOfTable
         /\ NextAfterExit(p) = pid_next \/ NextAfterExit(p) \in gone
<1>1. PidsOf(Zombies(p)) \subseteq gone
  BY DEF PidsOf
<1>2. PID_MIN .. OutOfTable \subseteq Nat
  BY ProcTableAssumption DEF PID_MIN, OutOfTable
<1>3. pid_next \in PID_MIN .. OutOfTable /\ gone \subseteq PID_MIN .. OutOfTable
  BY PidsRange DEF IInv, TypesInv, TableTypeOK
<1>4. ({pid_next} \cup PidsOf(Zombies(p))) \in SUBSET Nat
  BY Zenon, <1>1, <1>2, <1>3
<1>5. NextAfterExit(p) \in {pid_next} \cup PidsOf(Zombies(p))
  BY <1>4 DEF TableFacts, NextAfterExit
<1>6. QED
  BY Zenon, <1>1, <1>3, <1>5

\* The types after it
LEMMA ExitTypes ==
  ASSUME TableFacts, IInv, NEW t \in Threads, NEW p, NEW code \in Codes, NEW own, NEW dead, NEW gone,
         Exiting(t, p, code, own, dead, gone)
  PROVE  TypesInv'
<1> USE DEF IInv, TypesInv
<1>1. TableTypeOK'
  <2>1. pid_next' \in PID_MIN .. OutOfTable
    BY ExitNext DEF Exiting
  <2>2. status' \in [Pids -> Statuses]
    BY DEF Exiting, TableTypeOK, Statuses
  <2>3. QED
    BY <2>1, <2>2 DEF Exiting, TableTypeOK
<1>2. ProcsTypeOK'
  BY DEF Exiting, ProcsTypeOK, Users
<1>3. ChildrenInv'
  BY DEF Exiting, ChildrenInv
<1>4. ThreadsInv'
  <2>1. pc' \in [Threads -> MenuLabels \cup UserLabels]
    BY DEF Exiting, ThreadsInv, MenuLabels, UserLabels
  <2>2. UNCHANGED <<t_proc, arg, answer>> /\ pc[t] = "user" /\ t # menu
    BY DEF Exiting
  <2>3. \A u \in Threads : \/ pc'[u] = pc[u]
                           \/ u = t /\ pc'[u] = "thread_exit"
                           \/ pc[u] = "waiting" /\ pc'[u] = "wait_loop"
    BY DEF Exiting
  <2>4. QED
    BY <2>1, <2>2, <2>3, ProcTableAssumption DEF ThreadsInv, MenuLabels, UserLabels
<1>5. QED
  BY <1>1, <1>2, <1>3, <1>4

\* Who still holds something did so before, and it is not what went.
LEMMA ExitHolders ==
  ASSUME IInv, NEW t \in Threads, NEW p, NEW code \in Codes, NEW own, NEW dead, NEW gone,
         Exiting(t, p, code, own, dead, gone),
         NEW u \in Threads, NEW q \in Procs, Holds(u, q)'
  PROVE  /\ Holds(u, q) /\ u # t /\ q # p /\ p_pid[q] # own
         /\ p_pid[q] \notin gone /\ q \notin dead
<1>1. Holds(u, q) /\ u # t
  BY DEF Exiting, Holds, IInv, TypesInv, ThreadsInv
<1>2. /\ p_pid[q] \in Pids /\ proc[p_pid[q]] = q /\ status[p_pid[q]] \in {"RUNNING", "ORPHAN"}
      /\ q # p
  BY <1>1 DEF Exiting, IInv, OwnersInv, HeldInv, Users
<1>3. QED
  BY <1>1, <1>2 DEF Exiting
=============================================================================

--------------------------- MODULE ProcTableInv ----------------------------
(***************************************************************************)
(* The inductive invariant of the process table, for any number of         *)
(* processes, threads and entries and any number of creations that fail    *)
(* half-way.  The creation of a process keeps it, and so does every step   *)
(* that leaves the table and the structures alone.                         *)
(*                                                                         *)
(* TableSound speaks of what fork, waitpid and _exit see.  It is kept      *)
(* because every process that runs or is being created owns its structure  *)
(* and its entry (HeldInv), because a zombie's entry still names its       *)
(* structure (ZombieInv), and, until a creation fails half-way, because    *)
(* the living processes share out the entries among them (CleanInv).       *)
(***************************************************************************)
EXTENDS ProcTable, TLAPS

Statuses == {"READY", "RUNNING", "ZOMBIE", "ORPHAN"}
Users == Procs \ {kproc}
MenuLabels == {"menu", "run_thread", "wait_check", "wait_loop", "waiting"}
UserLabels == {"free", "user", "load", "fork_copy", "fork_thread", "fork_freepid",
               "wait_check", "wait_loop", "waiting", "thread_exit"}

TableTypeOK ==
  /\ status \in [Pids -> Statuses]
  /\ proc \in [Pids -> Users \cup {NULL}]
  /\ waitcode \in [Pids -> Codes \cup {NULL}]
  /\ pid_next \in PID_MIN .. OutOfTable

ProcsTypeOK ==
  /\ allocated \in SUBSET Procs /\ kproc \in allocated
  /\ p_pid \in [Procs -> Int]
  /\ children \in [Procs -> Seq(Users)]
  /\ exitcode \in [Procs -> Codes \cup {NULL}]
  /\ failures \in Nat

\* Whose thread is whose, and what the system calls are about.
ThreadsInv ==
  /\ t_proc \in [Threads -> Procs \cup {NULL}]
  /\ pc \in [Threads -> MenuLabels \cup UserLabels]
  /\ arg \in [Threads -> Users \cup Pids \cup {OutOfTable, NULL}]
  /\ DOMAIN answer = Threads
  /\ t_proc[menu] = kproc /\ pc[menu] \in MenuLabels
  /\ \A t \in Threads \ {menu} :
       pc[t] \in UserLabels /\ (pc[t] # "free" => t_proc[t] \in Users)
  /\ \A t \in Threads :
       /\ pc[t] \in {"fork_copy", "fork_thread", "run_thread"} =>
            arg[t] \in Users /\ arg[t] # t_proc[t]
       /\ pc[t] \in {"fork_freepid", "wait_loop", "waiting"} => arg[t] \in Pids
       /\ pc[t] = "wait_check" => arg[t] \in Pids \cup {OutOfTable}

\* Every child has had an entry.
ChildrenInv == \A p \in Procs : \A c \in Range(children[p]) : p_pid[c] \in Pids

\* A process that runs or is being created owns its structure and its entry.
HeldInv ==
  /\ \A t \in Threads, p \in Procs : Holds(t, p) =>
       /\ p \in allocated \ {kproc}
       /\ p_pid[p] \in Pids
       /\ proc[p_pid[p]] = p
       /\ status[p_pid[p]] \in {"RUNNING", "ORPHAN"}
  /\ \A t, u \in Threads, p \in Procs : Holds(t, p) /\ Holds(u, p) => t = u

\* The entry that a failed fork is about to give back is still its own.
FreepidInv ==
  \A t \in Threads : pc[t] = "fork_freepid" =>
    /\ status[arg[t]] \in {"RUNNING", "ORPHAN"}
    /\ \A u \in Threads, p \in Procs : Holds(u, p) => p_pid[p] # arg[t]
    /\ \A u \in Threads : pc[u] = "fork_freepid" /\ arg[u] = arg[t] => u = t

\* A zombie's entry names its structure and keeps its exit code.
ZombieInv ==
  \A i \in Pids : status[i] = "ZOMBIE" =>
    /\ proc[i] \in allocated
    /\ p_pid[proc[i]] = i
    /\ waitcode[i] \in Codes /\ waitcode[i] = exitcode[proc[i]]

\* Without failures an entry in use and its structure name each other,
EntriesInv ==
  /\ \A t \in Threads : pc[t] # "fork_freepid"
  /\ \A i \in Pids : status[i] = "READY" => proc[i] = NULL
  /\ \A i \in Pids : status[i] # "READY" => proc[i] \in allocated /\ p_pid[proc[i]] = i

\* the children of a living process are there once each, with their entries,
FamilyInv ==
  \A p \in Procs : Alive(p) =>
    /\ IsInjective(children[p])
    /\ p \notin Range(children[p])
    /\ \A c \in Range(children[p]) :
         c \in allocated /\ proc[p_pid[c]] = c /\ status[p_pid[c]] \in {"RUNNING", "ZOMBIE"}

\* no two living processes share a child, and an entry that somebody should
\* wait for or reap has a living parent.
ParentInv ==
  /\ \A p, q \in Procs : Alive(p) /\ Alive(q) =>
       \A c \in Range(children[p]) \cap Range(children[q]) : p = q
  /\ \A i \in Pids : status[i] \in {"RUNNING", "ZOMBIE"} =>
       \E p \in Procs : Alive(p) /\ proc[i] \in Range(children[p])

Clean == EntriesInv /\ FamilyInv /\ ParentInv
CleanInv == failures = 0 => Clean

TypesInv == TableTypeOK /\ ProcsTypeOK /\ ThreadsInv /\ ChildrenInv
OwnersInv == NextPidNotInUse /\ HeldInv /\ FreepidInv /\ ZombieInv /\ AvailableExact
CallsInv == WaitAnswerIsExitCode /\ NoMissedExit /\ PidNotReusedUnderWaiter

IInv == TypesInv /\ OwnersInv /\ CleanInv /\ CallsInv

-----------------------------------------------------------------------------
(* Sequences, sets and the minimum *)
\* What the proofs use of sets of numbers: ScanForReady and NextAfterExit
\* find the least one, and pid_available counts entries.  ProcTableProofs
\* shows that this is so.
TableFacts ==
  /\ \A S \in SUBSET Nat : S # {} => Min(S) \in S
  /\ \A i \in Pids : Cardinality({i}) = 1
  /\ \A S, G \in SUBSET Pids :
       /\ S \cap G = {} => Cardinality(S \cup G) = Cardinality(S) + Cardinality(G)
       /\ G \subseteq S => Cardinality(S \ G) = Cardinality(S) - Cardinality(G)

\* The array of children after a new one is added.
LEMMA AppendChild ==
  ASSUME NEW s \in Seq(Users), NEW c \in Users
  PROVE  /\ Append(s, c) \in Seq(Users)
         /\ Range(Append(s, c)) = Range(s) \cup {c}
         /\ IsInjective(s) /\ c \notin Range(s) => IsInjective(Append(s, c))
<1>1. /\ Append(s, c) \in Seq(Users)
      /\ DOMAIN s = 1 .. Len(s) /\ Len(s) \in Nat
      /\ DOMAIN Append(s, c) = 1 .. Len(s) + 1
      /\ \A i \in 1 .. Len(s) : Append(s, c)[i] = s[i]
      /\ Append(s, c)[Len(s) + 1] = c
  OBVIOUS
<1>2. 1 .. Len(s) + 1 = (1 .. Len(s)) \cup {Len(s) + 1}
  BY <1>1
<1>3. Range(Append(s, c)) = Range(s) \cup {c}
  BY <1>1, <1>2 DEF Range
<1>4. ASSUME IsInjective(s), c \notin Range(s)
      PROVE  IsInjective(Append(s, c))
  BY <1>1, <1>2, <1>4 DEF IsInjective, Range
<1>5. QED
  BY <1>1, <1>3, <1>4

\* The children of a user are users.
LEMMA ChildrenAreUsers ==
  ASSUME NEW s \in Seq(Users)
  PROVE  Range(s) \subseteq Users
BY DEF Range

\* The pids are numbers below the end of the table.
LEMMA PidsRange ==
  /\ Pids \subseteq Nat
  /\ OutOfTable \in Nat /\ OutOfTable \notin Pids
  /\ Pids \subseteq PID_MIN .. OutOfTable /\ OutOfTable \in PID_MIN .. OutOfTable
BY ProcTableAssumption DEF Pids, PID_MIN, OutOfTable

\* The scan ends at a free entry, or behind the table.
LEMMA ScanResult ==
  ASSUME TableFacts, NEW st, NEW from
  PROVE  \/ ScanForReady(st, from) = OutOfTable
         \/ ScanForReady(st, from) \in Pids /\ st[ScanForReady(st, from)] = "READY"
<1>1. CASE \E i \in Pids : i >= from /\ st[i] = "READY"
  <2> DEFINE S == {i \in Pids : i >= from /\ st[i] = "READY"}
  <2>1. S \in SUBSET Nat /\ S # {}
    BY <1>1, ProcTableAssumption DEF Pids, PID_MIN
  <2>2. Min(S) \in S
    BY <2>1 DEF TableFacts
  <2>3. QED
    BY <1>1, <2>2 DEF ScanForReady
<1>2. CASE ~\E i \in Pids : i >= from /\ st[i] = "READY"
  BY <1>2 DEF ScanForReady
<1>3. QED
  BY <1>1, <1>2

\* A living process has a structure, and its entry is the one its pid names.
LEMMA AliveOwns ==
  ASSUME IInv, failures = 0, NEW p \in Procs, Alive(p)
  PROVE  /\ p \in allocated
         /\ p # kproc => /\ p_pid[p] \in Pids /\ proc[p_pid[p]] = p
                         /\ status[p_pid[p]] \in {"RUNNING", "ORPHAN"}
BY DEF IInv, TypesInv, ProcsTypeOK, TableTypeOK, CleanInv, Clean, EntriesInv, Alive

-----------------------------------------------------------------------------
(* A process is created: proc_table_add *)
\* Thread t gives the free structure new the entry next, as a child of parent.
Entering(t, new, next, parent) ==
  /\ next = pid_next /\ parent = t_proc[t]
  /\ next \in Pids /\ status[next] = "READY"
  /\ new \in Users /\ new \notin allocated
  /\ parent \in Procs /\ parent \in allocated /\ parent # new
  /\ parent # kproc => Holds(t, parent)
  /\ \/ pc[t] = "user" /\ t # menu /\ pc' = [pc EXCEPT ![t] = "fork_copy"]
     \/ pc[t] = "menu" /\ t = menu /\ pc' = [pc EXCEPT ![t] = "run_thread"]
  /\ status' = [status EXCEPT ![next] = "RUNNING"]
  /\ proc' = [proc EXCEPT ![next] = new]
  /\ waitcode' = [waitcode EXCEPT ![next] = NULL]
  /\ pid_available' = pid_available - 1
  /\ pid_next' = IF pid_available' > 0 THEN ScanForReady(status', next) ELSE OutOfTable
  /\ \/ /\ children' = [children EXCEPT ![parent] = Append(@, new), ![new] = <<>>]
        /\ failures' = failures
     \/ /\ children' = [children EXCEPT ![new] = <<>>]
        /\ failures' = failures + 1
  /\ p_pid' = [p_pid EXCEPT ![new] = next]
  /\ allocated' = allocated \cup {new}
  /\ exitcode' = [exitcode EXCEPT ![new] = NULL]
  /\ arg' = [arg EXCEPT ![t] = new]
  /\ UNCHANGED <<t_proc, answer>>

\* That is what sys_fork and run_program do.
LEMMA EnterIsEntering ==
  ASSUME IInv, NEW t \in Threads, sys_fork(t) \/ run_program(t)
  PROVE  \E new \in Users : Entering(t, new, pid_next, t_proc[t])
<1> USE DEF IInv, TypesInv, OwnersInv
<1>1. PICK new \in Procs \ allocated :
        /\ \/ pc[t] = "user" /\ t # menu /\ pc' = [pc EXCEPT ![t] = "fork_copy"]
           \/ pc[t] = "menu" /\ t = menu /\ pc' = [pc EXCEPT ![t] = "run_thread"]
        /\ proc_table_add(t_proc[t], new)
        /\ allocated' = allocated \cup {new}
        /\ exitcode' = [exitcode EXCEPT ![new] = NULL]
        /\ arg' = [arg EXCEPT ![t] = new]
        /\ UNCHANGED <<t_proc, answer>>
  BY DEF sys_fork, run_program, fork_enter, Goto, ThreadsInv, MenuLabels
<1>2. pid_next \in Pids /\ status[pid_next] = "READY"
  BY <1>1 DEF proc_table_add, NextPidNotInUse
<1>3. new \in Users
  BY <1>1 DEF ProcsTypeOK, Users
<1>4. t # menu => Holds(t, t_proc[t]) /\ t_proc[t] \in Procs
  BY <1>1 DEF Holds, ThreadsInv, Users
<1>5. t = menu => t_proc[t] = kproc
  BY DEF ThreadsInv
<1>6. /\ t_proc[t] \in Procs /\ t_proc[t] \in allocated /\ t_proc[t] # new
      /\ t_proc[t] # kproc => Holds(t, t_proc[t])
  BY <1>1, <1>4, <1>5, ProcTableAssumption DEF HeldInv, ProcsTypeOK
<1>7. Entering(t, new, pid_next, t_proc[t])
  BY <1>1, <1>2, <1>3, <1>6 DEF Entering, proc_table_add, array_add, Fails
<1>8. QED
  BY <1>3, <1>7

\* The arrays of children, and the pids.
FamiliesAfter(new, next, parent) ==
  /\ children' \in [Procs -> Seq(Users)]
  /\ \A p \in Procs : \A c : c \in Range(children'[p]) =>
       p # new /\ (c \in Range(children[p]) \/ (p = parent /\ c = new))
  /\ \A p \in Procs \ {new} : Range(children[p]) \subseteq Range(children'[p])
  /\ failures' = failures => new \in Range(children'[parent])
  /\ IsInjective(children'[new])
  /\ \A p \in Procs \ {new} : IsInjective(children[p]) /\ new \notin Range(children[p]) =>
       IsInjective(children'[p])
  /\ \A p \in Procs : p_pid'[p] = IF p = new THEN next ELSE p_pid[p]

\* The new process is its parent's last child unless memory ran out, and has
\* none itself.
LEMMA EnterChildren ==
  ASSUME IInv, NEW t \in Threads, NEW new, NEW next, NEW parent,
         Entering(t, new, next, parent)
  PROVE  FamiliesAfter(new, next, parent)
<1> USE DEF IInv, TypesInv, ProcsTypeOK
<1>1. new \in Users /\ new \in Procs /\ parent \in Procs /\ parent # new
  BY DEF Entering, Users
<1>2. children[parent] \in Seq(Users)
  BY <1>1
<1>3. /\ children'[new] = <<>>
      /\ \/ children'[parent] = Append(children[parent], new)
         \/ children'[parent] = children[parent] /\ failures' = failures + 1
      /\ \A p \in Procs \ {new, parent} : children'[p] = children[p]
      /\ DOMAIN children' = Procs /\ children' = [p \in Procs |-> children'[p]]
  BY Zenon, <1>1 DEF Entering
<1>4. Range(<<>>) = {} /\ <<>> \in Seq(Users) /\ IsInjective(<<>>)
  BY DEF Range, IsInjective
<1>5. /\ children'[parent] \in Seq(Users)
      /\ Range(children[parent]) \subseteq Range(children'[parent])
      /\ Range(children'[parent]) \subseteq Range(children[parent]) \cup {new}
      /\ failures' = failures => new \in Range(children'[parent])
      /\ IsInjective(children[parent]) /\ new \notin Range(children[parent]) =>
           IsInjective(children'[parent])
  <2>1. CASE children'[parent] = Append(children[parent], new)
    BY <1>1, <1>2, <2>1, AppendChild
  <2>2. CASE children'[parent] = children[parent] /\ failures' = failures + 1
    BY <1>2, <2>2
  <2>3. QED
    BY <1>3, <2>1, <2>2
<1>6. \A p \in Procs : p_pid'[p] = IF p = new THEN next ELSE p_pid[p]
  BY <1>1 DEF Entering
<1>7. \A p \in Procs : children'[p] \in Seq(Users)
  BY Zenon, <1>3, <1>4, <1>5
<1>8. children' \in [Procs -> Seq(Users)]
  BY <1>3, <1>7
<1>9. QED
  BY Zenon, <1>1, <1>3, <1>4, <1>5, <1>6, <1>8 DEF FamiliesAfter

\* The types after it
LEMMA EnterTypes ==
  ASSUME TableFacts, IInv, NEW t \in Threads, NEW new, NEW next, NEW parent,
         Entering(t, new, next, parent)
  PROVE  TypesInv'
<1>0. FamiliesAfter(new, next, parent)
  BY EnterChildren
<1> USE DEF IInv, TypesInv
<1>1. ThreadsInv'
  BY ProcTableAssumption DEF Entering, ThreadsInv, MenuLabels, UserLabels, Users
<1>2. TableTypeOK'
  <2>1. pid_next' \in PID_MIN .. OutOfTable
    BY Zenon, ScanResult, PidsRange DEF Entering
  <2>2. QED
    BY <2>1 DEF Entering, TableTypeOK, Statuses
<1>3. ProcsTypeOK'
  <2>1. next \in Int
    BY PidsRange DEF Entering
  <2>2. p_pid' \in [Procs -> Int]
    BY Zenon, <2>1 DEF Entering, ProcsTypeOK
  <2>3. exitcode' \in [Procs -> Codes \cup {NULL}]
    BY Zenon DEF Entering, ProcsTypeOK
  <2>4. allocated' \in SUBSET Procs /\ kproc \in allocated' /\ failures' \in Nat
    BY DEF Entering, ProcsTypeOK, Users
  <2>5. QED
    BY <1>0, <2>2, <2>3, <2>4 DEF ProcsTypeOK, FamiliesAfter
<1>4. ChildrenInv'
  <2>1. \A p \in Procs : Range(children[p]) \subseteq Users
    BY ChildrenAreUsers DEF ProcsTypeOK
  <2>2. new \in Procs /\ parent \in Procs /\ next \in Pids
    BY DEF Entering, Users
  <2>3. ASSUME NEW p \in Procs, NEW c \in Range(children'[p]) PROVE p_pid'[c] \in Pids
    <3>1. c = new \/ c \in Range(children[p])
      BY <1>0, <2>2, <2>3 DEF FamiliesAfter
    <3>2. QED
      BY Zenon, <1>0, <2>1, <2>2, <3>1 DEF ChildrenInv, Users, FamiliesAfter
  <2>4. QED
    BY <2>3 DEF ChildrenInv
<1>5. QED
  BY <1>1, <1>2, <1>3, <1>4

\* The new process owns its structure and its entry, and nobody else loses one:
\* pid_next was free.
LEMMA EnterOwners ==
  ASSUME TableFacts, IInv, NEW t \in Threads, NEW new, NEW next, NEW parent,
         Entering(t, new, next, parent)
  PROVE  OwnersInv'
<1>1. FamiliesAfter(new, next, parent)
  BY EnterChildren
<1>1a. \A p \in Procs : p_pid'[p] = IF p = new THEN next ELSE p_pid[p]
  BY <1>1 DEF FamiliesAfter
<1> USE DEF IInv, TypesInv, OwnersInv
<1>2. \A i \in Pids : /\ status'[i] = IF i = next THEN "RUNNING" ELSE status[i]
                      /\ proc'[i] = IF i = next THEN new ELSE proc[i]
  BY DEF Entering, TableTypeOK
<1>3. /\ new \in Procs /\ new # kproc /\ new \notin allocated /\ allocated' = allocated \cup {new}
      /\ next \in Pids /\ status[next] = "READY"
  BY DEF Entering, Users
<1>4. \A v \in Threads, p \in Procs :
         Holds(v, p)' => \/ v = t /\ p = new
                         \/ Holds(v, p) /\ p # new /\ p_pid[p] # next
  <2>1. \A v \in Threads, p \in Procs : Holds(v, p)' => (v = t /\ p = new) \/ Holds(v, p)
    BY DEF Entering, Holds, ThreadsInv
  <2>2. QED
    BY <1>3, <2>1 DEF HeldInv
<1>5. HeldInv'
  <2>1. ASSUME NEW v \in Threads, NEW p \in Procs, Holds(v, p)'
        PROVE  /\ p \in allocated' \ {kproc}
               /\ p_pid'[p] \in Pids
               /\ proc'[p_pid'[p]] = p
               /\ status'[p_pid'[p]] \in {"RUNNING", "ORPHAN"}
    <3>1. CASE p = new
      BY <1>1a, <1>2, <1>3, <3>1
    <3>2. CASE p # new
      <4>1. Holds(v, p) /\ p_pid[p] # next /\ p_pid'[p] = p_pid[p]
        BY <1>1a, <1>4, <2>1, <3>2
      <4>2. /\ p \in allocated \ {kproc} /\ p_pid[p] \in Pids /\ proc[p_pid[p]] = p
            /\ status[p_pid[p]] \in {"RUNNING", "ORPHAN"}
        BY <4>1 DEF HeldInv
      <4>3. QED
        BY <1>2, <1>3, <4>1, <4>2
    <3>3. QED
      BY <3>1, <3>2
  <2>2. ASSUME NEW v \in Threads, NEW w \in Threads, NEW p \in Procs, Holds(v, p)', Holds(w, p)'
        PROVE  v = w
    BY <1>4, <2>2 DEF HeldInv
  <2>3. QED
    BY <2>1, <2>2 DEF HeldInv
<1>6. FreepidInv'
  <2>1. \A v \in Threads : pc'[v] = "fork_freepid" =>
          pc[v] = "fork_freepid" /\ arg'[v] = arg[v] /\ arg[v] \in Pids /\ arg[v] # next
    BY DEF Entering, ThreadsInv, FreepidInv
  <2>2. ASSUME NEW v \in Threads, pc'[v] = "fork_freepid"
        PROVE  status'[arg'[v]] \in {"RUNNING", "ORPHAN"}
    BY <1>2, <2>1, <2>2 DEF FreepidInv
  <2>3. ASSUME NEW v \in Threads, pc'[v] = "fork_freepid", NEW w \in Threads, NEW p \in Procs,
               Holds(w, p)'
        PROVE  p_pid'[p] # arg'[v]
    <3>1. CASE p = new
      BY <1>1a, <2>1, <2>3, <3>1
    <3>2. CASE p # new
      BY <1>1a, <1>4, <2>1, <2>3, <3>2 DEF FreepidInv
    <3>3. QED
      BY <3>1, <3>2
  <2>4. ASSUME NEW v \in Threads, pc'[v] = "fork_freepid", NEW w \in Threads,
               pc'[w] = "fork_freepid", arg'[w] = arg'[v]
        PROVE  w = v
    BY <2>1, <2>4 DEF FreepidInv
  <2>5. QED
    BY <2>2, <2>3, <2>4 DEF FreepidInv
<1>7. ZombieInv'
  <2>1. \A i \in Pids : i # next => waitcode'[i] = waitcode[i]
    BY DEF Entering, TableTypeOK
  <2>2. \A p \in Procs : p # new => exitcode'[p] = exitcode[p]
    BY DEF Entering, ProcsTypeOK
  <2>3. \A i \in Pids : status[i] = "ZOMBIE" =>
          proc[i] \in allocated /\ proc[i] \in Procs /\ proc[i] # new /\ i # next
    BY <1>3 DEF ZombieInv, ProcsTypeOK
  <2>4. \A i \in Pids : status'[i] = "ZOMBIE" => status[i] = "ZOMBIE" /\ proc'[i] = proc[i]
    BY <1>2
  <2>5. ASSUME NEW i \in Pids, status'[i] = "ZOMBIE"
        PROVE  /\ proc'[i] \in allocated'
               /\ p_pid'[proc'[i]] = i
               /\ waitcode'[i] \in Codes /\ waitcode'[i] = exitcode'[proc'[i]]
    <3>1. status[i] = "ZOMBIE" /\ proc'[i] = proc[i]
      BY <2>4, <2>5
    <3>2. proc[i] \in allocated /\ proc[i] \in Procs /\ proc[i] # new /\ i # next
      BY <2>3, <3>1
    <3>3. p_pid[proc[i]] = i /\ waitcode[i] \in Codes /\ waitcode[i] = exitcode[proc[i]]
      BY <3>1 DEF ZombieInv
    <3>4. QED
      BY <1>1a, <1>3, <2>1, <2>2, <3>1, <3>2, <3>3
  <2>6. QED
    BY <2>5 DEF ZombieInv
<1>8. NextPidNotInUse'
  <2>1. \/ pid_next' = OutOfTable
        \/ pid_next' \in Pids /\ status'[pid_next'] = "READY"
    BY Zenon, ScanResult DEF Entering
  <2>2. QED
    BY <2>1, PidsRange DEF NextPidNotInUse
<1>9. AvailableExact'
  <2> DEFINE S == {i \in Pids : status[i] = "READY"}
  <2>1. {i \in Pids : status'[i] = "READY"} = S \ {next} /\ {next} \subseteq S
    BY <1>2, <1>3
  <2>2. Cardinality({next}) = 1
    BY <1>3 DEF TableFacts
  <2>3. S \in SUBSET Pids /\ {next} \in SUBSET Pids
    BY <1>3
  <2>4. Cardinality(S \ {next}) = Cardinality(S) - 1
    BY <2>1, <2>2, <2>3 DEF TableFacts
  <2>5. QED
    BY Zenon, <2>1, <2>4 DEF Entering, AvailableExact
<1>10. QED
  BY <1>5, <1>6, <1>7, <1>8, <1>9

\* Without failures: the new process joins the living, in a new family.
LEMMA EnterClean ==
  ASSUME IInv, NEW t \in Threads, NEW new, NEW next, NEW parent,
         Entering(t, new, next, parent), failures = 0, failures' = 0
  PROVE  Clean'
<1>1. FamiliesAfter(new, next, parent)
  BY EnterChildren
<1>1a. \A p \in Procs : p_pid'[p] = IF p = new THEN next ELSE p_pid[p]
  BY <1>1 DEF FamiliesAfter
<1> USE DEF IInv, TypesInv, CleanInv, Clean
<1>2. \A i \in Pids : /\ status'[i] = IF i = next THEN "RUNNING" ELSE status[i]
                      /\ proc'[i] = IF i = next THEN new ELSE proc[i]
  BY DEF Entering, TableTypeOK
<1>3. /\ new \in Procs /\ new # kproc /\ new \notin allocated /\ allocated' = allocated \cup {new}
      /\ next \in Pids /\ status[next] = "READY" /\ proc[next] = NULL
      /\ parent \in Procs /\ parent # new
  BY DEF Entering, Users, EntriesInv
<1>4. \A p \in Procs : Alive(p) => p \in allocated /\ p # new
  BY <1>3, AliveOwns
<1>5. \A p \in Procs : Alive(p)' <=> Alive(p) \/ p = new
  BY <1>2, <1>3, ProcTableAssumption DEF Alive
<1>6. Alive(parent)
  BY DEF Entering, OwnersInv, HeldInv, Alive
<1>7. EntriesInv'
  <2>1. \A u \in Threads : pc'[u] # "fork_freepid"
    BY DEF Entering, EntriesInv, ThreadsInv
  <2>2. \A i \in Pids : status[i] # "READY" => proc[i] \in Procs /\ proc[i] # new
    BY <1>3 DEF EntriesInv, ProcsTypeOK
  <2>3. QED
    BY <1>1a, <1>2, <1>3, <2>1, <2>2 DEF EntriesInv
<1>8. \A p \in Procs : Alive(p) => \A c \in Range(children[p]) :
         c \in Procs /\ c # new /\ p_pid[c] \in Pids /\ p_pid[c] # next
  BY Zenon, <1>3 DEF FamilyInv, ChildrenInv, ProcsTypeOK
<1>9. FamilyInv'
  <2> SUFFICES ASSUME NEW p \in Procs, Alive(p)'
               PROVE  /\ IsInjective(children'[p])
                      /\ p \notin Range(children'[p])
                      /\ \A c \in Range(children'[p]) :
                           /\ c \in allocated' /\ proc'[p_pid'[c]] = c
                           /\ status'[p_pid'[c]] \in {"RUNNING", "ZOMBIE"}
    BY DEF FamilyInv
  <2>1. CASE p = new
    BY <1>1, <2>1 DEF FamiliesAfter
  <2>2. CASE p # new
    <3>1. /\ Alive(p) /\ IsInjective(children[p]) /\ p \notin Range(children[p])
          /\ \A c \in Range(children[p]) :
               c \in allocated /\ proc[p_pid[c]] = c /\ status[p_pid[c]] \in {"RUNNING", "ZOMBIE"}
      BY <1>5, <2>2 DEF FamilyInv
    <3>2. \A c \in Range(children[p]) :
               /\ c \in allocated' /\ proc'[p_pid'[c]] = c
               /\ status'[p_pid'[c]] \in {"RUNNING", "ZOMBIE"}
      BY <1>1a, <1>2, <1>3, <1>8, <3>1
    <3>3. /\ new \in allocated' /\ proc'[p_pid'[new]] = new
          /\ status'[p_pid'[new]] \in {"RUNNING", "ZOMBIE"}
      BY <1>1a, <1>2, <1>3
    <3>4. IsInjective(children'[p])
      BY <1>1, <1>8, <2>2, <3>1 DEF FamiliesAfter
    <3>5. Range(children'[p]) \subseteq Range(children[p]) \cup {new}
      BY <1>1, <2>2 DEF FamiliesAfter
    <3>6. QED
      BY <2>2, <3>1, <3>2, <3>3, <3>4, <3>5
  <2>3. QED
    BY <2>1, <2>2
<1>10. ParentInv'
  <2>1. ASSUME NEW p \in Procs, NEW q \in Procs, Alive(p)', Alive(q)',
               NEW c, c \in Range(children'[p]), c \in Range(children'[q])
        PROVE  p = q
    <3>1. p # new /\ q # new /\ Alive(p) /\ Alive(q)
      BY <1>1, <1>5, <2>1 DEF FamiliesAfter
    <3>2. CASE c = new
      BY <1>1, <1>8, <2>1, <3>1, <3>2 DEF FamiliesAfter
    <3>3. CASE c # new
      <4>1. c \in Range(children[p]) /\ c \in Range(children[q])
        BY <1>1, <2>1, <3>1, <3>3 DEF FamiliesAfter
      <4>2. QED
        BY <3>1, <4>1 DEF ParentInv
    <3>4. QED
      BY <3>2, <3>3
  <2>2. ASSUME NEW i \in Pids, status'[i] \in {"RUNNING", "ZOMBIE"}
        PROVE  \E p \in Procs : Alive(p)' /\ proc'[i] \in Range(children'[p])
    <3>1. CASE i = next
      <4>1. Alive(parent)' /\ proc'[i] \in Range(children'[parent])
        BY <1>1, <1>2, <1>3, <1>5, <1>6, <3>1 DEF FamiliesAfter
      <4>2. QED
        BY <1>3, <4>1
    <3>2. CASE i # next
      <4>1. PICK p \in Procs : Alive(p) /\ proc[i] \in Range(children[p])
        BY <1>2, <2>2, <3>2 DEF ParentInv
      <4>2. proc'[i] = proc[i] /\ Alive(p)' /\ Range(children[p]) \subseteq Range(children'[p])
        BY SMTT(30), <1>1, <1>2, <1>4, <1>5, <3>2, <4>1 DEF FamiliesAfter
      <4>3. QED
        BY <4>1, <4>2
    <3>3. QED
      BY <3>1, <3>2
  <2>3. QED
    BY <2>1, <2>2 DEF ParentInv
<1>11. QED
  BY <1>7, <1>9, <1>10

\* Whoever waits still waits for its child.
LEMMA EnterWaiters ==
  ASSUME IInv, NEW t \in Threads, NEW new, NEW next, NEW parent,
         Entering(t, new, next, parent), failures = 0,
         NEW u \in Threads, pc'[u] \in {"wait_loop", "waiting"}
  PROVE  IsChild(u, arg[u])'
<1>0. FamiliesAfter(new, next, parent)
  BY EnterChildren
<1> USE DEF IInv, TypesInv, OwnersInv, CallsInv
<1>1. pc[u] = pc'[u] /\ arg'[u] = arg[u] /\ arg[u] \in Pids /\ t_proc[u] \in Procs
  BY ProcTableAssumption DEF Entering, ThreadsInv, Users
<1>2. status[arg[u]] # "READY" /\ proc[arg[u]] \in Range(children[t_proc[u]])
  BY <1>1 DEF PidNotReusedUnderWaiter, IsChild
<1>3. t_proc[u] # new
  BY <1>1 DEF Entering, ThreadsInv, Holds, HeldInv, Users
<1>4. Range(children[t_proc[u]]) \subseteq Range(children'[t_proc[u]])
  BY <1>0, <1>1, <1>3 DEF FamiliesAfter
<1>5. status'[arg[u]] = status[arg[u]] /\ proc'[arg[u]] = proc[arg[u]] /\ t_proc' = t_proc
  BY <1>1, <1>2 DEF Entering, TableTypeOK
<1>6. QED
  BY <1>1, <1>2, <1>4, <1>5 DEF IsChild

\* sys_fork and run_program keep the invariant.
LEMMA EnterInv ==
  ASSUME TableFacts, IInv, NEW t \in Threads, sys_fork(t) \/ run_program(t)
  PROVE  IInv'
<1>1. PICK new \in Users, next \in {pid_next}, parent \in {t_proc[t]} :
        Entering(t, new, next, parent)
  BY EnterIsEntering
<1>2. answer' = answer /\ (failures' = 0 => failures = 0)
  BY SMTT(30), <1>1 DEF Entering, IInv, TypesInv, ProcsTypeOK
<1>3. CleanInv' /\ PidNotReusedUnderWaiter'
  BY <1>1, <1>2, EnterClean, EnterWaiters DEF CleanInv, PidNotReusedUnderWaiter
<1>4. WaitAnswerIsExitCode' /\ NoMissedExit'
  <2>1. \A v \in Threads : pc'[v] = "waiting" => pc[v] = "waiting" /\ arg'[v] = arg[v]
    BY <1>1 DEF Entering, IInv, TypesInv, ThreadsInv
  <2>2. \A i \in Pids : status'[i] = "ZOMBIE" => status[i] = "ZOMBIE"
    BY <1>1 DEF Entering, IInv, TypesInv, TableTypeOK
  <2>3. QED
    BY <1>2, <2>1, <2>2
    DEF IInv, TypesInv, CallsInv, WaitAnswerIsExitCode, NoMissedExit, ThreadsInv
<1>5. TypesInv' /\ OwnersInv'
  BY <1>1, EnterTypes, EnterOwners
<1>6. QED
  BY <1>3, <1>4, <1>5 DEF IInv, CallsInv

-----------------------------------------------------------------------------
(* The steps that leave the table and the structures alone *)
\* A step of one thread that takes hold of nothing new.
Quiet(t) ==
  /\ UNCHANGED <<tableVars, procVars, exitcode>>
  /\ failures' \in {failures, failures + 1}
  /\ \A u \in Threads, p \in Procs : Holds(u, p)' => Holds(u, p)
  /\ \A u \in Threads : pc'[u] = "fork_freepid" => pc[u] = "fork_freepid" /\ arg'[u] = arg[u]

\* Such a step keeps everything but what is said of the calls.
LEMMA QuietKeeps ==
  ASSUME IInv, NEW t \in Threads, Quiet(t)
  PROVE  OwnersInv' /\ CleanInv' /\ (TableTypeOK /\ ProcsTypeOK /\ ChildrenInv)'
<1> USE DEF IInv, TypesInv, OwnersInv, Quiet, tableVars, procVars
<1>1. (TableTypeOK /\ ProcsTypeOK /\ ChildrenInv)'
  BY SMTT(30) DEF TableTypeOK, ProcsTypeOK, ChildrenInv
<1>2. HeldInv'
  BY DEF HeldInv
<1>3. FreepidInv'
  BY DEF FreepidInv
<1>4. (NextPidNotInUse /\ ZombieInv /\ AvailableExact)'
  BY DEF NextPidNotInUse, ZombieInv, AvailableExact
<1>5. CleanInv'
  <2>1. \A p : Alive(p)' <=> Alive(p)
    BY DEF Alive
  <2>2. failures' = 0 => failures = 0
    BY SMTT(30) DEF ProcsTypeOK
  <2>3. Clean => Clean'
    BY SMTT(30), <2>1 DEF Clean, EntriesInv, FamilyInv, ParentInv
  <2>4. QED
    BY <2>2, <2>3 DEF CleanInv
<1>6. QED
  BY <1>1, <1>2, <1>3, <1>4, <1>5

\* The steps that only move one thread on.
QuietStep(t) ==
  \/ fork_copy(t) \/ fork_trapframe_fails(t) \/ load(t) \/ load_fails(t)
  \/ sys_waitpid(t) \/ wait_refused(t) \/ wait_check(t) \/ wait_sleep(t) \/ wait_return(t)
  \/ thread_exit(t)

\* Those steps keep the invariant.
LEMMA QuietStepInv ==
  ASSUME IInv, NEW t \in Threads, QuietStep(t)
  PROVE  IInv'
<1> USE DEF IInv, TypesInv
<1>1. ThreadsInv'
  <2> USE ProcTableAssumption DEF ThreadsInv, MenuLabels, UserLabels, Goto, histVars
  <2>1. CASE fork_copy(t)
    BY <2>1 DEF fork_copy
  <2>2. CASE load(t) \/ load_fails(t)
    BY <2>2 DEF load, load_fails
  <2>3. CASE sys_waitpid(t)
    BY SMTT(30), <2>3 DEF sys_waitpid
  <2>4. CASE wait_check(t) \/ wait_sleep(t)
    BY <2>4 DEF wait_check, wait_sleep, IsChild
  <2>5. CASE thread_exit(t)
    BY <2>5 DEF thread_exit
  <2>6. CASE fork_trapframe_fails(t) \/ wait_refused(t)
    BY <2>6 DEF fork_trapframe_fails, wait_refused, Finish, Resume
  <2>7. CASE wait_return(t)
    BY <2>7 DEF wait_return, Finish, Resume
  <2>8. QED
    BY Zenon, <2>1, <2>2, <2>3, <2>4, <2>5, <2>6, <2>7 DEF QuietStep
<1>2. Quiet(t)
  <2>1. UNCHANGED <<tableVars, procVars, exitcode>> /\ failures' \in {failures, failures + 1}
    BY SMTT(30) DEF QuietStep, fork_copy, fork_trapframe_fails, load, load_fails, sys_waitpid,
           wait_refused, wait_check, wait_sleep, wait_return, thread_exit, histVars, Fails
  <2>2. \A u \in Threads : pc'[u] = "fork_freepid" => pc[u] = "fork_freepid" /\ arg'[u] = arg[u]
    BY SMTT(30) DEF ThreadsInv, QuietStep, fork_copy, fork_trapframe_fails, load, load_fails,
           sys_waitpid, wait_refused, wait_check, wait_sleep, wait_return, thread_exit,
           Goto, Finish, Resume
  <2>3. \A u \in Threads, p \in Procs : Holds(u, p)' => Holds(u, p)
    BY DEF ThreadsInv, MenuLabels, UserLabels, Holds, QuietStep, fork_copy, fork_trapframe_fails,
           load, load_fails, sys_waitpid, wait_refused, wait_check, wait_sleep, wait_return,
           thread_exit, Goto, Finish, Resume
  <2>4. QED
    BY SMTT(30), <2>1, <2>2, <2>3 DEF Quiet
<1>3. WaitAnswerIsExitCode'
  <2>1. CASE wait_return(t)
    <3>1. status[arg[t]] = "ZOMBIE" /\ arg[t] \in Pids
      BY <2>1 DEF wait_return, ThreadsInv
    <3>2. waitcode[arg[t]] \in Codes /\ waitcode[arg[t]] = exitcode[proc[arg[t]]]
      BY <3>1 DEF OwnersInv, ZombieInv
    <3>3. QED
      BY SMTT(30), <2>1, <3>2, ProcTableAssumption
      DEF wait_return, CallsInv, WaitAnswerIsExitCode, ThreadsInv
  <2>2. CASE ~wait_return(t)
    <3>1. answer' = answer
      BY SMTT(30), <2>2 DEF QuietStep, fork_copy, fork_trapframe_fails, load, load_fails, sys_waitpid,
             wait_refused, wait_check, wait_sleep, thread_exit, histVars
    <3>2. QED
      BY <3>1 DEF CallsInv, WaitAnswerIsExitCode
  <2>3. QED
    BY SMTT(30), <2>1, <2>2
<1>4. NoMissedExit'
  BY <1>2 DEF ThreadsInv, CallsInv, NoMissedExit, Quiet, tableVars, QuietStep, fork_copy,
         fork_trapframe_fails, load, load_fails, sys_waitpid, wait_refused, wait_check,
         wait_sleep, wait_return, thread_exit, Goto, Finish, Resume
<1>5. PidNotReusedUnderWaiter'
  <2> SUFFICES ASSUME failures' = 0, NEW u \in Threads, pc'[u] \in {"wait_loop", "waiting"}
               PROVE  IsChild(u, arg[u])'
    BY DEF PidNotReusedUnderWaiter
  <2>1. failures = 0
    BY SMTT(30), <1>2 DEF Quiet, ProcsTypeOK
  <2>2. IsChild(u, arg[u]) /\ arg'[u] = arg[u] /\ t_proc'[u] = t_proc[u]
    BY <2>1 DEF ThreadsInv, CallsInv, PidNotReusedUnderWaiter, QuietStep, fork_copy,
         fork_trapframe_fails, load, load_fails, sys_waitpid, wait_refused, wait_check,
         wait_sleep, wait_return, thread_exit, Goto, Finish, Resume
  <2>3. QED
    BY <1>2, <2>2 DEF IsChild, Quiet, tableVars, procVars
<1>6. QED
  BY <1>1, <1>2, <1>3, <1>4, <1>5, QuietKeeps DEF CallsInv
=============================================================================

-------------------------- MODULE ProcTableProofs ---------------------------
(***************************************************************************)
(* Proofs about the process table: the exit of a process keeps the         *)
(* invariant of ProcTableInv, as every other step does, which gives the    *)
(* theorems at the end.                                                    *)
(***************************************************************************)
EXTENDS ProcTableSteps

\* Everybody else still owns its structure and its entry.
LEMMA ExitOwners ==
  ASSUME TableFacts, IInv, NEW t \in Threads, NEW p, NEW code \in Codes, NEW own, NEW dead, NEW gone,
         Exiting(t, p, code, own, dead, gone)
  PROVE  OwnersInv'
<1> USE DEF IInv, OwnersInv
<1>1. NextPidNotInUse'
  <2>1. pid_next' = pid_next \/ pid_next' \in gone
    BY ExitNext DEF Exiting
  <2>2. QED
    BY <2>1 DEF Exiting, NextPidNotInUse
<1>2. HeldInv'
  <2>1. ASSUME NEW u \in Threads, NEW q \in Procs, Holds(u, q)'
        PROVE  /\ q \in allocated' \ {kproc}
               /\ p_pid'[q] \in Pids
               /\ proc'[p_pid'[q]] = q
               /\ status'[p_pid'[q]] \in {"RUNNING", "ORPHAN"}
    <3>1. Holds(u, q) /\ p_pid[q] # own /\ p_pid[q] \notin gone /\ q \notin dead
      BY <2>1, ExitHolders
    <3>2. /\ q \in allocated \ {kproc} /\ p_pid[q] \in Pids
          /\ proc[p_pid[q]] = q /\ status[p_pid[q]] \in {"RUNNING", "ORPHAN"}
      BY <3>1 DEF HeldInv
    <3>3. QED
      BY <3>1, <3>2 DEF Exiting
  <2>2. \A u, v \in Threads, q \in Procs : Holds(u, q)' /\ Holds(v, q)' => u = v
    BY ExitHolders DEF HeldInv
  <2>3. QED
    BY <2>1, <2>2 DEF HeldInv
<1>3. FreepidInv'
  <2>1. ASSUME NEW u \in Threads, pc'[u] = "fork_freepid"
        PROVE  /\ pc[u] = "fork_freepid" /\ arg'[u] = arg[u]
               /\ status'[arg[u]] \in {"RUNNING", "ORPHAN"}
    <3>1. pc[u] = "fork_freepid" /\ arg'[u] = arg[u] /\ arg[u] \in Pids
      BY <2>1 DEF Exiting, TypesInv, ThreadsInv
    <3>2. status[arg[u]] \in {"RUNNING", "ORPHAN"} /\ arg[u] # own
      BY <3>1 DEF Exiting, FreepidInv, Users
    <3>3. QED
      BY <3>1, <3>2 DEF Exiting
  <2>2. p_pid' = p_pid
    BY DEF Exiting
  <2>3. QED
    BY <2>1, <2>2, ExitHolders DEF FreepidInv
<1>4. ZombieInv'
  <2> SUFFICES ASSUME NEW i \in Pids, status'[i] = "ZOMBIE"
               PROVE  /\ proc'[i] \in allocated'
                      /\ p_pid'[proc'[i]] = i
                      /\ waitcode'[i] \in Codes /\ waitcode'[i] = exitcode'[proc'[i]]
    BY DEF ZombieInv
  <2>1. i \notin gone /\ proc'[i] = proc[i]
    BY DEF Exiting
  <2>2. CASE i = own
    BY <2>1, <2>2 DEF Exiting, TypesInv, ProcsTypeOK
  <2>3. CASE i # own
    <3>1. status[i] = "ZOMBIE"
      BY <2>1, <2>3 DEF Exiting
    <3>2. /\ proc[i] \in allocated /\ p_pid[proc[i]] = i
          /\ waitcode[i] \in Codes /\ waitcode[i] = exitcode[proc[i]]
      BY <3>1 DEF ZombieInv
    <3>3. proc[i] # p /\ proc[i] \notin dead
      BY <2>1, <2>3, <3>2 DEF Exiting
    <3>4. QED
      BY <2>1, <2>3, <3>2, <3>3 DEF Exiting, TypesInv, ProcsTypeOK
  <2>4. QED
    BY <2>2, <2>3
<1>5. AvailableExact'
  <2> DEFINE S == {i \in Pids : status[i] = "READY"}
  <2>1. {i \in Pids : status'[i] = "READY"} = S \cup gone
    BY DEF Exiting
  <2>2. S \cap gone = {} /\ S \in SUBSET Pids /\ gone \in SUBSET Pids
    BY DEF Exiting
  <2>3. Cardinality(S \cup gone) = Cardinality(S) + Cardinality(gone)
    BY <2>2 DEF TableFacts
  <2>4. QED
    BY Zenon, <2>1, <2>3 DEF Exiting, AvailableExact
<1>6. QED
  BY <1>1, <1>2, <1>3, <1>4, <1>5

\* Without failures: who is alive afterwards,
LEMMA ExitAlive ==
  ASSUME IInv, failures = 0, NEW t \in Threads, NEW p, NEW code \in Codes, NEW own, NEW dead,
         NEW gone, Exiting(t, p, code, own, dead, gone)
  PROVE  /\ p \in Procs /\ p # kproc /\ Alive(p)
         /\ \A q \in Procs : Alive(q)' <=> Alive(q) /\ q # p
<1>1. p \in Procs /\ p # kproc /\ Alive(p)
  BY DEF Exiting, Users, Alive
<1>2. \A i \in Pids : proc[i] = p /\ status[i] # "READY" => i = own
  BY DEF Exiting, IInv, CleanInv, Clean, EntriesInv
<1>3. ASSUME NEW q \in Procs, q # kproc, NEW i \in Pids
      PROVE  proc'[i] = q /\ status'[i] \in {"RUNNING", "ORPHAN"} <=>
               proc[i] = q /\ status[i] \in {"RUNNING", "ORPHAN"} /\ q # p
  <2>1. i = own \/ i \in gone \/ (i # own /\ i \notin gone)
    OBVIOUS
  <2>2. q # NULL
    BY ProcTableAssumption
  <2>3. CASE i \in gone
    BY <1>2, <2>2, <2>3 DEF Exiting
  <2>4. CASE i = own /\ i \notin gone
    BY <2>4 DEF Exiting
  <2>5. CASE i # own /\ i \notin gone
    BY <1>2, <2>5 DEF Exiting
  <2>6. QED
    BY <2>3, <2>4, <2>5
<1>4. QED
  BY <1>1, <1>3 DEF Alive

\* what the entries say,
LEMMA ExitEntries ==
  ASSUME IInv, failures = 0, NEW t \in Threads, NEW p, NEW code \in Codes, NEW own, NEW dead,
         NEW gone, Exiting(t, p, code, own, dead, gone)
  PROVE  EntriesInv'
<1>1. /\ \A u \in Threads : pc[u] # "fork_freepid"
      /\ \A i \in Pids : status[i] = "READY" => proc[i] = NULL
      /\ \A i \in Pids : status[i] # "READY" => proc[i] \in allocated /\ p_pid[proc[i]] = i
  BY DEF IInv, CleanInv, Clean, EntriesInv
<1>2. \A u \in Threads : pc'[u] # "fork_freepid"
  BY <1>1 DEF Exiting
<1>3. \A i \in Pids : status'[i] = "READY" => proc'[i] = NULL
  BY <1>1 DEF Exiting
<1>4. ASSUME NEW i \in Pids, status'[i] # "READY"
      PROVE  proc'[i] \in allocated' /\ p_pid'[proc'[i]] = i
  <2>1. i \notin gone /\ proc'[i] = proc[i] /\ status[i] # "READY"
    BY <1>4 DEF Exiting
  <2>2. proc[i] \in allocated /\ p_pid[proc[i]] = i
    BY <1>1, <2>1
  <2>3. QED
    BY <2>1, <2>2 DEF Exiting
<1>5. QED
  BY <1>2, <1>3, <1>4 DEF EntriesInv

\* that the children of the others are left alone,
LEMMA ExitOthersChild ==
  ASSUME IInv, failures = 0, NEW t \in Threads, NEW p, NEW code \in Codes, NEW own, NEW dead,
         NEW gone, Exiting(t, p, code, own, dead, gone),
         NEW q \in Procs, Alive(q), q # p, NEW c \in Range(children[q])
  PROVE  /\ c \in allocated' /\ p_pid[c] \in Pids
         /\ proc'[p_pid[c]] = c /\ status'[p_pid[c]] \in {"RUNNING", "ZOMBIE"}
<1>1. /\ c \in allocated /\ p_pid[c] \in Pids /\ proc[p_pid[c]] = c
      /\ status[p_pid[c]] \in {"RUNNING", "ZOMBIE"}
  BY DEF IInv, CleanInv, Clean, FamilyInv, TypesInv, ChildrenInv
<1>2. c \notin Range(children[p])
  BY Zenon, ExitAlive DEF IInv, CleanInv, Clean, ParentInv
<1>3. \A d \in Range(children[p]) : proc[p_pid[d]] = d
  BY Zenon, ExitAlive DEF IInv, CleanInv, Clean, FamilyInv
<1>4. p_pid[c] \notin ChildPids(p)
  BY SMTT(30), <1>1, <1>2, <1>3 DEF ChildPids
<1>5. \A z \in dead : z \in Range(children[p]) \/ (z = p /\ status[own] = "ORPHAN")
  BY DEF Exiting, Destroyed, Zombies
<1>6. p_pid[c] \notin gone
  BY <1>1, <1>2, <1>3, <1>5 DEF Exiting, PidsOf
<1>7. QED
  BY <1>1, <1>4, <1>6 DEF Exiting

\* and that every entry keeps a parent who lives.
LEMMA ExitParents ==
  ASSUME IInv, failures = 0, NEW t \in Threads, NEW p, NEW code \in Codes, NEW own, NEW dead,
         NEW gone, Exiting(t, p, code, own, dead, gone)
  PROVE  ParentInv'
<1> USE DEF IInv, CleanInv, Clean
<1>1. UNCHANGED <<p_pid, children>>
  BY DEF Exiting
<1>2. \A q, r \in Procs : Alive(q)' /\ Alive(r)' =>
         \A c \in Range(children'[q]) \cap Range(children'[r]) : q = r
  BY Zenon, <1>1, ExitAlive DEF ParentInv
<1>3. ASSUME NEW i \in Pids, status'[i] \in {"RUNNING", "ZOMBIE"}
      PROVE  \E q \in Procs : Alive(q)' /\ proc'[i] \in Range(children'[q])
  <2>1. i \notin gone /\ proc'[i] = proc[i] /\ status[i] \in {"RUNNING", "ZOMBIE"}
    BY <1>3 DEF Exiting
  <2>2. PICK q \in Procs : Alive(q) /\ proc[i] \in Range(children[q])
    BY <2>1 DEF ParentInv
  <2>3. p_pid[proc[i]] = i
    BY <2>1 DEF EntriesInv
  <2>4. ASSUME q = p PROVE FALSE
    <3>1. CASE status[i] = "ZOMBIE"
      <4>1. proc[i] \in Zombies(p)
        BY <2>2, <2>3, <2>4, <3>1 DEF Zombies
      <4>2. QED
        BY <2>1, <2>3, <4>1 DEF Exiting
    <3>2. CASE status[i] = "RUNNING"
      <4>1. i # own
        BY Zenon, <2>2, <2>4, ExitAlive DEF Exiting, FamilyInv
      <4>2. i \in ChildPids(p)
        BY <2>2, <2>3, <2>4 DEF ChildPids
      <4>3. QED
        BY <1>3, <2>1, <3>2, <4>1, <4>2 DEF Exiting
    <3>3. QED
      BY <2>1, <3>1, <3>2
  <2>5. QED
    BY Zenon, <1>1, <2>1, <2>2, <2>4, ExitAlive
<1>4. QED
  BY <1>2, <1>3 DEF ParentInv

\* Whoever waits still waits for its child.
LEMMA ExitWaiters ==
  ASSUME IInv, failures = 0, NEW t \in Threads, NEW p, NEW code \in Codes, NEW own, NEW dead,
         NEW gone, Exiting(t, p, code, own, dead, gone),
         NEW u \in Threads, pc'[u] \in {"wait_loop", "waiting"}
  PROVE  IsChild(u, arg[u])'
<1> USE DEF IInv, TypesInv, OwnersInv, CallsInv
<1>1. u # t /\ pc[u] \in {"wait_loop", "waiting"}
  BY DEF Exiting
<1>2. arg[u] \in Pids /\ t_proc[u] \in Procs
  BY <1>1, ProcTableAssumption DEF ThreadsInv, Users
<1>3. status[arg[u]] # "READY" /\ proc[arg[u]] \in Range(children[t_proc[u]])
  BY <1>1 DEF PidNotReusedUnderWaiter, IsChild
<1>4. Alive(t_proc[u]) /\ t_proc[u] # p
  <2>1. CASE u = menu
    BY <2>1 DEF ThreadsInv, Alive, Exiting, Users
  <2>2. CASE u # menu
    <3>1. Holds(u, t_proc[u])
      BY <1>1, <2>2 DEF Holds
    <3>2. Holds(t, p)
      BY DEF Exiting
    <3>3. t_proc[u] # p
      BY <1>1, <1>2, <3>1, <3>2 DEF HeldInv
    <3>4. Alive(t_proc[u])
      BY <1>2, <3>1 DEF HeldInv, Alive
    <3>5. QED
      BY <3>3, <3>4
  <2>3. QED
    BY <2>1, <2>2
<1>5. p_pid[proc[arg[u]]] = arg[u]
  BY <1>2, <1>3 DEF CleanInv, Clean, EntriesInv
<1>6. proc'[arg[u]] = proc[arg[u]] /\ status'[arg[u]] \in {"RUNNING", "ZOMBIE"}
  BY <1>2, <1>3, <1>4, <1>5, ExitOthersChild
<1>7. UNCHANGED <<children, t_proc, arg>>
  BY DEF Exiting
<1>8. QED
  BY <1>2, <1>3, <1>6, <1>7 DEF IsChild

\* sys__exit keeps the invariant.
LEMMA ExitInv ==
  ASSUME TableFacts, IInv, NEW t \in Threads, sys__exit(t)
  PROVE  IInv'
<1>1. PICK code \in Codes, p \in {t_proc[t]}, own \in {p_pid[t_proc[t]]},
           dead \in {Destroyed(t_proc[t])}, gone \in {PidsOf(Destroyed(t_proc[t]))} :
        Exiting(t, p, code, own, dead, gone)
  BY ExitIsExiting
<1>2. failures' = failures /\ UNCHANGED <<p_pid, children, arg, answer>>
  BY <1>1 DEF Exiting
<1>3. ASSUME failures = 0
      PROVE  Clean' /\ \A u \in Threads : pc'[u] \in {"wait_loop", "waiting"} => IsChild(u, arg[u])'
  <2>1. FamilyInv'
    <3>1. Clean
      BY <1>3 DEF IInv, CleanInv
    <3>2. \A q \in Procs : Alive(q)' => Alive(q) /\ q # p
      BY Zenon, <1>1, <1>3, ExitAlive
    <3>3. ASSUME NEW q \in Procs, Alive(q), q # p, NEW c \in Range(children[q])
          PROVE  c \in allocated' /\ proc'[p_pid[c]] = c /\ status'[p_pid[c]] \in {"RUNNING", "ZOMBIE"}
      BY <1>1, <1>3, <3>3, ExitOthersChild
    <3>4. QED
      BY <1>2, <3>1, <3>2, <3>3 DEF Clean, FamilyInv
  <2>2. QED
    BY <1>1, <1>3, <2>1, ExitEntries, ExitParents, ExitWaiters DEF Clean
<1>4. CleanInv' /\ PidNotReusedUnderWaiter'
  BY <1>2, <1>3 DEF CleanInv, PidNotReusedUnderWaiter
<1>5. WaitAnswerIsExitCode' /\ NoMissedExit'
  <2>1. \A u \in Threads : pc'[u] # "waiting"
    BY <1>1 DEF Exiting, IInv, TypesInv, ThreadsInv
  <2>2. QED
    BY <1>2, <2>1 DEF IInv, CallsInv, WaitAnswerIsExitCode, NoMissedExit
<1>6. TypesInv' /\ OwnersInv'
  BY <1>1, ExitTypes, ExitOwners
<1>7. QED
  BY <1>4, <1>5, <1>6 DEF IInv, CallsInv

-----------------------------------------------------------------------------
(* Sets of numbers *)
INSTANCE FiniteSetTheorems
INSTANCE WellFoundedInduction

\* A non-empty set of natural numbers has a least member.
LEMMA MinMember ==
  ASSUME NEW S \in SUBSET Nat, S # {}
  PROVE  Min(S) \in S /\ \A y \in S : Min(S) <= y
<1>1. PICK x \in S : \A y \in S : ~(<<y, x>> \in OpToRel(<, Nat))
  BY Zenon, NatLessThanWellFounded, WFMin
<1>2. \A y \in S : ~(y < x)
  BY Zenon, <1>1 DEF OpToRel
<1>3. \A y \in S : x <= y
  BY <1>2
<1>4. QED
  BY Zenon, <1>3 DEF Min

\* The table is finite.
LEMMA PidsFinite == IsFiniteSet(Pids)
BY ProcTableAssumption, FS_Interval DEF Pids, PID_MIN

\* The count of free entries when some are taken and others given back.
LEMMA CountEntries ==
  ASSUME NEW S \in SUBSET Pids, NEW G \in SUBSET Pids
  PROVE  /\ S \cap G = {} => Cardinality(S \cup G) = Cardinality(S) + Cardinality(G)
         /\ G \subseteq S => Cardinality(S \ G) = Cardinality(S) - Cardinality(G)
         /\ Cardinality(S) \in Nat /\ Cardinality(G) \in Nat
<1>1. IsFiniteSet(S) /\ IsFiniteSet(G) /\ IsFiniteSet(S \ G)
  BY Zenon, PidsFinite, FS_Subset
<1>2. /\ Cardinality(S) \in Nat /\ Cardinality(G) \in Nat /\ Cardinality(S \ G) \in Nat
  BY <1>1, FS_CardinalityType
<1>3. \A A, B : IsFiniteSet(A) /\ IsFiniteSet(B) /\ A \cap B = {} =>
                  Cardinality(A \cup B) = Cardinality(A) + Cardinality(B)
  <2> SUFFICES ASSUME NEW A, NEW B, IsFiniteSet(A), IsFiniteSet(B), A \cap B = {}
               PROVE  Cardinality(A \cup B) = Cardinality(A) + Cardinality(B)
    OBVIOUS
  <2>1. Cardinality(A \cup B) = Cardinality(A) + Cardinality(B) - Cardinality(A \cap B)
    BY FS_Union
  <2>2. Cardinality(A \cap B) = 0 /\ Cardinality(A) \in Nat /\ Cardinality(B) \in Nat
    BY Zenon, FS_EmptySet, FS_CardinalityType
  <2>3. QED
    BY <2>1, <2>2
<1>4. ASSUME G \subseteq S PROVE Cardinality(S \ G) = Cardinality(S) - Cardinality(G)
  <2>1. (S \ G) \cap G = {} /\ (S \ G) \cup G = S
    BY <1>4
  <2>2. Cardinality(S) = Cardinality(S \ G) + Cardinality(G)
    BY <1>1, <1>3, <2>1
  <2>3. QED
    BY <1>2, <2>2
<1>5. QED
  BY <1>1, <1>2, <1>3, <1>4

\* So the facts hold that the proofs have used.
LEMMA TableFactsHold == TableFacts
<1>1. \A i \in Pids : Cardinality({i}) = 1
  BY Zenon, FS_Singleton
<1>2. QED
  BY Zenon, <1>1, MinMember, CountEntries DEF TableFacts

-----------------------------------------------------------------------------
(* The initial state *)
\* The table begins empty: proc_table_bootstrap.
LEMMA InitInv == Init => IInv
<1> SUFFICES ASSUME Init PROVE IInv
  OBVIOUS
<1> USE ProcTableAssumption DEF Init
<1>1. TypesInv
  <2>1. TableTypeOK
    BY PidsRange DEF TableTypeOK, Statuses, Users, Pids, PID_MIN, OutOfTable
  <2>2. ProcsTypeOK
    BY DEF ProcsTypeOK, Users
  <2>3. ThreadsInv
    BY DEF ThreadsInv, MenuLabels, UserLabels
  <2>4. ChildrenInv
    BY DEF ChildrenInv, Range
  <2>5. QED
    BY <2>1, <2>2, <2>3, <2>4 DEF TypesInv
<1>2. OwnersInv
  <2>1. \A t \in Threads, p \in Procs : ~Holds(t, p)
    BY DEF Holds
  <2>2. {i \in Pids : status[i] = "READY"} = Pids
    OBVIOUS
  <2>3. QED
    BY Zenon, <2>1, <2>2 DEF OwnersInv, NextPidNotInUse, HeldInv, FreepidInv, ZombieInv, AvailableExact
<1>3. CleanInv
  <2>1. \A p \in Procs : Range(children[p]) = {} /\ IsInjective(children[p])
    BY DEF Range, IsInjective
  <2>2. QED
    BY <2>1 DEF CleanInv, Clean, EntriesInv, FamilyInv, ParentInv
<1>4. CallsInv
  BY DEF CallsInv, WaitAnswerIsExitCode, NoMissedExit, PidNotReusedUnderWaiter
<1>5. QED
  BY <1>1, <1>2, <1>3, <1>4 DEF IInv

-----------------------------------------------------------------------------
(* What the inductive invariant says of the calls *)
\* The inductive invariant implies the property.
LEMMA InvImpliesSound == IInv => TableSound
<1> SUFFICES ASSUME IInv PROVE TableSound
  OBVIOUS
<1>1. UniquePids
  BY DEF IInv, OwnersInv, HeldInv, UniquePids
<1>2. StatusMatchesParent
  <2> SUFFICES ASSUME failures = 0, NEW i \in Pids
               PROVE  /\ status[i] \in {"RUNNING", "ZOMBIE"} =>
                           Cardinality(Parents(proc[i])) = 1
                      /\ status[i] = "ORPHAN" => Parents(proc[i]) = {}
    BY DEF StatusMatchesParent
  <2>1. ASSUME status[i] \in {"RUNNING", "ZOMBIE"}
        PROVE  Cardinality(Parents(proc[i])) = 1
    <3>1. PICK p \in Procs : Alive(p) /\ proc[i] \in Range(children[p])
      BY <2>1 DEF IInv, CleanInv, Clean, ParentInv
    <3>2. p \in Parents(proc[i])
      BY <3>1, AliveOwns DEF Parents
    <3>3. \A q \in Parents(proc[i]) : q = p
      BY <3>1 DEF Parents, IInv, TypesInv, ProcsTypeOK, CleanInv, Clean, ParentInv
    <3>4. Parents(proc[i]) = {p}
      BY <3>2, <3>3
    <3>5. QED
      BY <3>4, FS_Singleton
  <2>2. ASSUME status[i] = "ORPHAN", NEW p \in Parents(proc[i])
        PROVE  FALSE
    BY Zenon, <2>2 DEF Parents, IInv, TypesInv, ProcsTypeOK, CleanInv, Clean, EntriesInv, FamilyInv
  <2>3. QED
    BY <2>1, <2>2
<1>3. ExitNeverPanics
  <2> SUFFICES ASSUME failures = 0, NEW p \in Procs \ {kproc}, Alive(p)
               PROVE  ExitDefined(p)
    BY DEF ExitNeverPanics
  <2>1. p \in allocated /\ status[p_pid[p]] \in {"RUNNING", "ORPHAN"}
    BY AliveOwns
  <2>2. /\ IsInjective(children[p])
        /\ \A c \in Range(children[p]) :
             c \in allocated /\ proc[p_pid[c]] = c /\ status[p_pid[c]] \in {"RUNNING", "ZOMBIE"}
    BY DEF IInv, CleanInv, Clean, FamilyInv
  <2>3. QED
    BY <2>1, <2>2 DEF ExitDefined, ChildPids
<1>4. QED
  BY <1>1, <1>2, <1>3 DEF TableSound, PidsSound, ExitsSound, IInv, OwnersInv, CallsInv

-----------------------------------------------------------------------------
(* The theorems *)
\* A step that changes nothing keeps the invariant.
LEMMA StutterInv ==
  ASSUME IInv, UNCHANGED vars
  PROVE  IInv'
<1> USE DEF vars, tableVars, procVars, histVars
<1>1. TypesInv'
  BY DEF IInv, TypesInv, TableTypeOK, ProcsTypeOK, ThreadsInv, ChildrenInv
<1>2. \A u, p : Holds(u, p)' <=> Holds(u, p)
  BY DEF Holds
<1>3. OwnersInv'
  <2>1. NextPidNotInUse' /\ AvailableExact'
    BY DEF IInv, OwnersInv, NextPidNotInUse, AvailableExact
  <2>2. HeldInv'
    BY <1>2 DEF IInv, OwnersInv, HeldInv
  <2>3. FreepidInv' /\ ZombieInv'
    BY <1>2 DEF IInv, OwnersInv, FreepidInv, ZombieInv
  <2>4. QED
    BY <2>1, <2>2, <2>3 DEF OwnersInv
<1>4. \A p : Alive(p)' <=> Alive(p)
  BY DEF Alive
<1>5. CleanInv'
  BY <1>4 DEF IInv, CleanInv, Clean, EntriesInv, FamilyInv, ParentInv
<1>6. CallsInv'
  BY DEF IInv, CallsInv, WaitAnswerIsExitCode, NoMissedExit, PidNotReusedUnderWaiter, IsChild
<1>7. QED
  BY SMTT(30), <1>1, <1>3, <1>5, <1>6 DEF IInv

\* Every step keeps the invariant.
LEMMA NextInv == IInv /\ [Next]_vars => IInv'
<1> SUFFICES ASSUME IInv, [Next]_vars PROVE IInv'
  OBVIOUS
<1>1. ASSUME NEW t \in Threads,
             Kernel(t) \/ sys_fork(t) \/ run_program(t) \/ sys_waitpid(t) \/ sys__exit(t)
      PROVE  IInv'
  <2>1. \/ QuietStep(t) \/ sys__exit(t) \/ fork_freepid(t)
        \/ fork_thread(t) \/ run_thread(t)
        \/ fork_copy_fails(t) \/ run_thread_fails(t) \/ fork_thread_fails(t)
        \/ sys_fork(t) \/ run_program(t)
    BY <1>1 DEF Kernel, QuietStep
  <2>2. QED
    BY <2>1, TableFactsHold, QuietStepInv, ExitInv, FreepidStepInv, HandoverInv, FreeStructureInv, EnterInv
<1>2. QED
  BY <1>1, StutterInv DEF Next

\* The invariant holds in every reachable state.
THEOREM InductiveInvariant == Spec => []IInv
BY InitInv, NextInv, PTL DEF Spec

\* Pids name one process at a time, every status agrees with who is alive to
\* wait, and no exit runs into an entry it did not expect: proc_table_add,
\* sys_waitpid and proc_table_update_children, for every size of the table.
THEOREM TableIsSound == Spec => []TableSound
BY InductiveInvariant, InvImpliesSound, PTL

\* waitpid hands back the code that the awaited process exited with.
THEOREM AnswersAreExitCodes == Spec => []WaitAnswerIsExitCode
<1>1. IInv => WaitAnswerIsExitCode
  BY DEF IInv, CallsInv
<1>2. QED
  BY <1>1, InductiveInvariant, PTL

\* No parent sleeps for a child that has already turned into a zombie.
THEOREM ExitsAreNotMissed == Spec => []NoMissedExit
<1>1. IInv => NoMissedExit
  BY DEF IInv, CallsInv
<1>2. QED
  BY <1>1, InductiveInvariant, PTL
=============================================================================

---------------------------- MODULE SchedProofs ----------------------------
(***************************************************************************)
(* thread_fork and thread_consider_migration keep the invariant of         *)
(* SchedControl, as the steps of SchedMoves do.  So it always holds, for   *)
(* every number of CPUs and threads, and with it the properties of the     *)
(* scheduler that rest on it.                                              *)
(***************************************************************************)
EXTENDS SchedMoves

\* A new thread starts on the run queue of the CPU that made it.
LEMMA ForkInv ==
  ASSUME IInv, NEW c \in CPUs, thread_fork(c)
  PROVE  IInv'
<1>0. PICK t \in Threads :
      /\ pc[c] = "run" /\ t_state[t] = "S_FREE"
      /\ t_cpu' = [t_cpu EXCEPT ![t] = c]
      /\ resume' = [resume EXCEPT ![t] = "run"]
      /\ t_state' = [t_state EXCEPT ![t] = "S_READY"]
      /\ c_runqueue' = [c_runqueue EXCEPT ![c] = Append(c_runqueue[c], t)]
      /\ c_unidle' = [c_unidle EXCEPT ![c] = c_unidle[c] \/ c_isidle[c]]
      /\ UNCHANGED <<c_curthread, c_isidle, c_zombies, wc_threads, wc_lock, pc, newstate,
                     list, victims, mig>>
  <2>1. t_cpu[c_curthread[c]] = c
    BY Parts DEF PlacesAt
  <2> QED BY Zenon, <2>1 DEF thread_fork, make_runnable, cpuVars, wchanVars, localVars
<1>1. /\ c # NoCPU /\ t \in Threads /\ t \notin Range(c_runqueue[c])
      /\ IsThreadlist(Append(c_runqueue[c], t)) /\ Append(c_runqueue[c], t) # <<>>
      /\ Range(Append(c_runqueue[c], t)) = Range(c_runqueue[c]) \cup {t}
      /\ Len(Append(c_runqueue[c], t)) = Len(c_runqueue[c]) + 1
  <2>1. c # NoCPU /\ t \notin Range(c_runqueue[c]) /\ IsThreadlist(c_runqueue[c])
    BY <1>0, Parts DEF ListsOK, PlacesAt, CPUs, NoCPU
  <2> QED BY <2>1, ListAppend
<1>2. /\ TypeOK /\ ListsOK /\ AsleepInv /\ ControlAt(c) /\ Functional
      /\ \A d \in CPUs : Len(c_runqueue[d]) \in Nat
  BY Parts, VariablesFunctional, QueueLengths
<1> USE <1>0, <1>1, <1>2
<1>3. TypeOK'
  BY DEF TypeOK, Labels, States
<1>4. ListsOK'
  BY DEF ListsOK
<1>5. ASSUME NEW d \in CPUs \ {c} PROVE FromOutside(d)
  BY DEF FromOutside, Functional
<1>6. ControlAt(c)'
  BY DEF Functional, ControlAt, IdleAt, ChannelAt, MigrationAt, UnidleAt
<1>7. ASSUME NEW d \in CPUs PROVE PlacesAt(d)'
  <2>1. PlacesAt(d)
    BY Parts
  <2> QED BY <2>1, Members DEF Functional, PlacesAt
<1>8. AsleepInv'
  BY Members DEF Functional, AsleepInv
<1>9. ASSUME NEW u \in Threads PROVE HomeOf(u)'
  <2>1. HomeOf(u)
    BY Parts
  <2> QED BY <2>1 DEF Functional, HomeOf
<1> QED BY <1>3, <1>4, <1>5, <1>6, <1>7, <1>8, <1>9, Parts, OutsideKeeps DEF IInv

\* One thread less is to be sent.
LEMMA OneSent ==
  ASSUME NEW m \in Counts, NEW n \in Nat
  PROVE  LET k == [m EXCEPT !.send = n] IN k \in Counts /\ k.i = m.i /\ k.send = n
BY DEF Counts

\* Migration takes the last threads of the queue, which is still long enough.
LEMMA TakeInv ==
  ASSUME IInv, NEW c \in CPUs, mg_take(c)
  PROVE  IInv'
<1> DEFINE n == Len(c_runqueue[c])
           k == n - mig[c].send
           a == SubSeq(c_runqueue[c], 1, k)
           b == SubSeq(c_runqueue[c], k + 1, n)
<1>0. /\ pc[c] = "mg_take"
      /\ victims' = [victims EXCEPT ![c] = b]
      /\ c_runqueue' = [c_runqueue EXCEPT ![c] = a]
      /\ pc' = [pc EXCEPT ![c] = "mg_send"]
      /\ UNCHANGED <<t_state, t_cpu, resume, c_curthread, c_isidle, c_zombies, c_unidle,
                     wc_threads, wc_lock, newstate, list, mig>>
  BY DEF mg_take, Goto, threadVars, cpuVars, wchanVars
<1>1. /\ c # NoCPU /\ victims[c] = <<>> /\ Range(victims[c]) = {}
      /\ IsThreadlist(a) /\ IsThreadlist(b)
      /\ Range(a) \cup Range(b) = Range(c_runqueue[c]) /\ Range(a) \cap Range(b) = {}
      /\ mig[c].send <= Len(b)
  <2>1. /\ c # NoCPU /\ victims[c] = <<>> /\ IsThreadlist(c_runqueue[c])
        /\ n \in Nat /\ mig[c].send \in Nat /\ mig[c].send <= n
    <3>1. IsThreadlist(c_runqueue[c]) /\ n \in Nat /\ mig[c] \in Counts
      BY QueueLengths, Parts DEF TypeOK, ListsOK
    <3>2. c # NoCPU /\ victims[c] = <<>> /\ mig[c].send <= n
      BY <1>0, Parts DEF ControlAt, MigrationAt, CPUs, NoCPU
    <3> QED BY <3>1, <3>2 DEF Counts
  <2>2. k \in 0 .. n /\ n - k = mig[c].send
    BY <2>1
  <2> HIDE DEF k
  <2>3. /\ IsThreadlist(a) /\ IsThreadlist(b) /\ Len(b) = n - k
        /\ Range(a) \cup Range(b) = Range(c_runqueue[c]) /\ Range(a) \cap Range(b) = {}
    BY <2>1, <2>2, ListSplit
  <2> HIDE DEF n, a, b
  <2> QED BY <2>1, <2>2, <2>3, ListEmpty
<1> HIDE DEF n, k, a, b
<1>2. /\ TypeOK /\ ListsOK /\ AsleepInv /\ ControlAt(c) /\ Functional
      /\ \A d \in CPUs : Len(c_runqueue[d]) \in Nat
  BY Parts, VariablesFunctional, QueueLengths
<1> USE <1>0, <1>1, <1>2
<1>3. TypeOK'
  BY DEF TypeOK, Labels, States
<1>4. ListsOK'
  BY DEF ListsOK
<1>5. ASSUME NEW d \in CPUs \ {c} PROVE FromOutside(d)
  BY DEF FromOutside, Functional
<1>6. ControlAt(c)'
  BY DEF Functional, ControlAt, IdleAt, ChannelAt, MigrationAt, UnidleAt
<1>7. ASSUME NEW d \in CPUs PROVE PlacesAt(d)'
  <2>1. PlacesAt(d)
    BY Parts
  <2> QED BY <2>1, Members DEF Functional, PlacesAt
<1>8. AsleepInv'
  BY Members DEF Functional, AsleepInv
<1>9. ASSUME NEW u \in Threads PROVE HomeOf(u)'
  <2>1. HomeOf(u)
    BY Parts
  <2> QED BY <2>1 DEF Functional, HomeOf
<1> QED BY <1>3, <1>4, <1>5, <1>6, <1>7, <1>8, <1>9, Parts, OutsideKeeps DEF IInv

\* A victim moves to another CPU, whose queue it joins, with its t_cpu.
LEMMA MoveInv ==
  ASSUME IInv, NEW c \in CPUs, mg_move(c)
  PROVE  IInv'
<1> DEFINE e == mig[c].i
           t == Head(victims[c])
           m == [mig[c] EXCEPT !.send = mig[c].send - 1]
<1>0. /\ pc[c] = "mg_move" /\ mig[c].send > 0 /\ t # c_curthread[c]
      /\ t_cpu' = [t_cpu EXCEPT ![t] = e]
      /\ c_runqueue' = [c_runqueue EXCEPT ![e] = Append(c_runqueue[e], t)]
      /\ c_unidle' = [c_unidle EXCEPT ![e] = c_unidle[e] \/ c_isidle[e]]
      /\ victims' = [victims EXCEPT ![c] = Tail(victims[c])]
      /\ mig' = [mig EXCEPT ![c] = m]
      /\ UNCHANGED <<t_state, resume, c_curthread, c_isidle, c_zombies, wc_threads,
                     wc_lock, pc, newstate, list>>
  BY DEF mg_move, cpuVars, wchanVars
<1>1. /\ c # NoCPU /\ e \in CPUs /\ m \in Counts /\ m.i = e /\ m.send = mig[c].send - 1
      /\ mig[c].send \in Nat /\ mig[c].send <= Len(victims[c]) /\ Len(victims[c]) \in Nat
      /\ t \in Threads /\ t \in Range(victims[c]) /\ t_state[t] = "S_READY" /\ t_cpu[t] = c
      /\ IsThreadlist(Tail(victims[c])) /\ Range(Tail(victims[c])) = Range(victims[c]) \ {t}
      /\ Len(Tail(victims[c])) = Len(victims[c]) - 1
      /\ t \notin Range(c_runqueue[e])
      /\ IsThreadlist(Append(c_runqueue[e], t)) /\ Append(c_runqueue[e], t) # <<>>
      /\ Range(Append(c_runqueue[e], t)) = Range(c_runqueue[e]) \cup {t}
      /\ Len(Append(c_runqueue[e], t)) = Len(c_runqueue[e]) + 1
  <2>1. /\ c # NoCPU /\ e \in CPUs /\ mig[c] \in Counts /\ mig[c].send <= Len(victims[c])
        /\ Len(victims[c]) \in Nat /\ IsThreadlist(victims[c]) /\ IsThreadlist(c_runqueue[e])
    BY <1>0, Parts, QueueLengths DEF TypeOK, ListsOK, ControlAt, MigrationAt, CPUs, NoCPU
  <2>2. mig[c].send \in Nat /\ m \in Counts /\ m.i = e /\ m.send = mig[c].send - 1
    <3>1. mig[c].send \in Nat /\ mig[c].send - 1 \in Nat
      BY <1>0, <2>1 DEF Counts
    <3> QED BY <2>1, <3>1, OneSent
  <2>3. victims[c] # <<>>
    BY <1>0, <2>1, <2>2, ListEmpty
  <2>4. /\ t \in Threads /\ t \in Range(victims[c])
        /\ IsThreadlist(Tail(victims[c])) /\ Range(Tail(victims[c])) = Range(victims[c]) \ {t}
        /\ Len(Tail(victims[c])) = Len(victims[c]) - 1
    BY <2>1, <2>3, ListTail
  <2> HIDE DEF t, e, m
  <2>5. t_state[t] = "S_READY" /\ t_cpu[t] = c /\ t \notin Range(c_runqueue[e])
    BY <2>1, <2>4, Parts DEF PlacesAt
  <2>6. /\ IsThreadlist(Append(c_runqueue[e], t)) /\ Append(c_runqueue[e], t) # <<>>
        /\ Range(Append(c_runqueue[e], t)) = Range(c_runqueue[e]) \cup {t}
        /\ Len(Append(c_runqueue[e], t)) = Len(c_runqueue[e]) + 1
    BY <2>1, <2>4, <2>5, ListAppend
  <2> QED BY <2>1, <2>2, <2>4, <2>5, <2>6
<1> HIDE DEF e, t, m
<1>2. /\ TypeOK /\ ListsOK /\ AsleepInv /\ ControlAt(c) /\ Functional
      /\ \A d \in CPUs : Len(c_runqueue[d]) \in Nat
  BY Parts, VariablesFunctional, QueueLengths
<1> USE <1>0, <1>1, <1>2
<1>3. TypeOK'
  BY DEF TypeOK, Labels, States
<1>4. ListsOK'
  BY DEF ListsOK
<1>5. ASSUME NEW d \in CPUs \ {c} PROVE FromOutside(d)
  BY DEF FromOutside, Functional
<1>6. ControlAt(c)'
  BY DEF Functional, ControlAt, IdleAt, ChannelAt, MigrationAt, UnidleAt
<1>7. ASSUME NEW d \in CPUs PROVE PlacesAt(d)'
  <2>1. PlacesAt(d)
    BY Parts
  <2> QED BY <2>1, Members DEF Functional, PlacesAt
<1>8. AsleepInv'
  BY Members DEF Functional, AsleepInv
<1>9. ASSUME NEW u \in Threads PROVE HomeOf(u)'
  <2>1. HomeOf(u)
    BY Parts
  <2> QED BY <2>1 DEF Functional, HomeOf
<1> QED BY <1>3, <1>4, <1>5, <1>6, <1>7, <1>8, <1>9, Parts, OutsideKeeps DEF IInv

\* The thread on whose stack migration runs stays on the private list.
LEMMA SkipCurthreadInv ==
  ASSUME IInv, NEW c \in CPUs, mg_skip_curthread(c)
  PROVE  IInv'
<1> DEFINE s == Append(Tail(victims[c]), Head(victims[c]))
           m == [mig[c] EXCEPT !.send = mig[c].send - 1]
<1>0. /\ pc[c] = "mg_move" /\ mig[c].send > 0
      /\ victims' = [victims EXCEPT ![c] = s]
      /\ mig' = [mig EXCEPT ![c] = m]
      /\ UNCHANGED <<t_state, t_cpu, resume, c_curthread, c_isidle, c_zombies, c_runqueue,
                     c_unidle, wc_threads, wc_lock, pc, newstate, list>>
  BY DEF mg_skip_curthread, threadVars, cpuVars, queueVars, wchanVars
<1>1. /\ c # NoCPU /\ m \in Counts /\ m.i = mig[c].i /\ m.send = mig[c].send - 1
      /\ mig[c].send \in Nat /\ mig[c].send <= Len(victims[c]) /\ Len(victims[c]) \in Nat
      /\ IsThreadlist(s) /\ Range(s) = Range(victims[c]) /\ Len(s) = Len(victims[c])
  <2>1. /\ c # NoCPU /\ mig[c] \in Counts /\ mig[c].send <= Len(victims[c])
        /\ Len(victims[c]) \in Nat /\ IsThreadlist(victims[c])
    BY <1>0, Parts, QueueLengths DEF TypeOK, ListsOK, ControlAt, MigrationAt, CPUs, NoCPU
  <2>2. mig[c].send \in Nat /\ m \in Counts /\ m.i = mig[c].i /\ m.send = mig[c].send - 1
    <3>1. mig[c].send \in Nat /\ mig[c].send - 1 \in Nat
      BY <1>0, <2>1 DEF Counts
    <3> QED BY <2>1, <3>1, OneSent
  <2>3. victims[c] # <<>>
    BY <1>0, <2>1, <2>2, ListEmpty
  <2>4. IsThreadlist(s) /\ Range(s) = Range(victims[c]) /\ Len(s) = Len(victims[c])
    BY <2>1, <2>3, ListRotate
  <2> QED BY <2>1, <2>2, <2>4
<1> HIDE DEF s, m
<1>2. /\ TypeOK /\ ListsOK /\ AsleepInv /\ ControlAt(c) /\ Functional
      /\ \A d \in CPUs : Len(c_runqueue[d]) \in Nat
  BY Parts, VariablesFunctional, QueueLengths
<1> USE <1>0, <1>1, <1>2
<1>3. TypeOK'
  BY DEF TypeOK, Labels, States
<1>4. ListsOK'
  BY DEF ListsOK
<1>5. ASSUME NEW d \in CPUs \ {c} PROVE FromOutside(d)
  BY DEF FromOutside, Functional
<1>6. ControlAt(c)'
  BY DEF Functional, ControlAt, IdleAt, ChannelAt, MigrationAt, UnidleAt
<1>7. ASSUME NEW d \in CPUs PROVE PlacesAt(d)'
  <2>1. PlacesAt(d)
    BY Parts
  <2> QED BY <2>1, Members DEF Functional, PlacesAt
<1>8. AsleepInv'
  BY Members DEF Functional, AsleepInv
<1>9. ASSUME NEW u \in Threads PROVE HomeOf(u)'
  <2>1. HomeOf(u)
    BY Parts
  <2> QED BY <2>1 DEF Functional, HomeOf
<1> QED BY <1>3, <1>4, <1>5, <1>6, <1>7, <1>8, <1>9, Parts, OutsideKeeps DEF IInv

\* What is left of the private list goes back to the queue it came from.
LEMMA BackInv ==
  ASSUME IInv, NEW c \in CPUs, mg_back(c)
  PROVE  IInv'
<1> DEFINE s == c_runqueue[c] \o victims[c]
<1>0. /\ pc[c] = "mg_send"
      /\ c_runqueue' = [c_runqueue EXCEPT ![c] = s]
      /\ victims' = [victims EXCEPT ![c] = <<>>]
      /\ mig' = [mig EXCEPT ![c] = NoCounts]
      /\ IF c_isidle[c] THEN pc' = [pc EXCEPT ![c] = "unidle"] /\ UNCHANGED newstate
         ELSE pc' = [pc EXCEPT ![c] = "sw_lock"] /\ newstate' = [newstate EXCEPT ![c] = "S_READY"]
      /\ UNCHANGED <<t_state, t_cpu, resume, c_curthread, c_isidle, c_zombies, c_unidle,
                     wc_threads, wc_lock, list>>
  BY DEF mg_back, CallSwitch, Goto, threadVars, cpuVars, wchanVars
<1>1. /\ c # NoCPU /\ NoCounts \in Counts
      /\ IsThreadlist(<<>>) /\ Range(<<>>) = {}
      /\ IsThreadlist(s) /\ Range(s) = Range(c_runqueue[c]) \cup Range(victims[c])
  <2>1. /\ c # NoCPU /\ NoCounts \in Counts /\ Range(c_runqueue[c]) \cap Range(victims[c]) = {}
        /\ IsThreadlist(victims[c]) /\ IsThreadlist(c_runqueue[c])
    BY Parts DEF ListsOK, PlacesAt, CPUs, NoCPU, NoCounts, Counts
  <2> QED BY <2>1, ListEmpty, ListConcat
<1> HIDE DEF s
<1>2. /\ TypeOK /\ ListsOK /\ AsleepInv /\ ControlAt(c) /\ Functional
      /\ \A d \in CPUs : Len(c_runqueue[d]) \in Nat
  BY Parts, VariablesFunctional, QueueLengths
<1> USE <1>0, <1>1, <1>2
<1>3. TypeOK'
  BY SMTT(30) DEF TypeOK, Labels, States
<1>4. ListsOK'
  BY DEF ListsOK
<1>5. ASSUME NEW d \in CPUs \ {c} PROVE FromOutside(d)
  BY DEF FromOutside, Functional
<1>6. ControlAt(c)'
  BY DEF Functional, ControlAt, IdleAt, ChannelAt, MigrationAt, UnidleAt
<1>7. ASSUME NEW d \in CPUs PROVE PlacesAt(d)'
  <2>1. PlacesAt(d)
    BY Parts
  <2> QED BY <2>1, Members DEF Functional, PlacesAt
<1>8. AsleepInv'
  BY Members DEF Functional, AsleepInv
<1>9. ASSUME NEW u \in Threads PROVE HomeOf(u)'
  <2>1. HomeOf(u)
    BY Parts
  <2> QED BY <2>1 DEF Functional, HomeOf
<1> QED BY <1>3, <1>4, <1>5, <1>6, <1>7, <1>8, <1>9, Parts, OutsideKeeps DEF IInv

-----------------------------------------------------------------------------
(* The invariant *)
\* It holds at boot.
LEMMA InitInv == Init => IInv
<1> SUFFICES ASSUME Init PROVE IInv
  OBVIOUS
<1>1. /\ c_curthread \in [CPUs -> Threads] /\ DOMAIN c_curthread = CPUs
      /\ \A c, d \in CPUs : c_curthread[c] = c_curthread[d] => c = d
  BY DEF Init, Injection, IsInjective
<1>2. \A t : t \in Range(c_curthread) <=> \E c \in CPUs : c_curthread[c] = t
  BY <1>1 DEF Range
<1>3. /\ t_state = [t \in Threads |-> IF t \in Range(c_curthread) THEN "S_RUN" ELSE "S_FREE"]
      /\ t_cpu = [t \in Threads |-> IF t \in Range(c_curthread)
                                    THEN CHOOSE c \in CPUs : c_curthread[c] = t ELSE NoCPU]
  BY DEF Init
<1>4. ASSUME NEW t \in Threads, t \in Range(c_curthread)
      PROVE  t_cpu[t] \in CPUs /\ c_curthread[t_cpu[t]] = t
  BY <1>2, <1>3, <1>4
<1>5. \A c \in CPUs : c_curthread[c] \in Threads /\ t_cpu[c_curthread[c]] = c
  <2> SUFFICES ASSUME NEW c \in CPUs
               PROVE  c_curthread[c] \in Threads /\ t_cpu[c_curthread[c]] = c
    OBVIOUS
  <2>1. c_curthread[c] \in Threads /\ c_curthread[c] \in Range(c_curthread)
    BY <1>1, <1>2
  <2> QED BY <1>1, <1>4, <2>1
<1>6. /\ \A t \in Threads : t_cpu[t] \in CPUs \cup {NoCPU}
      /\ t_cpu \in [Threads -> CPUs \cup {NoCPU}] /\ t_state \in [Threads -> States]
  <2>1. \A t \in Threads : t_cpu[t] \in CPUs \cup {NoCPU} /\ t_state[t] \in States
    BY <1>3, <1>4 DEF States
  <2> QED BY <1>3, <2>1
<1>7. NoCounts \in Counts
  BY DEF NoCounts, Counts
<1>8. TypeOK
  BY <1>1, <1>6, <1>7 DEF Init, TypeOK, Labels
<1>9. ListsOK /\ AsleepInv
  BY ListEmpty DEF Init, ListsOK, AsleepInv
<1>10. ASSUME NEW c \in CPUs PROVE ControlAt(c)
  BY ListEmpty, <1>7 DEF Init, ControlAt, IdleAt, ChannelAt, MigrationAt, UnidleAt, CPUs, NoCPU
<1>11. ASSUME NEW c \in CPUs PROVE PlacesAt(c)
  <2>1. t_state[c_curthread[c]] = "S_RUN"
    BY <1>2, <1>3, <1>5
  <2>2. Range(c_runqueue[c]) = {} /\ Range(victims[c]) = {} /\ Range(list[c]) = {}
        /\ Range(c_zombies[c]) = {}
    BY ListEmpty DEF Init
  <2> QED BY <1>5, <2>1, <2>2 DEF PlacesAt
<1>12. ASSUME NEW t \in Threads PROVE HomeOf(t)
  <2>1. t_state[t] = "S_FREE" \/ (t_state[t] = "S_RUN" /\ t \in Range(c_curthread))
    BY <1>3
  <2>2. \A c \in CPUs : ~c_isidle[c]
    BY DEF Init
  <2> QED BY <1>4, <2>1, <2>2 DEF HomeOf
<1> QED BY <1>8, <1>9, <1>10, <1>11, <1>12 DEF IInv

\* Every step of every CPU keeps it.
LEMMA NextInv == IInv /\ [Next]_vars => IInv'
<1> SUFFICES ASSUME IInv, [Next]_vars PROVE IInv'
  OBVIOUS
<1>1. CASE UNCHANGED vars
  <2>1. UNCHANGED <<t_state, t_cpu, resume, c_curthread, c_isidle, c_zombies, c_runqueue, c_unidle,
                    wc_threads, wc_lock, pc, newstate, list, victims, mig>>
    BY <1>1 DEF vars, threadVars, cpuVars, queueVars, wchanVars, localVars
  <2>2. TypeOK' /\ ListsOK' /\ AsleepInv'
    BY <2>1, Parts DEF TypeOK, ListsOK, AsleepInv
  <2>3. ASSUME NEW c \in CPUs PROVE ControlAt(c)' /\ PlacesAt(c)'
    <3>1. ControlAt(c)'
      BY <2>1, Parts DEF ControlAt, IdleAt, ChannelAt, MigrationAt, UnidleAt
    <3>2. PlacesAt(c)'
      BY <2>1, Parts DEF PlacesAt
    <3> QED BY SMTT(30), <3>1, <3>2
  <2>4. ASSUME NEW t \in Threads PROVE HomeOf(t)'
    BY <2>1, Parts DEF HomeOf
  <2> QED BY <2>2, <2>3, <2>4 DEF IInv
<1>2. CASE Next
  <2>1. PICK c \in CPUs : \/ Step(c) \/ thread_fork(c) \/ thread_exit(c) \/ use_wchan(c)
                          \/ interprocessor_interrupt(c) \/ hardclock(c) \/ hardclock_migrate(c)
    BY <1>2 DEF Next
  <2>2. CASE QuietStep(c)
    BY <2>2, QuietInv
  <2>3. CASE sw_yield(c) \/ sw_sleep(c) \/ sw_zombie(c) \/ sw_pick(c) \/ exorcise(c)
    BY <2>3, YieldInv, SleepInv, ZombieInv, PickInv, ExorciseInv
  <2>4. CASE wchan_wakeone(c) \/ wchan_wakeall(c) \/ wake_next(c) \/ thread_fork(c)
    BY <2>4, WakeoneInv, WakeallInv, WakeNextInv, ForkInv
  <2>5. CASE mg_take(c) \/ mg_move(c) \/ mg_skip_curthread(c) \/ mg_back(c)
    BY <2>5, TakeInv, MoveInv, SkipCurthreadInv, BackInv
  <2> QED BY <2>1, <2>2, <2>3, <2>4, <2>5
          DEF Step, thread_switch, wchan, wchan_sleep_relock, thread_consider_migration, QuietStep
<1> QED BY <1>1, <1>2

\* The scheduler keeps every thread where its t_state and t_cpu say.
THEOREM InductiveInvariant == Spec => []IInv
BY InitInv, NextInv, PTL DEF Spec

-----------------------------------------------------------------------------
(* What it implies *)
\* The cardinality of sets of up to one element, from its definition
LEMMA CardinalityZero == Cardinality({}) = 0
<1> DEFINE F(g) == [T \in SUBSET {} |-> IF T = {} THEN 0 ELSE 1 + g[T \ {CHOOSE y : y \in T}]]
           CS == CHOOSE g : g = F(g)
           f == [T \in SUBSET {} |-> 0]
<1>1. f = F(f)
  OBVIOUS
<1> HIDE DEF f
<1>2. CS = F(CS)
  BY <1>1, Zenon
<1>3. Cardinality({}) = CS[{}]
  BY DEF Cardinality
<1>4. {} \in SUBSET {}
  OBVIOUS
<1> HIDE DEF CS
<1> QED BY <1>2, <1>3, <1>4

LEMMA CardinalityOne == ASSUME NEW x PROVE Cardinality({x}) = 1
<1> DEFINE F(g) == [T \in SUBSET {x} |-> IF T = {} THEN 0 ELSE 1 + g[T \ {CHOOSE y : y \in T}]]
           CS == CHOOSE g : g = F(g)
           f == [T \in SUBSET {x} |-> IF T = {} THEN 0 ELSE 1]
<1>1. \A T \in SUBSET {x} : T = {} \/ (T = {x} /\ T \ {CHOOSE y : y \in T} = {})
  <2>1. \A T \in SUBSET {x} : T = {} \/ T = {x}
    OBVIOUS
  <2>2. {x} \ {CHOOSE y : y \in {x}} = {}
    OBVIOUS
  <2> QED BY <2>1, <2>2
<1>2. f = F(f)
  BY <1>1
<1> HIDE DEF f
<1>3. CS = F(CS)
  BY <1>2, Zenon
<1>4. Cardinality({x}) = CS[{x}]
  BY DEF Cardinality
<1>5. {} \in SUBSET {x} /\ {x} \in SUBSET {x} /\ {x} # {}
  OBVIOUS
<1> HIDE DEF CS
<1> QED BY <1>1, <1>3, <1>4, <1>5

\* A list without duplicates has a thread once, or not at all.
LEMMA OccurrencesOnce ==
  ASSUME NEW s, IsThreadlist(s), NEW t
  PROVE  Occurrences(s, t) = IF t \in Range(s) THEN 1 ELSE 0
<1> DEFINE S == {i \in DOMAIN s : s[i] = t}
<1>1. CASE t \in Range(s)
  <2>1. PICK i \in DOMAIN s : s[i] = t
    BY <1>1 DEF Range
  <2>2. S = {i}
    BY <2>1 DEF IsThreadlist, IsInjective
  <2> QED BY <1>1, <2>2, CardinalityOne DEF Occurrences
<1>2. CASE t \notin Range(s)
  <2>1. S = {}
    BY <1>2 DEF Range
  <2> QED BY <1>2, <2>1, CardinalityZero DEF Occurrences
<1> QED BY <1>1, <1>2

\* So do the lists of all CPUs together, when a thread is on those of one CPU.
LEMMA OnListsOnce ==
  ASSUME NEW l, NEW t, \A c \in CPUs : IsThreadlist(l[c]),
         \A c, d \in CPUs : t \in Range(l[c]) /\ t \in Range(l[d]) => c = d
  PROVE  OnLists(l, t) = IF \E c \in CPUs : t \in Range(l[c]) THEN 1 ELSE 0
<1> DEFINE At(c) == {<<c, i>> : i \in {j \in DOMAIN l[c] : l[c][j] = t}}
           S == UNION {At(c) : c \in CPUs}
<1>1. CASE \E c \in CPUs : t \in Range(l[c])
  <2>1. PICK c \in CPUs : t \in Range(l[c])
    BY <1>1
  <2>2. PICK i \in DOMAIN l[c] : l[c][i] = t
    BY <2>1 DEF Range
  <2>3. At(c) = {<<c, i>>}
    BY <2>2 DEF IsThreadlist, IsInjective
  <2>4. ASSUME NEW d \in CPUs, d # c PROVE At(d) = {}
    <3>1. t \notin Range(l[d])
      BY <2>1, <2>4
    <3> QED BY <3>1 DEF Range
  <2> HIDE DEF At
  <2>5. S = {<<c, i>>}
    BY <2>3, <2>4
  <2>6. Cardinality(S) = 1
    BY Zenon, <2>5, CardinalityOne
  <2> QED BY <1>1, <2>6 DEF OnLists, At
<1>2. CASE ~\E c \in CPUs : t \in Range(l[c])
  <2>1. ASSUME NEW c \in CPUs PROVE At(c) = {}
    BY <1>2 DEF Range
  <2> HIDE DEF At
  <2>2. S = {}
    BY <2>1
  <2>3. Cardinality(S) = 0
    BY <2>2, CardinalityZero
  <2> QED BY <1>2, <2>3 DEF OnLists, At
<1> QED BY <1>1, <1>2

\* Where a thread is and what its state is determine each other.
LEMMA WhereIs ==
  ASSUME IInv, NEW t \in Threads
  PROVE  /\ t_state[t] = "S_READY" <=> \/ \E c \in CPUs : t \in Range(c_runqueue[c])
                                       \/ \E c \in CPUs : t \in Range(victims[c])
         /\ ~(/\ \E c \in CPUs : t \in Range(c_runqueue[c])
              /\ \E c \in CPUs : t \in Range(victims[c]))
         /\ t_state[t] = "S_SLEEP" <=> \/ \E c \in CPUs : t \in Range(list[c])
                                       \/ t \in Range(wc_threads)
         /\ ~((\E c \in CPUs : t \in Range(list[c])) /\ t \in Range(wc_threads))
         /\ t_state[t] = "S_ZOMBIE" <=> \E c \in CPUs : t \in Range(c_zombies[c])
         /\ Cardinality(RunningOn(t)) = IF t_state[t] = "S_RUN" THEN 1 ELSE 0
<1>1. HomeOf(t) /\ \A c \in CPUs : PlacesAt(c)
  BY DEF IInv
<1>2. t_state[t] = "S_READY" <=> \/ \E c \in CPUs : t \in Range(c_runqueue[c])
                                 \/ \E c \in CPUs : t \in Range(victims[c])
  BY <1>1 DEF HomeOf, PlacesAt
<1>3. ~(/\ \E c \in CPUs : t \in Range(c_runqueue[c])
        /\ \E c \in CPUs : t \in Range(victims[c]))
  BY <1>1 DEF PlacesAt
<1>4. t_state[t] = "S_SLEEP" <=> \/ \E c \in CPUs : t \in Range(list[c])
                                 \/ t \in Range(wc_threads)
  BY SMTT(30), <1>1, Parts DEF AsleepInv, HomeOf, PlacesAt
<1>5. ~((\E c \in CPUs : t \in Range(list[c])) /\ t \in Range(wc_threads))
  BY <1>1 DEF PlacesAt
<1>6. t_state[t] = "S_ZOMBIE" <=> \E c \in CPUs : t \in Range(c_zombies[c])
  BY <1>1 DEF HomeOf, PlacesAt
<1>7. Cardinality(RunningOn(t)) = IF t_state[t] = "S_RUN" THEN 1 ELSE 0
  <2>1. CASE t_state[t] = "S_RUN"
    <3>1. RunningOn(t) = {t_cpu[t]}
      BY <1>1, <2>1 DEF RunningOn, HomeOf, PlacesAt
    <3> QED BY Zenon, <2>1, <3>1, CardinalityOne
  <2>2. CASE t_state[t] # "S_RUN"
    <3>1. RunningOn(t) = {}
      BY <1>1, <2>2 DEF RunningOn, PlacesAt
    <3> QED BY <2>2, <3>1, CardinalityZero
  <2> QED BY <2>1, <2>2
<1> QED BY <1>2, <1>3, <1>4, <1>5, <1>6, <1>7

\* Every thread has one place, the one its t_state names.
LEMMA InvOneHome == IInv => OneHome
<1> SUFFICES ASSUME IInv, NEW t \in Threads
             PROVE  LET queued == OnLists(c_runqueue, t) + OnLists(victims, t)
                        asleep == OnLists(list, t) + Occurrences(wc_threads, t)
                        dead == OnLists(c_zombies, t)
                        running == Cardinality(RunningOn(t))
                    IN /\ queued + asleep + dead + running = (IF t_state[t] = "S_FREE" THEN 0 ELSE 1)
                       /\ queued = 1 <=> t_state[t] = "S_READY"
                       /\ asleep = 1 <=> t_state[t] = "S_SLEEP"
                       /\ dead = 1 <=> t_state[t] = "S_ZOMBIE"
  BY DEF OneHome
<1>1. \A c \in CPUs : PlacesAt(c) /\ ChannelAt(c)
  BY SMTT(30), Parts DEF ControlAt
<1>2. OnLists(c_runqueue, t) = IF \E c \in CPUs : t \in Range(c_runqueue[c]) THEN 1 ELSE 0
  <2>1. \A c, d \in CPUs : t \in Range(c_runqueue[c]) /\ t \in Range(c_runqueue[d]) => c = d
    BY <1>1 DEF PlacesAt
  <2> QED BY <2>1, OnListsOnce, Parts DEF ListsOK
<1>3. OnLists(victims, t) = IF \E c \in CPUs : t \in Range(victims[c]) THEN 1 ELSE 0
  <2>1. \A c, d \in CPUs : t \in Range(victims[c]) /\ t \in Range(victims[d]) => c = d
    BY <1>1 DEF PlacesAt
  <2> QED BY <2>1, OnListsOnce, Parts DEF ListsOK
<1>4. OnLists(list, t) = IF \E c \in CPUs : t \in Range(list[c]) THEN 1 ELSE 0
  <2>1. ASSUME NEW c \in CPUs, t \in Range(list[c]) PROVE wc_lock = c
    BY <1>1, <2>1, ListEmpty DEF ChannelAt
  <2>2. \A c, d \in CPUs : t \in Range(list[c]) /\ t \in Range(list[d]) => c = d
    BY SMTT(30), <2>1
  <2> QED BY <2>2, OnListsOnce, Parts DEF ListsOK
<1>5. OnLists(c_zombies, t) = IF \E c \in CPUs : t \in Range(c_zombies[c]) THEN 1 ELSE 0
  <2>1. \A c, d \in CPUs : t \in Range(c_zombies[c]) /\ t \in Range(c_zombies[d]) => c = d
    BY <1>1 DEF PlacesAt
  <2> QED BY <2>1, OnListsOnce, Parts DEF ListsOK
<1>6. Occurrences(wc_threads, t) = IF t \in Range(wc_threads) THEN 1 ELSE 0
  BY OccurrencesOnce, Parts DEF ListsOK
<1>7. t_state[t] \in States
  BY Parts DEF TypeOK
<1> QED BY <1>2, <1>3, <1>4, <1>5, <1>6, <1>7, WhereIs DEF States

\* What the runs check follows from the invariant.
LEMMA InvImplies ==
  IInv => ThreadsAccounted /\ StackUsedByOneCPU /\ UnidleNotLost /\ NoStackFreedInUse
<1> SUFFICES ASSUME IInv
             PROVE  ThreadsAccounted /\ StackUsedByOneCPU /\ UnidleNotLost /\ NoStackFreedInUse
  OBVIOUS
<1>1. CpuFieldExact /\ NoStackFreedInUse
  BY Parts DEF PlacesAt, CpuFieldExact, NoStackFreedInUse
<1>2. VictimsExist /\ UnidleNotLost
  BY Parts DEF ControlAt, MigrationAt, UnidleAt, VictimsExist, UnidleNotLost
<1>3. StackUsedByOneCPU
  BY Parts DEF PlacesAt, StackUsedByOneCPU
<1> QED BY <1>1, <1>2, <1>3, InvOneHome DEF ThreadsAccounted

\* No thread is lost or in two places, whatever the number of CPUs and threads
\* (thread_switch, thread_make_runnable, thread_consider_migration).
THEOREM NoThreadIsLost == Spec => []ThreadsAccounted
BY InductiveInvariant, InvImplies, PTL

\* No two CPUs ever use one stack (thread_switch).
THEOREM StacksAreApart == Spec => []StackUsedByOneCPU
BY InductiveInvariant, InvImplies, PTL

\* The wakeup of a CPU that waits in cpu_idle is not lost (thread_make_runnable
\* and the migration of a thread to an idle CPU).
THEOREM WakeupsReachIdleCPUs == Spec => []UnidleNotLost
BY InductiveInvariant, InvImplies, PTL

\* exorcise never destroys a thread on whose stack a CPU still is.
THEOREM StacksOutliveTheirUse == Spec => []NoStackFreedInUse
BY InductiveInvariant, InvImplies, PTL
=============================================================================

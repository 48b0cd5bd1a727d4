---------------------------- MODULE SchedMoves -----------------------------
(***************************************************************************)
(* The steps of thread_switch and of the wakeups, which move a thread,     *)
(* keep the invariant of SchedControl.  Each proof first says what the     *)
(* step does to the variables (<1>0) and what the lists involved look like *)
(* after it (<1>1), and then takes the invariant apart: types, lists, the  *)
(* control of the other CPUs and of this one, the places of each CPU, the  *)
(* home of each thread.                                                    *)
(***************************************************************************)
EXTENDS SchedControl

\* The thread that is picked runs, and is on no list any more.
LEMMA PickInv ==
  ASSUME IInv, NEW c \in CPUs, sw_pick(c)
  PROVE  IInv'
<1> DEFINE t == Head(c_runqueue[c])
<1>0. /\ pc[c] = "sw_pick" /\ c_runqueue[c] # <<>>
      /\ c_curthread' = [c_curthread EXCEPT ![c] = t]
      /\ c_runqueue' = [c_runqueue EXCEPT ![c] = Tail(c_runqueue[c])]
      /\ c_isidle' = [c_isidle EXCEPT ![c] = FALSE]
      /\ t_state' = [t_state EXCEPT ![t] = "S_RUN"]
      /\ pc' = [pc EXCEPT ![c] = "exorcise"]
      /\ UNCHANGED <<t_cpu, resume, c_zombies, c_unidle, wc_threads, wc_lock, newstate,
                     list, victims, mig>>
  BY DEF sw_pick, Goto, wchanVars, localVars
<1>1. /\ c # NoCPU /\ t \in Threads /\ t \in Range(c_runqueue[c])
      /\ c_isidle[c] /\ t_state[t] = "S_READY" /\ t_cpu[t] = c
      /\ IsThreadlist(Tail(c_runqueue[c]))
      /\ Range(Tail(c_runqueue[c])) = Range(c_runqueue[c]) \ {t}
  <2>1. c # NoCPU /\ c_isidle[c] /\ IsThreadlist(c_runqueue[c])
    BY <1>0, Parts DEF ListsOK, ControlAt, IdleAt, CPUs, NoCPU
  <2>2. /\ t \in Threads /\ t \in Range(c_runqueue[c])
        /\ IsThreadlist(Tail(c_runqueue[c])) /\ Range(Tail(c_runqueue[c])) = Range(c_runqueue[c]) \ {t}
    BY <1>0, <2>1, ListTail
  <2>3. t_state[t] = "S_READY" /\ t_cpu[t] = c
    BY <2>2, Parts DEF PlacesAt
  <2> QED BY <2>1, <2>2, <2>3
<1> HIDE DEF t
<1>2. /\ TypeOK /\ ListsOK /\ AsleepInv /\ ControlAt(c) /\ Functional
      /\ \A d \in CPUs : Len(c_runqueue[d]) \in Nat
  BY Parts, VariablesFunctional, QueueLengths
<1> USE <1>0, <1>1, <1>2
<1>3. TypeOK'
  BY DEF TypeOK, Labels, States
<1>4. ListsOK'
  BY DEF ListsOK
<1>5. ASSUME NEW d \in CPUs \ {c} PROVE FromOutside(d)
  BY DEF FromOutside, Functional
<1>6. ControlAt(c)'
  BY DEF Functional, ControlAt, IdleAt, ChannelAt, MigrationAt, UnidleAt
<1>7. ASSUME NEW d \in CPUs PROVE PlacesAt(d)'
  <2>1. PlacesAt(d)
    BY Parts
  <2> QED BY <2>1, Members DEF Functional, PlacesAt
<1>8. AsleepInv'
  BY Members DEF Functional, AsleepInv
<1>9. ASSUME NEW u \in Threads PROVE HomeOf(u)'
  <2>1. HomeOf(u)
    BY Parts
  <2> QED BY <2>1 DEF Functional, HomeOf
<1> QED BY <1>3, <1>4, <1>5, <1>6, <1>7, <1>8, <1>9, Parts, OutsideKeeps DEF IInv

\* The thread that yields goes on the run queue of its CPU.
LEMMA YieldInv ==
  ASSUME IInv, NEW c \in CPUs, sw_yield(c)
  PROVE  IInv'
<1> DEFINE t == c_curthread[c]
<1>0. /\ pc[c] = "sw_lock" /\ newstate[c] = "S_READY"
      /\ t_state' = [t_state EXCEPT ![t] = "S_READY"]
      /\ c_isidle' = [c_isidle EXCEPT ![c] = TRUE]
      /\ newstate' = [newstate EXCEPT ![c] = "S_READY"]
      /\ pc' = [pc EXCEPT ![c] = "sw_pick"]
      /\ c_runqueue' = [c_runqueue EXCEPT ![c] = Append(c_runqueue[c], t)]
      /\ c_unidle' = [c_unidle EXCEPT ![c] = c_unidle[c] \/ c_isidle[c]]
      /\ resume' = [resume EXCEPT ![t] = "run"]
      /\ UNCHANGED <<t_cpu, c_curthread, c_zombies, wc_threads, wc_lock, list, victims,
                     mig>>
  BY DEF sw_yield, sw_lock, make_runnable, Goto, wchanVars
<1>1. /\ c # NoCPU /\ ~c_isidle[c] /\ t \in Threads /\ t_state[t] = "S_RUN" /\ t_cpu[t] = c
      /\ t = c_curthread[c] /\ IsThreadlist(Append(c_runqueue[c], t)) /\ Append(c_runqueue[c], t) # <<>>
      /\ Range(Append(c_runqueue[c], t)) = Range(c_runqueue[c]) \cup {t} /\ t \notin Range(c_runqueue[c])
      /\ Len(Append(c_runqueue[c], t)) = Len(c_runqueue[c]) + 1
  <2>1. c # NoCPU /\ ~c_isidle[c] /\ IsThreadlist(c_runqueue[c]) /\ t \in Threads
    BY <1>0, Parts, VariablesFunctional DEF ListsOK, ControlAt, IdleAt, CPUs, NoCPU, Functional
  <2>2. t = c_curthread[c] /\ t_state[t] = "S_RUN" /\ t_cpu[t] = c
    BY <2>1, Parts DEF PlacesAt
  <2>3. t \notin Range(c_runqueue[c])
    BY <2>2, Parts DEF PlacesAt
  <2> HIDE DEF t
  <2> QED BY <2>1, <2>2, <2>3, ListAppend
<1> HIDE DEF t
<1>2. /\ TypeOK /\ ListsOK /\ AsleepInv /\ ControlAt(c) /\ Functional
      /\ \A d \in CPUs : Len(c_runqueue[d]) \in Nat
  BY Parts, VariablesFunctional, QueueLengths
<1> USE <1>0, <1>1, <1>2
<1>3. TypeOK'
  BY DEF TypeOK, Labels, States
<1>4. ListsOK'
  BY DEF ListsOK
<1>5. ASSUME NEW d \in CPUs \ {c} PROVE FromOutside(d)
  BY DEF FromOutside, Functional
<1>6. ControlAt(c)'
  BY DEF Functional, ControlAt, IdleAt, ChannelAt, MigrationAt, UnidleAt
<1>7. ASSUME NEW d \in CPUs PROVE PlacesAt(d)'
  <2>1. PlacesAt(d)
    BY Parts
  <2> QED BY <2>1, Members DEF Functional, PlacesAt
<1>8. AsleepInv'
  BY Members DEF Functional, AsleepInv
<1>9. ASSUME NEW u \in Threads PROVE HomeOf(u)'
  <2>1. HomeOf(u)
    BY Parts
  <2> QED BY <2>1 DEF Functional, HomeOf
<1> QED BY <1>3, <1>4, <1>5, <1>6, <1>7, <1>8, <1>9, Parts, OutsideKeeps DEF IInv

\* The thread that sleeps goes on the channel.
LEMMA SleepInv ==
  ASSUME IInv, NEW c \in CPUs, sw_sleep(c)
  PROVE  IInv'
<1> DEFINE t == c_curthread[c]
<1>0. /\ pc[c] = "sw_lock" /\ newstate[c] = "S_SLEEP"
      /\ t_state' = [t_state EXCEPT ![t] = "S_SLEEP"]
      /\ c_isidle' = [c_isidle EXCEPT ![c] = TRUE]
      /\ newstate' = [newstate EXCEPT ![c] = "S_READY"]
      /\ pc' = [pc EXCEPT ![c] = "sw_pick"]
      /\ wc_threads' = Append(wc_threads, t)
      /\ wc_lock' = NoCPU
      /\ resume' = [resume EXCEPT ![t] = "relock"]
      /\ UNCHANGED <<t_cpu, c_curthread, c_zombies, c_runqueue, c_unidle, list, victims,
                     mig>>
  BY DEF sw_sleep, sw_lock, Goto
<1>1. /\ c # NoCPU /\ ~c_isidle[c] /\ t \in Threads /\ t_state[t] = "S_RUN" /\ t_cpu[t] = c
      /\ t = c_curthread[c] /\ wc_lock = c /\ IsThreadlist(Append(wc_threads, t)) /\ Append(wc_threads, t) # <<>>
      /\ Range(Append(wc_threads, t)) = Range(wc_threads) \cup {t} /\ t \notin Range(wc_threads)
      /\ Len(Append(wc_threads, t)) = Len(wc_threads) + 1
  <2>1. c # NoCPU /\ ~c_isidle[c] /\ wc_lock = c /\ IsThreadlist(wc_threads) /\ t \in Threads
    BY <1>0, Parts, VariablesFunctional DEF ListsOK, ControlAt, IdleAt, ChannelAt, CPUs, NoCPU, Functional
  <2>2. t = c_curthread[c] /\ t_state[t] = "S_RUN" /\ t_cpu[t] = c
    BY <2>1, Parts DEF PlacesAt
  <2>3. t \notin Range(wc_threads)
    BY <2>2, Parts DEF AsleepInv
  <2> HIDE DEF t
  <2> QED BY <2>1, <2>2, <2>3, ListAppend
<1> HIDE DEF t
<1>2. /\ TypeOK /\ ListsOK /\ AsleepInv /\ ControlAt(c) /\ Functional
      /\ \A d \in CPUs : Len(c_runqueue[d]) \in Nat
  BY Parts, VariablesFunctional, QueueLengths
<1> USE <1>0, <1>1, <1>2
<1>3. TypeOK'
  BY DEF TypeOK, Labels, States
<1>4. ListsOK'
  BY DEF ListsOK
<1>5. ASSUME NEW d \in CPUs \ {c} PROVE FromOutside(d)
  BY DEF FromOutside, Functional
<1>6. ControlAt(c)'
  BY DEF Functional, ControlAt, IdleAt, ChannelAt, MigrationAt, UnidleAt
<1>7. ASSUME NEW d \in CPUs PROVE PlacesAt(d)'
  <2>1. PlacesAt(d)
    BY Parts
  <2> QED BY <2>1, Members DEF Functional, PlacesAt
<1>8. AsleepInv'
  BY Members DEF Functional, AsleepInv
<1>9. ASSUME NEW u \in Threads PROVE HomeOf(u)'
  <2>1. HomeOf(u)
    BY Parts
  <2> QED BY <2>1 DEF Functional, HomeOf
<1> QED BY <1>3, <1>4, <1>5, <1>6, <1>7, <1>8, <1>9, Parts, OutsideKeeps DEF IInv

\* The thread that exits goes on the zombie list of its CPU.
LEMMA ZombieInv ==
  ASSUME IInv, NEW c \in CPUs, sw_zombie(c)
  PROVE  IInv'
<1> DEFINE t == c_curthread[c]
<1>0. /\ pc[c] = "sw_lock" /\ newstate[c] = "S_ZOMBIE"
      /\ t_state' = [t_state EXCEPT ![t] = "S_ZOMBIE"]
      /\ c_isidle' = [c_isidle EXCEPT ![c] = TRUE]
      /\ newstate' = [newstate EXCEPT ![c] = "S_READY"]
      /\ pc' = [pc EXCEPT ![c] = "sw_pick"]
      /\ c_zombies' = [c_zombies EXCEPT ![c] = Append(c_zombies[c], t)]
      /\ UNCHANGED <<t_cpu, resume, c_curthread, c_runqueue, c_unidle, wc_threads, wc_lock,
                     list, victims, mig>>
  BY DEF sw_zombie, sw_lock, Goto, wchanVars
<1>1. /\ c # NoCPU /\ ~c_isidle[c] /\ t \in Threads /\ t_state[t] = "S_RUN" /\ t_cpu[t] = c
      /\ t = c_curthread[c] /\ IsThreadlist(Append(c_zombies[c], t)) /\ Append(c_zombies[c], t) # <<>>
      /\ Range(Append(c_zombies[c], t)) = Range(c_zombies[c]) \cup {t} /\ t \notin Range(c_zombies[c])
      /\ Len(Append(c_zombies[c], t)) = Len(c_zombies[c]) + 1
  <2>1. c # NoCPU /\ ~c_isidle[c] /\ IsThreadlist(c_zombies[c]) /\ t \in Threads
    BY <1>0, Parts, VariablesFunctional DEF ListsOK, ControlAt, IdleAt, CPUs, NoCPU, Functional
  <2>2. t = c_curthread[c] /\ t_state[t] = "S_RUN" /\ t_cpu[t] = c
    BY <2>1, Parts DEF PlacesAt
  <2>3. t \notin Range(c_zombies[c])
    BY <2>2, Parts DEF PlacesAt
  <2> HIDE DEF t
  <2> QED BY <2>1, <2>2, <2>3, ListAppend
<1> HIDE DEF t
<1>2. /\ TypeOK /\ ListsOK /\ AsleepInv /\ ControlAt(c) /\ Functional
      /\ \A d \in CPUs : Len(c_runqueue[d]) \in Nat
  BY Parts, VariablesFunctional, QueueLengths
<1> USE <1>0, <1>1, <1>2
<1>3. TypeOK'
  BY DEF TypeOK, Labels, States
<1>4. ListsOK'
  BY DEF ListsOK
<1>5. ASSUME NEW d \in CPUs \ {c} PROVE FromOutside(d)
  BY DEF FromOutside, Functional
<1>6. ControlAt(c)'
  BY DEF Functional, ControlAt, IdleAt, ChannelAt, MigrationAt, UnidleAt
<1>7. ASSUME NEW d \in CPUs PROVE PlacesAt(d)'
  <2>1. PlacesAt(d)
    BY Parts
  <2> QED BY <2>1, Members DEF Functional, PlacesAt
<1>8. AsleepInv'
  BY Members DEF Functional, AsleepInv
<1>9. ASSUME NEW u \in Threads PROVE HomeOf(u)'
  <2>1. HomeOf(u)
    BY Parts
  <2> QED BY <2>1 DEF Functional, HomeOf
<1> QED BY <1>3, <1>4, <1>5, <1>6, <1>7, <1>8, <1>9, Parts, OutsideKeeps DEF IInv

\* Only threads on whose stack no CPU is are destroyed.
LEMMA ExorciseInv ==
  ASSUME IInv, NEW c \in CPUs, exorcise(c)
  PROVE  IInv'
<1> DEFINE t == c_curthread[c]
           Z == Range(c_zombies[c])
<1>0. /\ pc[c] = "exorcise"
      /\ t_state' = [u \in Threads |-> IF u \in Z THEN "S_FREE" ELSE t_state[u]]
      /\ t_cpu' = [u \in Threads |-> IF u \in Z THEN NoCPU ELSE t_cpu[u]]
      /\ c_zombies' = [c_zombies EXCEPT ![c] = <<>>]
      /\ pc' = [pc EXCEPT ![c] = resume[t]]
      /\ resume' = [resume EXCEPT ![t] = "run"]
      /\ UNCHANGED <<c_curthread, c_isidle, c_runqueue, c_unidle, wc_threads, wc_lock,
                     newstate, list, victims, mig>>
  BY DEF exorcise, Goto, queueVars, wchanVars, localVars
<1>1. /\ c # NoCPU /\ ~c_isidle[c] /\ t = c_curthread[c] /\ t \in Threads /\ t_state[t] = "S_RUN"
      /\ Z = Range(c_zombies[c]) /\ \A u \in Z : t_state[u] = "S_ZOMBIE" /\ t_cpu[u] = c
      /\ resume[t] \in {"run", "relock"} /\ IsThreadlist(<<>>) /\ Range(<<>>) = {}
  <2>1. c # NoCPU /\ ~c_isidle[c] /\ t \in Threads /\ resume[t] \in {"run", "relock"}
    BY <1>0, Parts DEF TypeOK, ControlAt, IdleAt, CPUs, NoCPU
  <2>2. t_state[t] = "S_RUN" /\ \A u \in Z : t_state[u] = "S_ZOMBIE" /\ t_cpu[u] = c
    BY <2>1, Parts DEF PlacesAt
  <2> QED BY <2>1, <2>2, ListEmpty
<1> HIDE DEF t, Z
<1>2. /\ TypeOK /\ ListsOK /\ AsleepInv /\ ControlAt(c) /\ Functional
      /\ \A d \in CPUs : Len(c_runqueue[d]) \in Nat
  BY Parts, VariablesFunctional, QueueLengths
<1> USE <1>0, <1>1, <1>2
<1>3. TypeOK'
  BY DEF TypeOK, Labels, States
<1>4. ListsOK'
  BY DEF ListsOK
<1>5. ASSUME NEW d \in CPUs \ {c} PROVE FromOutside(d)
  BY DEF FromOutside, Functional
<1>6. ControlAt(c)'
  BY DEF Functional, ControlAt, IdleAt, ChannelAt, MigrationAt, UnidleAt
<1>7. ASSUME NEW d \in CPUs PROVE PlacesAt(d)'
  <2>1. PlacesAt(d)
    BY Parts
  <2> QED BY <2>1, Members DEF Functional, PlacesAt
<1>8. AsleepInv'
  BY Members DEF Functional, AsleepInv
<1>9. ASSUME NEW u \in Threads PROVE HomeOf(u)'
  <2>1. HomeOf(u)
    BY Parts
  <2> QED BY <2>1 DEF Functional, HomeOf
<1> QED BY <1>3, <1>4, <1>5, <1>6, <1>7, <1>8, <1>9, Parts, OutsideKeeps DEF IInv

\* A private list is empty unless its CPU holds the channel's spinlock.
LEMMA OneWaker ==
  ASSUME IInv, NEW c \in CPUs, wc_lock = c, NEW d \in CPUs \ {c}
  PROVE  list[d] = <<>> /\ Range(list[d]) = {}
BY Parts, ListEmpty DEF ControlAt, ChannelAt

\* The first thread of the channel becomes the private list,
LEMMA WakeoneInv ==
  ASSUME IInv, NEW c \in CPUs, wchan_wakeone(c)
  PROVE  IInv'
<1> DEFINE t == Head(wc_threads)
           s == <<t>>
<1>0. /\ pc[c] = "locked" /\ wc_threads # <<>>
      /\ list' = [list EXCEPT ![c] = s]
      /\ wc_threads' = Tail(wc_threads)
      /\ pc' = [pc EXCEPT ![c] = "wake"]
      /\ UNCHANGED <<t_state, t_cpu, resume, c_curthread, c_isidle, c_zombies, c_runqueue,
                     c_unidle, wc_lock, newstate, victims, mig>>
  BY DEF wchan_wakeone, Goto, threadVars, cpuVars, queueVars
<1>1. /\ c # NoCPU /\ wc_lock = c /\ Range(list[c]) = {}
      /\ t \in Threads /\ t \in Range(wc_threads) /\ t_state[t] = "S_SLEEP"
      /\ IsThreadlist(Tail(wc_threads)) /\ Range(Tail(wc_threads)) = Range(wc_threads) \ {t}
      /\ IsThreadlist(s) /\ Range(s) = {t} /\ s # <<>>
  <2>1. c # NoCPU /\ wc_lock = c /\ list[c] = <<>> /\ IsThreadlist(wc_threads)
    BY <1>0, Parts DEF ListsOK, ControlAt, ChannelAt, CPUs, NoCPU
  <2>2. /\ t \in Threads /\ t \in Range(wc_threads)
        /\ IsThreadlist(Tail(wc_threads)) /\ Range(Tail(wc_threads)) = Range(wc_threads) \ {t}
    BY <1>0, <2>1, ListTail
  <2>3. t_state[t] = "S_SLEEP"
    BY <2>2, Parts DEF AsleepInv
  <2> HIDE DEF t
  <2>4. IsThreadlist(s) /\ Range(s) = {t} /\ s # <<>>
    BY <2>2, ListOne
  <2> QED BY <2>1, <2>2, <2>3, <2>4, ListEmpty
<1> HIDE DEF t, s
<1>2. /\ TypeOK /\ ListsOK /\ AsleepInv /\ ControlAt(c) /\ Functional
      /\ \A d \in CPUs : Len(c_runqueue[d]) \in Nat
  BY Parts, VariablesFunctional, QueueLengths
<1> USE <1>0, <1>1, <1>2
<1>3. TypeOK'
  BY DEF TypeOK, Labels, States
<1>4. ListsOK'
  BY DEF ListsOK
<1>5. ASSUME NEW d \in CPUs \ {c} PROVE FromOutside(d)
  BY DEF FromOutside, Functional
<1>6. ControlAt(c)'
  BY SMTT(30) DEF Functional, ControlAt, IdleAt, ChannelAt, MigrationAt, UnidleAt
<1>7. ASSUME NEW d \in CPUs PROVE PlacesAt(d)'
  <2>1. PlacesAt(d)
    BY Parts
  <2> QED BY <2>1, Members DEF Functional, PlacesAt
<1>8. AsleepInv'
  BY Members DEF Functional, AsleepInv
<1>9. ASSUME NEW u \in Threads PROVE HomeOf(u)'
  <2>1. HomeOf(u)
    BY Parts
  <2> QED BY <2>1 DEF Functional, HomeOf
<1> QED BY <1>3, <1>4, <1>5, <1>6, <1>7, <1>8, <1>9, Parts, OutsideKeeps DEF IInv

\* or all of them do.
LEMMA WakeallInv ==
  ASSUME IInv, NEW c \in CPUs, wchan_wakeall(c)
  PROVE  IInv'
<1>0. /\ pc[c] = "locked" /\ wc_threads # <<>>
      /\ list' = [list EXCEPT ![c] = wc_threads]
      /\ wc_threads' = <<>>
      /\ pc' = [pc EXCEPT ![c] = "wake"]
      /\ UNCHANGED <<t_state, t_cpu, resume, c_curthread, c_isidle, c_zombies, c_runqueue,
                     c_unidle, wc_lock, newstate, victims, mig>>
  BY DEF wchan_wakeall, Goto, threadVars, cpuVars, queueVars
<1>1. /\ c # NoCPU /\ wc_lock = c /\ Range(list[c]) = {}
      /\ \A t \in Range(wc_threads) : t_state[t] = "S_SLEEP"
      /\ IsThreadlist(<<>>) /\ Range(<<>>) = {}
  BY <1>0, Parts, ListEmpty DEF AsleepInv, ControlAt, ChannelAt, CPUs, NoCPU
<1>2. /\ TypeOK /\ ListsOK /\ AsleepInv /\ ControlAt(c) /\ Functional
      /\ \A d \in CPUs : Len(c_runqueue[d]) \in Nat
  BY Parts, VariablesFunctional, QueueLengths
<1> USE <1>0, <1>1, <1>2
<1>3. TypeOK'
  BY DEF TypeOK, Labels, States
<1>4. ListsOK'
  BY DEF ListsOK
<1>5. ASSUME NEW d \in CPUs \ {c} PROVE FromOutside(d)
  BY DEF FromOutside, Functional
<1>6. ControlAt(c)'
  BY DEF Functional, ControlAt, IdleAt, ChannelAt, MigrationAt, UnidleAt
<1>7. ASSUME NEW d \in CPUs PROVE PlacesAt(d)'
  <2>1. PlacesAt(d)
    BY Parts
  <2> QED BY <2>1, Members DEF Functional, PlacesAt
<1>8. AsleepInv'
  BY Members DEF Functional, AsleepInv
<1>9. ASSUME NEW u \in Threads PROVE HomeOf(u)'
  <2>1. HomeOf(u)
    BY SMTT(30), Parts
  <2> QED BY <2>1 DEF Functional, HomeOf
<1> QED BY <1>3, <1>4, <1>5, <1>6, <1>7, <1>8, <1>9, Parts, OutsideKeeps DEF IInv

\* A thread that is woken goes to the run queue of its own CPU.
LEMMA WakeNextInv ==
  ASSUME IInv, NEW c \in CPUs, wake_next(c)
  PROVE  IInv'
<1> DEFINE t == Head(list[c])
           e == t_cpu[t]
<1>0. /\ pc[c] = "wake"
      /\ t_state' = [t_state EXCEPT ![t] = "S_READY"]
      /\ c_runqueue' = [c_runqueue EXCEPT ![e] = Append(c_runqueue[e], t)]
      /\ c_unidle' = [c_unidle EXCEPT ![e] = c_unidle[e] \/ c_isidle[e]]
      /\ list' = [list EXCEPT ![c] = Tail(list[c])]
      /\ pc' = [pc EXCEPT ![c] = IF Len(list[c]) = 1 THEN "locked" ELSE "wake"]
      /\ UNCHANGED <<t_cpu, resume, c_curthread, c_isidle, c_zombies, wc_threads, wc_lock,
                     newstate, victims, mig>>
  BY DEF wake_next, make_runnable, Goto, cpuVars, wchanVars
<1>1. /\ c # NoCPU /\ wc_lock = c
      /\ t \in Threads /\ t \in Range(list[c]) /\ t_state[t] = "S_SLEEP" /\ e = t_cpu[t] /\ e \in CPUs
      /\ t \notin Range(c_runqueue[e]) /\ t \notin Range(victims[e]) /\ t \notin Range(wc_threads)
      /\ IsThreadlist(Tail(list[c])) /\ Range(Tail(list[c])) = Range(list[c]) \ {t}
      /\ Tail(list[c]) = <<>> <=> Len(list[c]) = 1
      /\ IsThreadlist(Append(c_runqueue[e], t)) /\ Append(c_runqueue[e], t) # <<>>
      /\ Range(Append(c_runqueue[e], t)) = Range(c_runqueue[e]) \cup {t}
      /\ Len(Append(c_runqueue[e], t)) = Len(c_runqueue[e]) + 1
      /\ \A d \in CPUs \ {c} : Range(list[d]) = {}
  <2>1. c # NoCPU /\ list[c] # <<>> /\ wc_lock = c /\ IsThreadlist(list[c])
    BY <1>0, Parts DEF ListsOK, ControlAt, ChannelAt, CPUs, NoCPU
  <2>2. /\ t \in Threads /\ t \in Range(list[c])
        /\ IsThreadlist(Tail(list[c])) /\ Range(Tail(list[c])) = Range(list[c]) \ {t}
        /\ Tail(list[c]) = <<>> <=> Len(list[c]) = 1
    BY <2>1, ListTail
  <2> HIDE DEF t
  <2>3. t_state[t] = "S_SLEEP" /\ e \in CPUs /\ t \notin Range(wc_threads)
    BY <2>2, Parts DEF PlacesAt, HomeOf
  <2>4. t \notin Range(c_runqueue[e]) /\ t \notin Range(victims[e]) /\ IsThreadlist(c_runqueue[e])
    BY <2>2, <2>3, Parts DEF PlacesAt, ListsOK
  <2>5. e = t_cpu[t]
    OBVIOUS
  <2> HIDE DEF e
  <2>6. /\ IsThreadlist(Append(c_runqueue[e], t)) /\ Append(c_runqueue[e], t) # <<>>
        /\ Range(Append(c_runqueue[e], t)) = Range(c_runqueue[e]) \cup {t}
        /\ Len(Append(c_runqueue[e], t)) = Len(c_runqueue[e]) + 1
    BY <2>2, <2>4, ListAppend
  <2>7. \A d \in CPUs \ {c} : Range(list[d]) = {}
    BY <2>1, OneWaker
  <2> QED BY Zenon, <2>1, <2>2, <2>3, <2>4, <2>5, <2>6, <2>7
<1> HIDE DEF t, e
<1>2. /\ TypeOK /\ ListsOK /\ AsleepInv /\ ControlAt(c) /\ Functional
      /\ \A d \in CPUs : Len(c_runqueue[d]) \in Nat
  BY Parts, VariablesFunctional, QueueLengths
<1> USE <1>0, <1>1, <1>2
<1>3. TypeOK'
  BY SMTT(30) DEF TypeOK, Labels, States
<1>4. ListsOK'
  BY DEF ListsOK
<1>5. ASSUME NEW d \in CPUs \ {c} PROVE FromOutside(d)
  BY SMTT(30) DEF FromOutside, Functional
<1>6. ControlAt(c)'
  BY SMTT(30) DEF Functional, ControlAt, IdleAt, ChannelAt, MigrationAt, UnidleAt
<1>7. ASSUME NEW d \in CPUs PROVE PlacesAt(d)'
  <2>1. PlacesAt(d)
    BY SMTT(30), Parts
  <2> QED BY SMTT(30), <2>1, Members DEF Functional, PlacesAt
<1>8. AsleepInv'
  BY Members DEF Functional, AsleepInv
<1>9. ASSUME NEW u \in Threads PROVE HomeOf(u)'
  <2>1. HomeOf(u)
    BY Parts
  <2> QED BY Zenon, <2>1 DEF Functional, HomeOf
<1> QED BY SMTT(30), <1>3, <1>4, <1>5, <1>6, <1>7, <1>8, <1>9, Parts, OutsideKeeps DEF IInv
=============================================================================

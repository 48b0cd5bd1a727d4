---------------------------- MODULE SchedControl ---------------------------
(***************************************************************************)
(* Proofs about the scheduler, for any number of CPUs and threads.         *)
(*                                                                         *)
(* The invariant behind all of them is that t_cpu names the only CPU that  *)
(* may reach a thread (PlacesAt): a run queue, a private list of          *)
(* migration and the zombie list hold threads of their own CPU only, and a *)
(* CPU's curthread is its own too, also while the CPU idles on the stack   *)
(* of a thread that sleeps or has exited.                                  *)
(***************************************************************************)
EXTENDS Sched, TLAPS

Labels == {"run", "sw_lock", "sw_pick", "idle", "unidle", "exorcise", "relock", "locked", "wake",
           "mg_count", "mg_take", "mg_send", "mg_move"}
States == {"S_RUN", "S_READY", "S_SLEEP", "S_ZOMBIE", "S_FREE"}
Counts == [i : Nat \ {0}, my : Nat, total : Nat, share : Nat, send : Nat]

TypeOK ==
  /\ t_state \in [Threads -> States]
  /\ t_cpu \in [Threads -> CPUs \cup {NoCPU}]
  /\ resume \in [Threads -> {"run", "relock"}]
  /\ c_curthread \in [CPUs -> Threads]
  /\ c_isidle \in [CPUs -> BOOLEAN]
  /\ c_unidle \in [CPUs -> BOOLEAN]
  /\ pc \in [CPUs -> Labels]
  /\ newstate \in [CPUs -> {"S_READY", "S_SLEEP", "S_ZOMBIE"}]
  /\ mig \in [CPUs -> Counts]

\* A list of threads on which none is twice
IsThreadlist(s) == s \in Seq(Threads) /\ IsInjective(s)

ListsOK ==
  /\ DOMAIN c_runqueue = CPUs /\ DOMAIN victims = CPUs
  /\ DOMAIN c_zombies = CPUs /\ DOMAIN list = CPUs
  /\ IsThreadlist(wc_threads)
  /\ \A c \in CPUs :
       /\ IsThreadlist(c_runqueue[c]) /\ IsThreadlist(victims[c])
       /\ IsThreadlist(c_zombies[c]) /\ IsThreadlist(list[c])

\* c_isidle is set as long as the CPU is on the stack of a thread that does
\* not run, and nowhere else where it matters.
IdleAt(c) ==
  /\ pc[c] \in {"run", "sw_lock", "exorcise", "relock"} => ~c_isidle[c]
  /\ pc[c] \in {"sw_pick", "idle", "unidle"} => c_isidle[c]

\* Only the CPU that holds the channel's spinlock has a private list.
ChannelAt(c) ==
  /\ wc_lock = c <=>
       pc[c] \in {"locked", "wake"} \/ (pc[c] = "sw_lock" /\ newstate[c] = "S_SLEEP")
  /\ list[c] # <<>> <=> pc[c] = "wake"
  /\ pc[c] # "sw_lock" => newstate[c] = "S_READY"

\* Only CPU c takes threads from its run queue, so that what migration has
\* counted there is still there when it is taken.
MigrationAt(c) ==
  /\ pc[c] \notin {"mg_count", "mg_take", "mg_send", "mg_move"} => mig[c] = NoCounts
  /\ pc[c] = "mg_count" => mig[c].my <= Len(c_runqueue[c])
  /\ pc[c] = "mg_take" => mig[c].send <= Len(c_runqueue[c])
  /\ pc[c] \in {"mg_send", "mg_move"} => mig[c].send <= Len(victims[c])
  /\ pc[c] \notin {"mg_send", "mg_move"} => victims[c] = <<>>
  /\ pc[c] = "mg_move" => mig[c].i \in CPUs

\* A thread that is queued for a waiting CPU has interrupted it.
UnidleAt(c) == pc[c] = "idle" /\ c_runqueue[c] # <<>> => c_unidle[c]

ControlAt(c) == IdleAt(c) /\ ChannelAt(c) /\ MigrationAt(c) /\ UnidleAt(c)

\* What is on a list of a CPU, and what is current on it, agrees with t_state
\* and t_cpu,
PlacesAt(c) ==
  /\ \A t \in Range(c_runqueue[c]) : t_state[t] = "S_READY" /\ t_cpu[t] = c
  /\ \A t \in Range(victims[c]) :
       t_state[t] = "S_READY" /\ t_cpu[t] = c /\ t \notin Range(c_runqueue[c])
  /\ \A t \in Range(list[c]) : t_state[t] = "S_SLEEP" /\ t \notin Range(wc_threads)
  /\ \A t \in Range(c_zombies[c]) : t_state[t] = "S_ZOMBIE" /\ t_cpu[t] = c
  /\ ~c_isidle[c] => t_state[c_curthread[c]] = "S_RUN"
  /\ t_cpu[c_curthread[c]] = c /\ t_state[c_curthread[c]] # "S_FREE"

\* so does what is on the channel,
AsleepInv == \A t \in Range(wc_threads) : t_state[t] = "S_SLEEP"

\* and every thread is in the place that they name.
HomeOf(t) ==
  LET c == t_cpu[t] IN
  /\ t_state[t] # "S_FREE" => c \in CPUs
  /\ t_state[t] = "S_RUN" => c_curthread[c] = t /\ ~c_isidle[c]
  /\ t_state[t] = "S_READY" => t \in Range(c_runqueue[c]) \cup Range(victims[c])
  /\ t_state[t] = "S_SLEEP" => t \in Range(wc_threads) \/ \E d \in CPUs : t \in Range(list[d])
  /\ t_state[t] = "S_ZOMBIE" => t \in Range(c_zombies[c])

IInv ==
  /\ TypeOK /\ ListsOK /\ AsleepInv
  /\ \A c \in CPUs : ControlAt(c) /\ PlacesAt(c)
  /\ \A t \in Threads : HomeOf(t)

-----------------------------------------------------------------------------
(* Lists of threads.  The proofs below use no other facts about sequences. *)

\* Nothing is on the empty list.
LEMMA ListEmpty == IsThreadlist(<<>>) /\ Range(<<>>) = {} /\ Len(<<>>) = 0
BY DEF IsThreadlist, IsInjective, Range

\* A list of one thread
LEMMA ListOne ==
  ASSUME NEW t \in Threads
  PROVE  IsThreadlist(<<t>>) /\ Range(<<t>>) = {t} /\ <<t>> # <<>>
BY DEF IsThreadlist, IsInjective, Range

\* threadlist_addtail
LEMMA ListAppend ==
  ASSUME NEW s, IsThreadlist(s), NEW t \in Threads
  PROVE  /\ Range(Append(s, t)) = Range(s) \cup {t}
         /\ Append(s, t) # <<>>
         /\ Len(Append(s, t)) = Len(s) + 1
         /\ t \notin Range(s) => IsThreadlist(Append(s, t))
<1> USE DEF IsThreadlist
<1> DEFINE u == Append(s, t)
<1>1. /\ u \in Seq(Threads) /\ Len(u) = Len(s) + 1
      /\ \A i \in 1 .. Len(s) : u[i] = s[i]
      /\ u[Len(s) + 1] = t
  OBVIOUS
<1>2. DOMAIN s = 1 .. Len(s) /\ DOMAIN u = 1 .. Len(s) + 1 /\ Len(s) \in Nat
  BY <1>1
<1>3. Range(u) = Range(s) \cup {t}
  BY <1>1, <1>2 DEF Range
<1>4. ASSUME t \notin Range(s) PROVE IsInjective(u)
  <2>1. \A i \in 1 .. Len(s) : s[i] # t
    BY <1>2, <1>4 DEF Range
  <2> QED BY <2>1, <1>1, <1>2 DEF IsInjective
<1>6. Len(s) + 1 # 0
  BY <1>2
<1> HIDE DEF u
<1>5. u # <<>>
  BY <1>1, <1>6, ListEmpty
<1> QED BY <1>1, <1>3, <1>4, <1>5 DEF u

\* threadlist_remhead
LEMMA ListTail ==
  ASSUME NEW s, IsThreadlist(s), s # <<>>
  PROVE  /\ IsThreadlist(Tail(s))
         /\ Head(s) \in Threads /\ Head(s) \in Range(s)
         /\ Range(Tail(s)) = Range(s) \ {Head(s)}
         /\ Len(Tail(s)) = Len(s) - 1
         /\ Tail(s) = <<>> <=> Len(s) = 1
<1> USE DEF IsThreadlist
<1>1. /\ Len(s) \in Nat \ {0} /\ DOMAIN s = 1 .. Len(s)
      /\ Tail(s) \in Seq(Threads) /\ Len(Tail(s)) = Len(s) - 1
      /\ DOMAIN Tail(s) = 1 .. Len(s) - 1
      /\ \A i \in 1 .. Len(s) - 1 : Tail(s)[i] = s[i + 1]
      /\ Head(s) = s[1] /\ Head(s) \in Threads
  OBVIOUS
<1>2. IsInjective(Tail(s))
  BY <1>1 DEF IsInjective
<1>3. \A i \in 2 .. Len(s) : s[i] = Tail(s)[i - 1] /\ s[i] # s[1] /\ i - 1 \in 1 .. Len(s) - 1
  BY <1>1 DEF IsInjective
<1>4. Range(Tail(s)) = Range(s) \ {Head(s)}
  <2>1. ASSUME NEW x \in Range(Tail(s)) PROVE x \in Range(s) \ {Head(s)}
    <3>1. PICK i \in 1 .. Len(s) - 1 : x = s[i + 1]
      BY <1>1, <2>1 DEF Range
    <3>2. i + 1 \in 2 .. Len(s) /\ i + 1 \in DOMAIN s
      BY <1>1
    <3>3. s[i + 1] # s[1]
      BY <3>2, <1>3
    <3> QED BY <3>1, <3>2, <3>3, <1>1 DEF Range
  <2>2. ASSUME NEW x \in Range(s), x # Head(s) PROVE x \in Range(Tail(s))
    <3>1. PICK i \in 1 .. Len(s) : x = s[i] /\ i # 1
      BY <1>1, <2>2 DEF Range
    <3>2. i \in 2 .. Len(s)
      BY <3>1, <1>1
    <3>3. i - 1 \in DOMAIN Tail(s) /\ x = Tail(s)[i - 1]
      BY <3>1, <3>2, <1>1, <1>3
    <3> QED BY Zenon, <3>3 DEF Range
  <2> QED BY <2>1, <2>2
<1>5. Tail(s) = <<>> <=> Len(s) = 1
  <2>1. Tail(s) = <<>> => Len(Tail(s)) = 0
    BY ListEmpty, Zenon
  <2>2. Tail(s) # <<>> => Len(Tail(s)) \in Nat \ {0}
    BY <1>1
  <2> QED BY <1>1, <2>1, <2>2
<1>6. Head(s) \in Range(s)
  BY <1>1 DEF Range
<1> QED BY <1>1, <1>2, <1>4, <1>5, <1>6

\* The tail end of a list is taken off it, as threadlist_remtail and
\* threadlist_addhead do in a loop.
LEMMA ListSplit ==
  ASSUME NEW s, IsThreadlist(s), NEW k \in 0 .. Len(s)
  PROVE  LET a == SubSeq(s, 1, k)
             b == SubSeq(s, k + 1, Len(s))
         IN /\ IsThreadlist(a) /\ IsThreadlist(b)
            /\ Range(a) \cup Range(b) = Range(s)
            /\ Range(a) \cap Range(b) = {}
            /\ Len(b) = Len(s) - k
<1> USE DEF IsThreadlist
<1> DEFINE a == SubSeq(s, 1, k)
           b == SubSeq(s, k + 1, Len(s))
<1>1. Len(s) \in Nat /\ DOMAIN s = 1 .. Len(s) /\ \A i \in 1 .. Len(s) : s[i] \in Threads
  OBVIOUS
<1>2. a \in Seq(Threads) /\ Len(a) = k /\ DOMAIN a = 1 .. k /\ \A i \in 1 .. k : a[i] = s[i]
  BY <1>1
<1>3. b \in Seq(Threads) /\ Len(b) = Len(s) - k /\ DOMAIN b = 1 .. Len(s) - k
      /\ \A i \in 1 .. Len(s) - k : b[i] = s[k + i]
  <2>1. \A i \in k + 1 .. Len(s) : s[i] \in Threads
    BY <1>1
  <2>2. k + 1 \in Int /\ Len(s) \in Int /\ Len(s) - (k + 1) + 1 = Len(s) - k
    BY <1>1
  <2>3. /\ b \in Seq(Threads)
        /\ Len(b) = IF k + 1 <= Len(s) THEN Len(s) - (k + 1) + 1 ELSE 0
        /\ \A i \in 1 .. Len(s) - (k + 1) + 1 : b[i] = s[k + 1 + i - 1]
    BY <2>1, <2>2
  <2> HIDE DEF b
  <2>4. Len(b) = Len(s) - k /\ DOMAIN b = 1 .. Len(s) - k
    <3>1. k \in Nat /\ k <= Len(s) /\ Len(s) \in Nat
      BY <1>1
    <3>2. Len(b) = IF k + 1 <= Len(s) THEN Len(s) - (k + 1) + 1 ELSE 0
      BY <2>3
    <3>3. Len(b) = Len(s) - k
      BY <3>1, <3>2
    <3>4. DOMAIN b = 1 .. Len(b)
      BY <2>3
    <3> QED BY <3>3, <3>4
  <2>5. ASSUME NEW i \in 1 .. Len(s) - k PROVE b[i] = s[k + i]
    <3>1. i \in 1 .. Len(s) - (k + 1) + 1 /\ k + 1 + i - 1 = k + i
      BY <1>1
    <3>2. b[i] = s[k + 1 + i - 1]
      BY <3>1, <2>3
    <3> QED BY <3>1, <3>2
  <2> QED BY <2>3, <2>4, <2>5
<1> HIDE DEF a, b
<1>4. IsInjective(a)
  BY <1>1, <1>2 DEF IsInjective
<1>5. IsInjective(b)
  <2> SUFFICES ASSUME NEW i \in 1 .. Len(s) - k, NEW j \in 1 .. Len(s) - k, b[i] = b[j]
               PROVE  i = j
    BY <1>3 DEF IsInjective
  <2>1. k + i \in 1 .. Len(s) /\ k + j \in 1 .. Len(s) /\ s[k + i] = s[k + j]
    BY <1>1, <1>3
  <2> QED BY <2>1, <1>1 DEF IsInjective
<1>7. \A i \in 1 .. k, j \in 1 .. Len(s) - k : a[i] # b[j]
  <2> SUFFICES ASSUME NEW i \in 1 .. k, NEW j \in 1 .. Len(s) - k, a[i] = b[j]
               PROVE  FALSE
    OBVIOUS
  <2>1. i \in 1 .. Len(s) /\ k + j \in 1 .. Len(s) /\ i # k + j /\ s[i] = s[k + j]
    BY <1>1, <1>2, <1>3
  <2> QED BY <2>1, <1>1 DEF IsInjective
<1>8. Range(a) \cap Range(b) = {}
  BY <1>7, <1>2, <1>3 DEF Range
<1>6. Range(a) \cup Range(b) = Range(s)
  <2>1. Range(a) \subseteq Range(s)
    BY <1>1, <1>2 DEF Range
  <2>3. \A i \in 1 .. Len(s) - k : k + i \in DOMAIN s /\ b[i] = s[k + i]
    BY <1>1, <1>3
  <2>4. Range(b) \subseteq Range(s)
    BY <2>3, <1>3 DEF Range
  <2>2. ASSUME NEW x \in Range(s) PROVE x \in Range(a) \cup Range(b)
    <3>1. PICK i \in 1 .. Len(s) : x = s[i]
      BY <1>1, <2>2 DEF Range
    <3>2. CASE i <= k
      BY <3>1, <3>2, <1>2 DEF Range
    <3>3. CASE i > k
      <4>1. i - k \in 1 .. Len(s) - k /\ b[i - k] = x
        BY <3>1, <3>3, <1>1, <1>3
      <4> QED BY SMTT(30), <4>1, <1>3 DEF Range
    <3> QED BY <3>2, <3>3, <1>1
  <2> QED BY <2>1, <2>2, <2>4
<1> QED BY <1>2, <1>3, <1>4, <1>5, <1>6, <1>8 DEF a, b

\* A list is put behind another one.
LEMMA ListConcat ==
  ASSUME NEW a, NEW b, IsThreadlist(a), IsThreadlist(b), Range(a) \cap Range(b) = {}
  PROVE  /\ IsThreadlist(a \o b)
         /\ Range(a \o b) = Range(a) \cup Range(b)
<1> USE DEF IsThreadlist
<1> DEFINE u == a \o b
<1>1. /\ Len(a) \in Nat /\ DOMAIN a = 1 .. Len(a)
      /\ Len(b) \in Nat /\ DOMAIN b = 1 .. Len(b)
  OBVIOUS
<1>2. /\ u \in Seq(Threads) /\ DOMAIN u = 1 .. Len(a) + Len(b)
      /\ \A i \in 1 .. Len(a) : u[i] = a[i]
      /\ \A i \in 1 .. Len(b) : u[Len(a) + i] = b[i]
  BY <1>1
<1> HIDE DEF u
<1>3. \A i \in Len(a) + 1 .. Len(a) + Len(b) : i - Len(a) \in 1 .. Len(b) /\ u[i] = b[i - Len(a)]
  BY <1>1, <1>2
<1>4. \A i \in 1 .. Len(a), j \in 1 .. Len(b) : a[i] # b[j]
  BY SMTT(30), <1>1 DEF Range
<1>5. IsInjective(u)
  <2> SUFFICES ASSUME NEW i \in 1 .. Len(a) + Len(b), NEW j \in 1 .. Len(a) + Len(b), u[i] = u[j]
               PROVE  i = j
    BY <1>2 DEF IsInjective
  <2>1. CASE i <= Len(a) /\ j <= Len(a)
    BY <2>1, <1>1, <1>2 DEF IsInjective
  <2>2. CASE i > Len(a) /\ j > Len(a)
    BY SMTT(30), <2>2, <1>1, <1>3 DEF IsInjective
  <2>3. ASSUME NEW m \in 1 .. Len(a) + Len(b), NEW n \in 1 .. Len(a) + Len(b),
               m <= Len(a), n > Len(a)
        PROVE  u[m] # u[n]
    <3>1. m \in 1 .. Len(a) /\ n \in Len(a) + 1 .. Len(a) + Len(b)
      BY <2>3, <1>1
    <3> QED BY <3>1, <1>2, <1>3, <1>4
  <2> QED BY <2>1, <2>2, <2>3, <1>1
<1>6. Range(u) = Range(a) \cup Range(b)
  <2>1. ASSUME NEW x \in Range(u) PROVE x \in Range(a) \cup Range(b)
    <3>1. PICK i \in 1 .. Len(a) + Len(b) : x = u[i]
      BY <1>2, <2>1 DEF Range
    <3>2. i \in 1 .. Len(a) \/ i \in Len(a) + 1 .. Len(a) + Len(b)
      BY <1>1
    <3> QED BY Zenon, <3>1, <3>2, <1>1, <1>2, <1>3 DEF Range
  <2>2. ASSUME NEW x \in Range(a) PROVE x \in Range(u)
    BY <2>2, <1>1, <1>2 DEF Range
  <2>3. ASSUME NEW x \in Range(b) PROVE x \in Range(u)
    <3>1. PICK i \in 1 .. Len(b) : x = b[i]
      BY <1>1, <2>3 DEF Range
    <3>2. Len(a) + i \in 1 .. Len(a) + Len(b)
      BY <1>1
    <3> QED BY <3>1, <3>2, <1>1, <1>2 DEF Range
  <2> QED BY <2>1, <2>2, <2>3
<1> QED BY <1>2, <1>5, <1>6 DEF u

\* The head of a list goes to its end.
LEMMA ListRotate ==
  ASSUME NEW s, IsThreadlist(s), s # <<>>
  PROVE  LET u == Append(Tail(s), Head(s))
         IN IsThreadlist(u) /\ Range(u) = Range(s) /\ Len(u) = Len(s) /\ u # <<>>
<1>1. /\ IsThreadlist(Tail(s)) /\ Head(s) \in Threads /\ Head(s) \in Range(s)
      /\ Range(Tail(s)) = Range(s) \ {Head(s)} /\ Len(Tail(s)) = Len(s) - 1
  BY ListTail
<1>2. Len(s) \in Nat
  BY DEF IsThreadlist
<1> DEFINE u == Append(Tail(s), Head(s))
<1>3. /\ Range(u) = Range(Tail(s)) \cup {Head(s)} /\ u # <<>> /\ Len(u) = Len(Tail(s)) + 1
      /\ Head(s) \notin Range(Tail(s)) => IsThreadlist(u)
  BY <1>1, ListAppend
<1> HIDE DEF u
<1>4. IsThreadlist(u) /\ Range(u) = Range(s) /\ Len(u) = Len(s)
  BY <1>1, <1>2, <1>3
<1> QED BY <1>3, <1>4 DEF u

\* The parts of the invariant, and the functions that the variables are
LEMMA Parts ==
  ASSUME IInv
  PROVE  /\ TypeOK /\ ListsOK /\ AsleepInv
         /\ \A c \in CPUs : ControlAt(c) /\ PlacesAt(c)
         /\ \A t \in Threads : HomeOf(t)
BY DEF IInv

Functional ==
  /\ DOMAIN t_state = Threads /\ DOMAIN t_cpu = Threads
  /\ DOMAIN c_curthread = CPUs /\ \A c \in CPUs : c_curthread[c] \in Threads
  /\ DOMAIN c_isidle = CPUs /\ \A c \in CPUs : c_isidle[c] \in BOOLEAN
  /\ DOMAIN c_unidle = CPUs /\ \A c \in CPUs : c_unidle[c] \in BOOLEAN
  /\ DOMAIN pc = CPUs /\ \A c \in CPUs : c # NoCPU
  /\ DOMAIN newstate = CPUs /\ DOMAIN mig = CPUs
  /\ DOMAIN c_runqueue = CPUs /\ DOMAIN victims = CPUs
  /\ DOMAIN c_zombies = CPUs /\ DOMAIN list = CPUs

LEMMA VariablesFunctional == ASSUME IInv PROVE Functional
BY DEF IInv, TypeOK, ListsOK, Functional, CPUs, NoCPU

-----------------------------------------------------------------------------
(* The control of the CPUs *)
\* The lengths of the queues are numbers.
LEMMA QueueLengths ==
  ASSUME ListsOK, NEW c \in CPUs
  PROVE  Len(c_runqueue[c]) \in Nat /\ Len(victims[c]) \in Nat
BY DEF ListsOK, IsThreadlist

\* What is on a list is a thread.
LEMMA Members ==
  ASSUME ListsOK
  PROVE  /\ Range(wc_threads) \subseteq Threads
         /\ \A c \in CPUs :
              /\ Range(c_runqueue[c]) \subseteq Threads /\ Range(victims[c]) \subseteq Threads
              /\ Range(c_zombies[c]) \subseteq Threads /\ Range(list[c]) \subseteq Threads
<1>1. ASSUME NEW s, IsThreadlist(s) PROVE Range(s) \subseteq Threads
  BY <1>1 DEF IsThreadlist, Range
<1> QED BY <1>1 DEF ListsOK

\* The quotient that one_share is
LEMMA ShareNat ==
  ASSUME NEW x \in Nat
  PROVE  (x + NumCPUs - 1) \div NumCPUs \in Nat
<1>1. \A y \in Nat, n \in Nat \ {0} : y \div n \in Nat
  OBVIOUS
<1>2. x + NumCPUs - 1 \in Nat /\ NumCPUs \in Nat \ {0}
  BY CPUAssumption
<1> QED BY <1>1, <1>2

\* What a step of another CPU may do to CPU d: put threads on its run queue,
\* and then interrupt it if it waits.
FromOutside(d) ==
  /\ pc'[d] = pc[d] /\ newstate'[d] = newstate[d] /\ mig'[d] = mig[d]
  /\ list'[d] = list[d] /\ victims'[d] = victims[d]
  /\ c_isidle'[d] = c_isidle[d]
  /\ wc_lock' = d <=> wc_lock = d
  /\ Len(c_runqueue'[d]) \in Nat /\ Len(c_runqueue'[d]) >= Len(c_runqueue[d])
  /\ c_runqueue'[d] # c_runqueue[d] /\ c_isidle[d] => c_unidle'[d]
  /\ c_unidle[d] => c_unidle'[d]

\* That leaves the control of CPU d in order.
LEMMA OutsideKeeps ==
  ASSUME TypeOK, ListsOK, NEW d \in CPUs, ControlAt(d), FromOutside(d)
  PROVE  ControlAt(d)'
<1>1. IdleAt(d)' /\ ChannelAt(d)'
  BY DEF FromOutside, ControlAt, IdleAt, ChannelAt
<1>2. Len(c_runqueue[d]) \in Nat /\ mig[d] \in Counts
  BY QueueLengths DEF TypeOK
<1>3. MigrationAt(d)'
  BY SMTT(30), <1>2 DEF FromOutside, ControlAt, MigrationAt, Counts
<1>4. UnidleAt(d)'
  BY DEF FromOutside, ControlAt, UnidleAt, IdleAt
<1> QED BY <1>1, <1>3, <1>4 DEF ControlAt

\* Steps that leave every thread where it is
QuietStep(c) ==
  \/ sw_nothing_to_do(c) \/ sw_idle(c) \/ sw_unidle(c)
  \/ wc_release(c) \/ wchan_sleep(c) \/ wc_acquire(c, "relock") \/ use_wchan(c)
  \/ thread_exit(c) \/ interprocessor_interrupt(c) \/ hardclock(c) \/ hardclock_migrate(c)
  \/ mg_count(c) \/ mg_share(c) \/ mg_lock(c) \/ mg_skip_self(c) \/ mg_unlock(c)

\* They leave the other CPUs alone,
LEMMA QuietOutside ==
  ASSUME IInv, NEW c \in CPUs, QuietStep(c), NEW d \in CPUs \ {c}
  PROVE  FromOutside(d)
<1>1. /\ c # NoCPU /\ d # NoCPU /\ d # c /\ d \in CPUs /\ Len(c_runqueue[d]) \in Nat
      /\ (pc[c] = "locked" => wc_lock = c)
      /\ Functional
  BY SMTT(30), Parts, VariablesFunctional, QueueLengths DEF CPUs, NoCPU, ControlAt, ChannelAt
<1> USE <1>1 DEF FromOutside, Functional, Goto, threadVars, cpuVars, queueVars, wchanVars, localVars
<1>2. CASE sw_nothing_to_do(c)
  BY <1>2 DEF sw_nothing_to_do
<1>3. CASE sw_idle(c)
  BY <1>3 DEF sw_idle
<1>4. CASE sw_unidle(c)
  BY <1>4 DEF sw_unidle
<1>5. CASE wc_release(c)
  BY <1>5 DEF wc_release, Interrupted
<1>6. CASE wchan_sleep(c)
  BY <1>6 DEF wchan_sleep, CallSwitch
<1>7. CASE wc_acquire(c, "relock")
  BY <1>7 DEF wc_acquire
<1>8. CASE use_wchan(c)
  BY <1>8 DEF use_wchan, wc_acquire
<1>9. CASE thread_exit(c)
  BY <1>9 DEF thread_exit, CallSwitch
<1>10. CASE interprocessor_interrupt(c)
  BY <1>10 DEF interprocessor_interrupt, Interrupted
<1>11. CASE hardclock(c)
  BY <1>11 DEF hardclock, CallSwitch
<1>12. CASE hardclock_migrate(c)
  BY <1>12 DEF hardclock_migrate
<1>13. CASE mg_count(c)
  BY <1>13 DEF mg_count
<1>14. CASE mg_share(c)
  BY <1>14 DEF mg_share, CallSwitch
<1>15. CASE mg_lock(c)
  BY <1>15 DEF mg_lock
<1>16. CASE mg_skip_self(c)
  BY <1>16 DEF mg_skip_self
<1>17. CASE mg_unlock(c)
  BY SMTT(30), <1>17 DEF mg_unlock
<1> QED BY Zenon, <1>2, <1>3, <1>4, <1>5, <1>6, <1>7, <1>8, <1>9, <1>10, <1>11, <1>12, <1>13, <1>14, <1>15, <1>16, <1>17 DEF QuietStep

\* and keep the control of their own in order.
LEMMA QuietInside ==
  ASSUME IInv, NEW c \in CPUs, QuietStep(c)
  PROVE  ControlAt(c)'
<1>1. /\ ControlAt(c) /\ c # NoCPU /\ Len(c_runqueue[c]) \in Nat /\ Len(victims[c]) \in Nat
      /\ Functional
  BY Parts, VariablesFunctional, QueueLengths DEF CPUs, NoCPU
<1>0. /\ mig[c] \in Counts
      /\ mg_lock(c) => mig[c].i \in CPUs
  BY SMTT(30), Parts, CPUAssumption DEF TypeOK, mg_lock, Counts, CPUs
<1> USE <1>1 DEF ControlAt, IdleAt, ChannelAt, MigrationAt, UnidleAt, NoCounts, Functional, Goto, threadVars, cpuVars, queueVars, wchanVars, localVars
<1>2. CASE sw_nothing_to_do(c)
  BY <1>2 DEF sw_nothing_to_do
<1>3. CASE sw_idle(c)
  BY <1>3 DEF sw_idle
<1>4. CASE sw_unidle(c)
  BY <1>4 DEF sw_unidle
<1>5. CASE wc_release(c)
  BY <1>5 DEF wc_release, Interrupted
<1>6. CASE wchan_sleep(c)
  BY <1>6 DEF wchan_sleep, CallSwitch
<1>7. CASE wc_acquire(c, "relock")
  BY <1>7 DEF wc_acquire
<1>8. CASE use_wchan(c)
  BY SMTT(30), <1>8 DEF use_wchan, wc_acquire
<1>9. CASE thread_exit(c)
  BY SMTT(30), <1>9 DEF thread_exit, CallSwitch
<1>10. CASE interprocessor_interrupt(c)
  BY SMTT(30), <1>10 DEF interprocessor_interrupt, Interrupted
<1>11. CASE hardclock(c)
  BY <1>11 DEF hardclock, CallSwitch
<1>12. CASE hardclock_migrate(c)
  BY <1>12 DEF hardclock_migrate
<1>13. CASE mg_count(c)
  BY <1>13 DEF mg_count
<1>14. CASE mg_share(c)
  <2> DEFINE share == (mig[c].total + NumCPUs - 1) \div NumCPUs
  <2>1. mig[c] \in Counts /\ share \in Nat
    BY <1>0, ShareNat DEF Counts
  <2>2. /\ pc[c] = "mg_count" /\ UNCHANGED <<c_isidle, c_runqueue, c_unidle, wc_lock, list, victims>>
        /\ \/ mig' = [mig EXCEPT ![c] = NoCounts] /\ CallSwitch(c, "S_READY")
           \/ /\ mig' = [mig EXCEPT ![c] = [mig[c] EXCEPT !.i = 1, !.share = share,
                                                         !.send = mig[c].my - share]]
              /\ Goto(c, "mg_take") /\ UNCHANGED newstate
    BY <1>14 DEF mg_share
  <2> HIDE DEF share
  <2>3. CASE mig' = [mig EXCEPT ![c] = NoCounts] /\ CallSwitch(c, "S_READY")
    BY <2>2, <2>3 DEF CallSwitch
  <2>4. CASE /\ mig' = [mig EXCEPT ![c] = [mig[c] EXCEPT !.i = 1, !.share = share,
                                                       !.send = mig[c].my - share]]
             /\ Goto(c, "mg_take") /\ UNCHANGED newstate
    <3>1. mig'[c].send <= mig[c].my /\ mig'[c].send \in Int /\ mig[c].my \in Nat
      BY SMTT(30), <2>1, <2>4 DEF Counts
    <3> QED BY <2>2, <2>4, <3>1
  <2> QED BY SMTT(30), <2>2, <2>3, <2>4
<1>15. CASE mg_lock(c)
  BY <1>15, <1>0 DEF mg_lock
<1>16. CASE mg_skip_self(c)
  BY <1>16 DEF mg_skip_self
<1>17. CASE mg_unlock(c)
  BY <1>17 DEF mg_unlock
<1> QED BY Zenon, <1>2, <1>3, <1>4, <1>5, <1>6, <1>7, <1>8, <1>9, <1>10, <1>11, <1>12, <1>13, <1>14, <1>15, <1>16, <1>17 DEF QuietStep

\* A pass of the counting loop updates three counters.
LEMMA CountsUpdate ==
  ASSUME NEW m \in Counts, NEW i \in Nat \ {0}, NEW n \in Nat, NEW w \in Nat
  PROVE  [m EXCEPT !.i = i, !.total = n, !.my = w] \in Counts
BY Zenon DEF Counts

\* The local counters of a migration stay numbers.
LEMMA CountsKept ==
  ASSUME TypeOK, ListsOK, NEW c \in CPUs, QuietStep(c)
  PROVE  mig' \in [CPUs -> Counts]
<1>1. mig \in [CPUs -> Counts] /\ mig[c] \in Counts
  BY DEF TypeOK
<1>2. CASE mg_count(c)
  <2> DEFINE n == Len(c_runqueue[mig[c].i])
             w == IF mig[c].i = c THEN n ELSE mig[c].my
             m == [mig[c] EXCEPT !.i = mig[c].i + 1, !.total = mig[c].total + n, !.my = w]
  <2>1. mig[c].i \in CPUs
    BY <1>1, <1>2, CPUAssumption DEF mg_count, Counts, CPUs
  <2>2. n \in Nat
    BY <2>1, QueueLengths
  <2>3. mig' = [mig EXCEPT ![c] = m]
    BY <1>2 DEF mg_count
  <2> HIDE DEF n
  <2>4. w \in Nat
    BY <1>1, <2>2 DEF Counts
  <2> HIDE DEF w
  <2>5. mig[c].i + 1 \in Nat \ {0} /\ mig[c].total + n \in Nat
    BY <1>1, <2>2 DEF Counts
  <2>6. m \in Counts
    BY Zenon, <1>1, <2>4, <2>5, CountsUpdate
  <2> HIDE DEF m
  <2> QED BY <1>1, <2>3, <2>6
<1>3. CASE mg_share(c)
  <2> DEFINE share == (mig[c].total + NumCPUs - 1) \div NumCPUs
             m == [i |-> 1, my |-> mig[c].my, total |-> mig[c].total, share |-> share,
                   send |-> mig[c].my - share]
  <2>1. share \in Nat
    BY <1>1, ShareNat DEF Counts
  <2>2. \/ mig' = [mig EXCEPT ![c] = NoCounts]
        \/ mig' = [mig EXCEPT ![c] = m] /\ ~(mig[c].my < share)
    BY Zenon, <1>1, <1>3 DEF mg_share, Counts
  <2> HIDE DEF share
  <2>3. ~(mig[c].my < share) => m \in Counts
    BY <1>1, <2>1 DEF Counts
  <2>4. NoCounts \in Counts
    BY DEF NoCounts, Counts
  <2> HIDE DEF m
  <2> QED BY <1>1, <2>2, <2>3, <2>4
<1>4. CASE mg_skip_self(c) \/ mg_unlock(c)
  <2> DEFINE m == [mig[c] EXCEPT !.i = @ + 1]
  <2>1. mig' = [mig EXCEPT ![c] = m]
    BY <1>1, <1>4 DEF mg_skip_self, mg_unlock
  <2>2. m \in Counts
    BY <1>1 DEF Counts
  <2> HIDE DEF m
  <2> QED BY <1>1, <2>1, <2>2
<1>5. CASE ~(mg_count(c) \/ mg_share(c) \/ mg_skip_self(c) \/ mg_unlock(c))
  BY Zenon, <1>1, <1>5 DEF QuietStep, sw_nothing_to_do, sw_idle, sw_unidle, wc_release, wchan_sleep,
     wc_acquire, use_wchan, thread_exit, interprocessor_interrupt, hardclock, hardclock_migrate,
     mg_lock, localVars
<1> QED BY <1>2, <1>3, <1>4, <1>5

\* The types are kept.
LEMMA QuietTypes ==
  ASSUME IInv, NEW c \in CPUs, QuietStep(c)
  PROVE  TypeOK'
<1>1. TypeOK /\ mig' \in [CPUs -> Counts] /\ c_isidle[c] \in BOOLEAN
  BY Parts, CountsKept DEF TypeOK
<1> USE <1>1 DEF TypeOK, Labels, Goto, threadVars, cpuVars, queueVars, wchanVars, localVars
<1>2. CASE sw_nothing_to_do(c)
  BY <1>2 DEF sw_nothing_to_do
<1>3. CASE sw_idle(c)
  BY <1>3 DEF sw_idle
<1>4. CASE sw_unidle(c)
  BY <1>4 DEF sw_unidle
<1>5. CASE wc_release(c)
  BY <1>5 DEF wc_release, Interrupted
<1>6. CASE wchan_sleep(c)
  BY <1>6 DEF wchan_sleep, CallSwitch
<1>7. CASE wc_acquire(c, "relock")
  BY <1>7 DEF wc_acquire
<1>8. CASE use_wchan(c)
  BY <1>8 DEF use_wchan, wc_acquire
<1>9. CASE thread_exit(c)
  BY <1>9 DEF thread_exit, CallSwitch
<1>10. CASE interprocessor_interrupt(c)
  BY <1>10 DEF interprocessor_interrupt, Interrupted
<1>11. CASE hardclock(c)
  BY <1>11 DEF hardclock, CallSwitch
<1>12. CASE hardclock_migrate(c)
  BY <1>12 DEF hardclock_migrate
<1>13. CASE mg_count(c)
  BY <1>13 DEF mg_count
<1>14. CASE mg_share(c)
  BY <1>14 DEF mg_share, CallSwitch
<1>15. CASE mg_lock(c)
  BY <1>15 DEF mg_lock
<1>16. CASE mg_skip_self(c)
  BY <1>16 DEF mg_skip_self
<1>17. CASE mg_unlock(c)
  BY <1>17 DEF mg_unlock
<1> QED BY <1>2, <1>3, <1>4, <1>5, <1>6, <1>7, <1>8, <1>9, <1>10, <1>11, <1>12, <1>13, <1>14, <1>15, <1>16, <1>17 DEF QuietStep

\* Such a step keeps the invariant.
LEMMA QuietInv ==
  ASSUME IInv, NEW c \in CPUs, QuietStep(c)
  PROVE  IInv'
<1>1. UNCHANGED <<t_state, t_cpu, c_curthread, c_isidle, c_runqueue, c_zombies, wc_threads, list, victims>>
  BY DEF QuietStep, sw_nothing_to_do, sw_idle, sw_unidle, wc_release, wchan_sleep,
     wc_acquire, use_wchan, thread_exit, interprocessor_interrupt, hardclock, hardclock_migrate,
     mg_count, mg_share, mg_lock, mg_skip_self, mg_unlock, threadVars, cpuVars, queueVars,
     wchanVars, localVars
<1>2. ListsOK'
  BY <1>1, Parts DEF ListsOK
<1>3. AsleepInv' /\ \A d \in CPUs : PlacesAt(d)'
  BY <1>1, Parts DEF AsleepInv, PlacesAt
<1>4. \A t \in Threads : HomeOf(t)'
  BY <1>1, Parts DEF HomeOf
<1>5. \A d \in CPUs : ControlAt(d)'
  BY Parts, QuietOutside, QuietInside, OutsideKeeps
<1> QED BY <1>2, <1>3, <1>4, <1>5, QuietTypes DEF IInv

=============================================================================

---------------------------- MODULE KernelTests -----------------------------
(***************************************************************************)
(* The concurrent tests of the kernel menu.                                *)
(***************************************************************************)
EXTENDS Integers, Sequences, FiniteSets, SequencesExt

(***************************************************************************)
(* The kernel's own tests of threads and synchronization (kern/test:       *)
(* synchtest.c, tt3.c, threadtest.c), run from the menu one after another, *)
(* over primitives that keep the promises of Semaphore and Monitor: do the *)
(* tests, as they are written, pass and come to an end?                    *)
(*                                                                         *)
(* st is the state of everything: sem the counts of the semaphores, lock   *)
(* the holders of the locks, cv the threads waiting on each condition      *)
(* variable or wait channel, val the three test values, pc and the local   *)
(* counters i and n of every thread, since the clock at which a thread     *)
(* began to wait, and clock, which advances with every delay loop.         *)
(***************************************************************************)

CONSTANTS NTHREADS, NLOCKLOOPS, NCVLOOPS, NCVS, NLOOPS, NWAITCHANS,
          SLEEPALOT_ITERS, TestRuns

ASSUME TestsAssumption ==
    /\ NTHREADS \in Nat /\ NTHREADS >= 3
    /\ NLOCKLOOPS \in Nat /\ NCVLOOPS \in Nat /\ NLOOPS \in Nat
    /\ NCVS \in Nat \ {0} /\ NWAITCHANS \in Nat \ {0}
    /\ SLEEPALOT_ITERS \in Nat /\ TestRuns \in Nat

TestThreads == 0 .. NTHREADS - 1
MAIN == -1
Tests == {"threadtest", "semtest", "locktest", "cvtest", "cvtest2", "threadtest3"}
Chans == 0 .. (IF NCVS > NWAITCHANS THEN NCVS ELSE NWAITCHANS) - 1

VARIABLE st

(* inititems, init_sem and setup: the objects the tests leave in place. *)
TestInit ==
    st = [test |-> "none", runs |-> 0,
          sem |-> [s \in {"testsem", "donesem", "gatesem", "exitsem", "wakersem"} |->
                     CASE s = "testsem" -> 2 [] s = "wakersem" -> 1 [] OTHER -> 0],
          lock |-> [c \in Chans |-> "free"], cv |-> [c \in Chans |-> {}],
          val |-> <<0, 0, 0>>, clock |-> 0, wakerdone |-> FALSE,
          printed |-> 0, failed |-> FALSE,
          pc |-> [t \in TestThreads \cup {MAIN} |-> IF t = MAIN THEN "menu" ELSE "none"],
          i |-> [t \in TestThreads \cup {MAIN} |-> 0], n |-> [t \in TestThreads |-> 0],
          since |-> [t \in TestThreads |-> 0]]

StAt(t, pc) == st.pc[t] = pc
StGoto(t, to) == [st EXCEPT !.pc[t] = to]
Counting(s, t) == [s EXCEPT !.i[t] = @ + 1]

StP(t, s, from, to) ==
    StAt(t, from) /\ st.sem[s] > 0 /\ st' = [StGoto(t, to) EXCEPT !.sem[s] = @ - 1]
StV(t, s, from, to) ==
    StAt(t, from) /\ st' = [StGoto(t, to) EXCEPT !.sem[s] = @ + 1]

st_acquire(t, l, from, to) ==
    StAt(t, from) /\ st.lock[l] = "free" /\ st' = [StGoto(t, to) EXCEPT !.lock[l] = "held"]
st_release(s, l) == [s EXCEPT !.lock[l] = "free"]

(* Going to sleep releases the lock; a thread that was woken takes it back. *)
st_sleep(t, c, from, to) ==
    StAt(t, from) /\ st' = [st_release(StGoto(t, to), c) EXCEPT !.cv[c] = @ \cup {t}]
StAwake(t, c) == t \notin st.cv[c]

----------------------------------------------------------------------------
(* threadtest: loudthread and quietthread print, and say so. *)
loudthread(t) == StV(t, "donesem", "start", "exit")

(* semtest: the threads pass testsem one at a time, as main lets them. *)
semtestthread(t) ==
    \/ StP(t, "testsem", "start", "print")
    \/ StV(t, "donesem", "print", "exit")

(* locktest: under the lock, the three values are written one by one and   *)
(* compared; fail releases the lock, signals and ends the thread.          *)
locktestthread(t) ==
    \/ StAt(t, "start") /\ st' = StGoto(t, IF st.i[t] < NLOCKLOOPS THEN "lock" ELSE "V")
    \/ st_acquire(t, 0, "lock", "set1")
    \/ StAt(t, "set1") /\ st' = [StGoto(t, "set2") EXCEPT !.val[1] = t]
    \/ StAt(t, "set2") /\ st' = [StGoto(t, "set3") EXCEPT !.val[2] = t * t]
    \/ StAt(t, "set3") /\ st' = [StGoto(t, "check") EXCEPT !.val[3] = t % 3]
    \/ /\ StAt(t, "check")
       /\ LET v == st.val
              fail == \/ v[2] # v[1] * v[1] \/ v[2] % 3 # (v[3] * v[3]) % 3
                      \/ v[3] # v[1] % 3 \/ v # <<t, t * t, t % 3>>
          IN  IF fail THEN st' = [st_release(StGoto(t, "V"), 0) EXCEPT !.failed = TRUE]
              ELSE st' = Counting(st_release(StGoto(t, "start"), 0), t)
    \/ StV(t, "donesem", "V", "exit")

(* Fault: a thread that was woken does not look again at testval1. *)
cvtest_once(t) ==
    StAt(t, "while") /\ StAwake(t, 0) /\ st.lock[0] = "free" /\ st.n[t] = 1
    /\ st' = [StGoto(t, "print") EXCEPT !.lock[0] = "held"]

(* cvtest: wait for one's number.  A wait that took no delay loop of       *)
(* another thread was too fast.                                            *)
cvtest_again(t) ==
    /\ StAt(t, "while") /\ StAwake(t, 0) /\ st.lock[0] = "free" /\ st.n[t] = 1
    /\ LET held == [st EXCEPT !.lock[0] = "held", !.n[t] = 0]
       IN  st' = IF st.clock = st.since[t]
                 THEN [held EXCEPT !.pc[t] = "V", !.failed = TRUE]
                 ELSE [held EXCEPT !.pc[t] = "test", !.since[t] = 0]

cvtestthread(t) ==
    \/ StAt(t, "start") /\ st' = StGoto(t, IF st.i[t] < NCVLOOPS THEN "lock" ELSE "V")
    \/ st_acquire(t, 0, "lock", "test")
    \/ /\ StAt(t, "test") /\ st.val[1] # t
       /\ st' = [st_release(StGoto(t, "while"), 0) EXCEPT
                   !.cv[0] = @ \cup {t}, !.since[t] = st.clock, !.n[t] = 1]
    \/ cvtest_again(t)
    \/ StAt(t, "test") /\ st.val[1] = t /\ st' = StGoto(t, "print")
    \/ /\ StAt(t, "print")
       /\ st' = [StGoto(t, "delay") EXCEPT
                   !.printed = t, !.val[1] = (@ + NTHREADS - 1) % NTHREADS]
    \/ StAt(t, "delay") /\ st' = [StGoto(t, "broadcast") EXCEPT !.clock = @ + 1]
    \/ /\ StAt(t, "broadcast")
       /\ st' = Counting([st_release(StGoto(t, "start"), 0) EXCEPT !.cv[0] = {}], t)
    \/ StV(t, "donesem", "V", "exit")

----------------------------------------------------------------------------
(* cvtest2: one thread sleeps on each condition variable in turn, the      *)
(* other wakes it.                                                         *)
Turn(t) == st.i[t] % NCVS

sleepthread(t) ==
    \/ StAt(t, "start") /\ st' = StGoto(t, IF st.i[t] < NLOOPS * NCVS THEN "lock" ELSE "V")
    \/ st_acquire(t, Turn(t), "lock", "gate")
    \/ StV(t, "gatesem", "gate", "wait")
    \/ st_sleep(t, Turn(t), "wait", "woken")
    \/ /\ StAt(t, "woken") /\ StAwake(t, Turn(t)) /\ st.lock[Turn(t)] = "free"
       /\ st' = Counting(StGoto(t, "start"), t)     \* taken and released
    \/ StV(t, "exitsem", "V", "exit")

(* Fault: the waker signals without taking the lock. *)
wakethread_unlocked(t) ==
    \/ StAt(t, "start") /\ st' = StGoto(t, IF st.i[t] < NLOOPS * NCVS THEN "gate" ELSE "V")
    \/ StP(t, "gatesem", "gate", "signal")
    \/ StAt(t, "signal") /\ st' = Counting([StGoto(t, "start") EXCEPT !.cv[Turn(t)] = {}], t)
    \/ StV(t, "exitsem", "V", "exit")

wakethread(t) ==
    \/ StAt(t, "start") /\ st' = StGoto(t, IF st.i[t] < NLOOPS * NCVS THEN "gate" ELSE "V")
    \/ StP(t, "gatesem", "gate", "lock")
    \/ st_acquire(t, Turn(t), "lock", "signal")
    \/ /\ StAt(t, "signal")
       /\ st' = Counting([st_release(StGoto(t, "start"), Turn(t)) EXCEPT !.cv[Turn(t)] = {}], t)
    \/ StV(t, "exitsem", "V", "exit")

----------------------------------------------------------------------------
(* threadtest3: threads sleep on channels at random, a waker wakes all on  *)
(* channels at random until it is told to stop, another computes.          *)
sleepalot_thread(t) ==
    \/ StAt(t, "start") /\ st.i[t] = SLEEPALOT_ITERS /\ StV(t, "donesem", "start", "exit")
    \/ /\ StAt(t, "start") /\ st.i[t] < SLEEPALOT_ITERS
       /\ \E c \in 0 .. NWAITCHANS - 1 :
             st' = [StGoto(t, "asleep") EXCEPT !.cv[c] = @ \cup {t}, !.n[t] = c]
    \/ /\ StAt(t, "asleep") /\ StAwake(t, st.n[t])
       /\ st' = Counting([StGoto(t, "start") EXCEPT !.n[t] = 0], t)

wakeall(t, c) == StAt(t, "wake") /\ st' = [StGoto(t, "start") EXCEPT !.cv[c] = {}]

waker_thread(t) ==
    \/ StP(t, "wakersem", "start", "done?")
    \/ /\ StAt(t, "done?")
       /\ st' = [StGoto(t, IF st.wakerdone THEN "V" ELSE "wake") EXCEPT !.sem["wakersem"] = @ + 1]
    \/ \E c \in 0 .. NWAITCHANS - 1 : wakeall(t, c)
    \/ StV(t, "donesem", "V", "exit")

compute_thread(t) == StV(t, "donesem", "start", "exit")

(* Thread 0 wakes, 1 computes, the others sleep. *)
tt3_thread(t) ==
    CASE t = 0 -> waker_thread(t) [] t = 1 -> compute_thread(t)
      [] OTHER -> sleepalot_thread(t)

tt3_finish ==
    \/ StAt(MAIN, "join") /\ st.i[MAIN] = NTHREADS - 1 /\ st' = StGoto(MAIN, "stop")
    \/ StP(MAIN, "wakersem", "stop", "stopping")
    \/ /\ StAt(MAIN, "stopping")
       /\ st' = [StGoto(MAIN, "last") EXCEPT !.wakerdone = TRUE, !.sem["wakersem"] = @ + 1]
    \/ StP(MAIN, "donesem", "last", "menu")

----------------------------------------------------------------------------
StThreads(test) == IF test = "cvtest2" THEN {0, 1} ELSE TestThreads

(* The menu starts a test; semtest drains testsem first, cvtest sets       *)
(* testval1.  The threads are forked one after another.                    *)
menu(test) ==
    /\ StAt(MAIN, "menu") /\ st.runs < TestRuns
    /\ st' = [st EXCEPT !.test = test, !.runs = @ + 1,
                        !.pc = [t \in DOMAIN st.pc |->
                                  IF t # MAIN THEN "none"
                                  ELSE IF test = "semtest" THEN "drain1" ELSE "fork"],
                        !.i = [t \in DOMAIN st.i |-> 0], !.n = [t \in TestThreads |-> 0],
                        !.wakerdone = FALSE, !.clock = 0, !.since = [t \in TestThreads |-> 0],
                        !.val = IF test = "cvtest" THEN <<NTHREADS - 1, 0, 0>> ELSE <<0, 0, 0>>,
                        !.printed = 0]

st_fork ==
    /\ StAt(MAIN, "fork")
    /\ LET t == st.i[MAIN]
       IN  st' = IF t \in StThreads(st.test) THEN Counting(StGoto(t, "start"), MAIN)
                 ELSE [StGoto(MAIN, IF st.test = "semtest" THEN "let" ELSE "join")
                         EXCEPT !.i[MAIN] = 0]

semtest ==
    \/ StP(MAIN, "testsem", "drain1", "drain2")
    \/ StP(MAIN, "testsem", "drain2", "fork")
    \/ /\ StAt(MAIN, "let") /\ st.i[MAIN] < NTHREADS /\ StV(MAIN, "testsem", "let", "join")
    \/ /\ StAt(MAIN, "join") /\ st.sem["donesem"] > 0
       /\ st' = Counting([StGoto(MAIN, "let") EXCEPT !.sem["donesem"] = @ - 1], MAIN)
    \/ StAt(MAIN, "let") /\ st.i[MAIN] = NTHREADS /\ StV(MAIN, "testsem", "let", "again")
    \/ StV(MAIN, "testsem", "again", "menu")

(* P(donesem) for every thread, then back to the menu. *)
st_join(s, n) ==
    /\ StAt(MAIN, "join")
    /\ IF st.i[MAIN] = n THEN st' = StGoto(MAIN, "menu")
       ELSE st.sem[s] > 0 /\ st' = Counting([st EXCEPT !.sem[s] = @ - 1], MAIN)

StThread(t) ==
    CASE st.test = "threadtest" -> loudthread(t)
      [] st.test = "semtest" -> semtestthread(t)
      [] st.test = "locktest" -> locktestthread(t)
      [] st.test = "cvtest" -> cvtestthread(t)
      [] st.test = "cvtest2" -> (IF t = 0 THEN sleepthread(t) ELSE t = 1 /\ wakethread(t))
      [] st.test = "threadtest3" -> tt3_thread(t)
      [] OTHER -> FALSE

StMain ==
    \/ st_fork
    \/ st.test = "semtest" /\ semtest
    \/ st.test = "threadtest3" /\ (tt3_finish \/ (st.i[MAIN] < NTHREADS - 1 /\ st_join("donesem", NTHREADS - 1)))
    \/ st.test \in {"threadtest", "locktest", "cvtest"} /\ st_join("donesem", NTHREADS)
    \/ st.test = "cvtest2" /\ st_join("exitsem", 2)

TestNext == StMain \/ (\E t \in TestThreads : StThread(t)) \/ \E test \in Tests : menu(test)
TestSpec == TestInit /\ [][TestNext]_st

(* Threads are scheduled, sleepers for a lock or a unit of a semaphore     *)
(* that comes again and again get it, and random() comes                   *)
(* to each channel again and again.                                        *)
TestFairSpec ==
    /\ TestSpec /\ SF_st(StMain)
    /\ \A t \in TestThreads : SF_st(StThread(t))
    /\ \A c \in Chans : SF_st(st.test = "threadtest3" /\ wakeall(0, c))

----------------------------------------------------------------------------
Printing == {t \in TestThreads : StAt(t, "print")}

(* No test reports a failure; "Only one of these should print at a time"   *)
(* holds of semtest and cvtest; a test leaves its semaphores, locks and    *)
(* condition variables as it found them.                                   *)
TestsPass ==
    /\ ~st.failed
    /\ Cardinality(Printing) <= 1
    /\ StAt(MAIN, "menu") =>
          /\ st.sem["testsem"] = 2 /\ st.sem["wakersem"] = 1
          /\ \A s \in {"donesem", "gatesem", "exitsem"} : st.sem[s] = 0
          /\ \A c \in Chans : st.lock[c] = "free" /\ st.cv[c] = {}

(* cvtest's "Threads should print out in reverse order" (cvtestthread). *)
PrintedInReverse ==
    [][st'.test = st.test /\ st'.printed # st.printed
          => st'.printed = (st.printed + NTHREADS - 1) % NTHREADS]_st

-----------------------------------------------------------------------------
(***************************************************************************)
(* The kernel's file system tests (kern/test/fstest.c), run from the menu  *)
(* over a file system whose calls are atomic and may fail.                 *)
(*                                                                         *)
(* A test is what the main thread does before it forks its threads, what   *)
(* each of them does, and what it does after they are done; each part is a *)
(* sequence of calls of fstest_write, fstest_read, fstest_remove, open,    *)
(* write1 and read1 (the bodies of createstress's loops).                  *)
(***************************************************************************)

CONSTANTS FsThreads,     \* NTHREADS
          NCHUNKS, NLONG, NCREATE,
          FsFaults,      \* calls that may fail in a run
          FsRuns

ASSUME FsTestsAssumption ==
    /\ FsThreads \in Nat \ {0} /\ NCHUNKS \in Nat \ {0}
    /\ NLONG \in Nat /\ NCREATE \in Nat /\ FsFaults \in Nat /\ FsRuns \in Nat

FsWorkers == 0 .. FsThreads - 1
FsMAIN == -1

(* rotate turns the capitals of the line amt places on, back for a         *)
(* negative amt; a line is its rotation.                                   *)
rotate(line, amt) == (line + ((amt + 2600) % 26)) % 26

FsCall(op, file) == [op |-> op, file |-> file, size |-> 1, pos |-> 0]
SharedFile == <<>>      \* the name with no suffix

FsBefore(test) ==
    CASE test = "fstest" -> <<FsCall("write", SharedFile), FsCall("read", SharedFile), FsCall("remove", SharedFile)>>
      [] test = "readstress" -> <<FsCall("write", SharedFile)>>
      [] test = "writestress2" -> <<FsCall("open", SharedFile)>>
      [] OTHER -> <<>>

(* The three calls on each of n files, file by file. *)
EachFile(num, n) ==
    FlattenSeq([i \in 1 .. n |-> <<FsCall("write", <<num, i>>), FsCall("read", <<num, i>>),
                                   FsCall("remove", <<num, i>>)>>])
(* The same calls, call by call. *)
EachCall(num, n) ==
    LET all(op) == [i \in 1 .. n |-> FsCall(op, <<num, i>>)]
    IN  all("write1") \o all("read1") \o all("remove")

ThreadJob(test, num) ==
    CASE test = "readstress" -> <<FsCall("read", SharedFile)>>
      [] test = "writestress" -> EachFile(num, 1)
      [] test = "writestress2" ->
            <<[op |-> "write", file |-> SharedFile, size |-> FsThreads, pos |-> num]>>
      [] test = "longstress" -> EachFile(num, NLONG)
      [] test = "createstress" -> EachCall(num, NCREATE)

FsAfter(test) ==
    CASE test = "readstress" -> <<FsCall("remove", SharedFile)>>
      [] test = "writestress2" -> <<FsCall("read", SharedFile), FsCall("remove", SharedFile)>>
      [] OTHER -> <<>>

FsTestNames == {"fstest", "readstress", "writestress", "writestress2", "longstress", "createstress"}

----------------------------------------------------------------------------
(* disk maps the names there are to their lines; job, chunk and open       *)
(* are a thread's calls to come, position, and the name it has open        *)
(* (GONE once removed); failed: something was reported.                    *)
VARIABLE ft

FsTestInit ==
    ft = [test |-> "none", runs |-> 0, faults |-> 0, failed |-> FALSE,
          disk |-> [f \in {} |-> <<>>], sem |-> 0,
          pc |-> [t \in FsWorkers \cup {FsMAIN} |-> IF t = FsMAIN THEN "menu" ELSE "none"],
          job |-> [t \in FsWorkers \cup {FsMAIN} |-> <<>>],
          chunk |-> [t \in FsWorkers \cup {FsMAIN} |-> 0],
          open |-> [t \in FsWorkers \cup {FsMAIN} |-> {}], joined |-> 0]

FsAt(t, pc) == ft.pc[t] = pc
NowCall(t) == Head(ft.job[t])
GONE == <<-1>>
Blank == [i \in 1 .. NCHUNKS |-> -1]

(* The call is over; after a failure the thread gives up its other calls,  *)
(* but for createstress, which goes on to the next.                        *)
FsReturn(s, t, ok) ==
    LET on == ok \/ s.test = "createstress"
    IN  [s EXCEPT !.pc[t] = "call", !.chunk[t] = 0, !.failed = @ \/ ~ok,
                  !.job[t] = IF on THEN Tail(@) ELSE <<>>]

(* Fault: an error path returns with the vnode still open. *)
vfs_close_forgotten(s, t, ok) == IF ok THEN [s EXCEPT !.open[t] = {}] ELSE s

vfs_close(s, t, ok) == [s EXCEPT !.open[t] = {}]

vfs_remove(s, f) ==
    [s EXCEPT !.disk = [g \in DOMAIN s.disk \ {f} |-> s.disk[g]],
              !.open = [t \in DOMAIN s.open |-> IF f \in s.open[t] THEN {GONE} ELSE s.open[t]]]

FsFault(s) == [s EXCEPT !.faults = @ + 1]
FsMayFail == ft.faults < FsFaults

(* fstest_write: open for writing, truncating unless the writes are        *)
(* strided; a line at a time, other threads' lines skipped; on an error or *)
(* a short write close and remove the file.                                *)
write_open(t) ==
    /\ FsAt(t, "call") /\ ft.job[t] # <<>> /\ NowCall(t).op \in {"write", "write1", "open"}
    /\ \/ LET f == NowCall(t).file
              keep == f \in DOMAIN ft.disk /\ NowCall(t).op = "write" /\ NowCall(t).size > 1
              lines == IF keep THEN ft.disk[f] ELSE Blank
              opened == [ft EXCEPT !.open[t] = {f},
                                   !.disk = [g \in DOMAIN ft.disk \cup {f} |->
                                               IF g = f THEN lines ELSE ft.disk[g]]]
          IN  ft' = IF NowCall(t).op = "open" THEN FsReturn(vfs_close(opened, t, TRUE), t, TRUE)
                    ELSE [opened EXCEPT !.pc[t] = "write"]
       \/ FsMayFail /\ ft' = FsFault(FsReturn(ft, t, FALSE))

Lines(t) == IF NowCall(t).op \in {"write1", "read1"} THEN 1 ELSE NCHUNKS

(* How far a line is rotated: by its number, in createstress by the file's. *)
Rotation(t, i) == IF NowCall(t).op \in {"write1", "read1"} THEN NowCall(t).file[2] - 1 ELSE i

(* VOP_WRITE of the file system under test: a line is written at once. *)
VOP_WRITE(s, t, i) ==
    IF GONE \in s.open[t] THEN s
    ELSE [s EXCEPT !.disk[NowCall(t).file][i + 1] = rotate(0, Rotation(t, i))]

fstest_write(t) ==
    /\ FsAt(t, "write")
    /\ LET i == ft.chunk[t]
       IN  IF i = Lines(t) THEN ft' = FsReturn(vfs_close(ft, t, TRUE), t, TRUE)
           ELSE IF i % NowCall(t).size # NowCall(t).pos THEN ft' = [ft EXCEPT !.chunk[t] = @ + 1]
           ELSE \/ ft' = [VOP_WRITE(ft, t, i) EXCEPT !.chunk[t] = @ + 1]
                \/ /\ FsMayFail
                   /\ LET closed == vfs_close(ft, t, FALSE)
                          removed == IF NowCall(t).op = "write1" \/ GONE \in ft.open[t] THEN closed
                                     ELSE vfs_remove(closed, NowCall(t).file)
                      IN  ft' = FsFault(FsReturn(removed, t, FALSE))

(* fstest_read: every line must be the slogan again when rotated back. *)
read_open(t) ==
    /\ FsAt(t, "call") /\ ft.job[t] # <<>> /\ NowCall(t).op \in {"read", "read1"}
    /\ IF NowCall(t).file \notin DOMAIN ft.disk THEN ft' = FsReturn(ft, t, FALSE)
       ELSE \/ ft' = [ft EXCEPT !.open[t] = {NowCall(t).file}, !.pc[t] = "read"]
            \/ FsMayFail /\ ft' = FsFault(FsReturn(ft, t, FALSE))

fstest_read(t) ==
    /\ FsAt(t, "read")
    /\ LET i == ft.chunk[t]
           good == rotate(ft.disk[NowCall(t).file][i + 1], -Rotation(t, i)) = 0
       IN  IF i = Lines(t) THEN ft' = FsReturn(vfs_close(ft, t, TRUE), t, TRUE)
           ELSE \/ ft' = IF good THEN [ft EXCEPT !.chunk[t] = @ + 1]
                         ELSE FsReturn(vfs_close(ft, t, FALSE), t, FALSE)
                \/ FsMayFail /\ ft' = FsFault(FsReturn(vfs_close(ft, t, FALSE), t, FALSE))

fstest_remove(t) ==
    /\ FsAt(t, "call") /\ ft.job[t] # <<>> /\ NowCall(t).op = "remove"
    /\ IF NowCall(t).file \notin DOMAIN ft.disk THEN ft' = FsReturn(ft, t, FALSE)
       ELSE \/ ft' = FsReturn(vfs_remove(ft, NowCall(t).file), t, TRUE)
            \/ FsMayFail /\ ft' = FsFault(FsReturn(ft, t, FALSE))

(* A thread that has no more calls, or gave up, signals threadsem. *)
fs_thread_done(t) ==
    /\ t # FsMAIN /\ FsAt(t, "call") /\ ft.job[t] = <<>>
    /\ ft' = [ft EXCEPT !.pc[t] = "exit", !.sem = @ + 1]

----------------------------------------------------------------------------
(* The menu; what a run left on the disk stays there. *)
dofstest(test) ==
    /\ FsAt(FsMAIN, "menu") /\ ft.runs < FsRuns
    /\ ft' = [ft EXCEPT !.test = test, !.runs = @ + 1, !.failed = FALSE, !.faults = 0,
                        !.joined = 0, !.job[FsMAIN] = FsBefore(test), !.pc[FsMAIN] = "call",
                        !.pc = [t \in FsWorkers \cup {FsMAIN} |-> IF t = FsMAIN THEN "call" ELSE "none"]]

FsUnborn == {t \in FsWorkers : FsAt(t, "none")}

fs_main_next ==
    /\ FsAt(FsMAIN, "call") /\ ft.job[FsMAIN] = <<>>
    /\ CASE ft.test = "fstest" \/ (ft.failed /\ FsUnborn = FsWorkers) \/ ft.joined > FsThreads ->
               ft' = [ft EXCEPT !.pc[FsMAIN] = "menu"]
         [] OTHER -> ft' = [ft EXCEPT !.pc[FsMAIN] = "fork"]

fs_thread_fork ==
    /\ FsAt(FsMAIN, "fork")
    /\ ft' = IF FsUnborn = {} THEN [ft EXCEPT !.pc[FsMAIN] = "fs_join"]
             ELSE LET t == CHOOSE u \in FsUnborn : \A v \in FsUnborn : u <= v
                  IN  [ft EXCEPT !.pc[t] = "call", !.job[t] = ThreadJob(ft.test, t)]

fs_join ==
    /\ FsAt(FsMAIN, "fs_join")
    /\ IF ft.joined = FsThreads
       THEN ft' = [ft EXCEPT !.pc[FsMAIN] = "call", !.job[FsMAIN] = FsAfter(ft.test), !.joined = @ + 1]
       ELSE ft.sem > 0 /\ ft' = [ft EXCEPT !.sem = @ - 1, !.joined = @ + 1]

FsThread(t) ==
    \/ write_open(t) \/ fstest_write(t) \/ read_open(t) \/ fstest_read(t)
    \/ fstest_remove(t) \/ fs_thread_done(t)
FsMain == FsThread(FsMAIN) \/ fs_main_next \/ fs_thread_fork \/ fs_join

FsTestNext ==
    FsMain \/ (\E t \in FsWorkers : FsThread(t)) \/ \E test \in FsTestNames : dofstest(test)
FsTestSpec ==
    /\ FsTestInit /\ [][FsTestNext]_ft
    /\ WF_ft(FsMain) /\ \A t \in FsWorkers : WF_ft(FsThread(t))

----------------------------------------------------------------------------
(* When no call fails, no test reports a failure and none leaves a file    *)
(* behind, concurrent writers of one file included; whatever fails, every  *)
(* vnode is closed and every thread has signalled when the menu is back.   *)
FsTestsPass ==
    /\ ft.faults = 0 => ~ft.failed
    /\ FsAt(FsMAIN, "menu") =>
          /\ ft.faults = 0 /\ ft.runs <= 1 => ft.disk = [f \in {} |-> <<>>]
          /\ \A t \in FsWorkers \cup {FsMAIN} : ft.open[t] = {}
          /\ ft.sem = 0
=============================================================================

--------------------------- MODULE ServicesProofs ---------------------------
(***************************************************************************)
(* Proofs about three services that the rest of the kernel is built on and *)
(* that have nothing to do with each other: the disk, for every size of    *)
(* it, every number of threads and all requests; physical pages, for every *)
(* size of memory; and semaphores, for every number of threads, initial    *)
(* count and number of posts.                                              *)
(*                                                                         *)
(* The disk driver has one buffer, one pair of registers and one result    *)
(* for all requests. That it implements BlockDevice needs LhdInv: lh_clear *)
(* is a lock (CardOwner); a command or an answer on the card is that of    *)
(* the one thread that waits for it, once (CommandAwaited, OnCard); and    *)
(* the sector number given to the card is that of the request and was not  *)
(* cut off (Position). A sector is transferred when the card reports it,   *)
(* two steps before the driver moves on, which is what CallOf takes into   *)
(* account.                                                                *)
(*                                                                         *)
(* free_kpages reads the length of the run it frees from the coremap, so   *)
(* that neither the disjointness of the runs nor the usage count is        *)
(* inductive by itself: SizesRecorded says that this length is the one the *)
(* caller was given, and CoremapInv adds it.                               *)
(*                                                                         *)
(* That P never admits too many is not inductive either: units are also in *)
(* the hands of callers. Conserved counts them all: the units passed,      *)
(* those in sem_count, those of P calls that have taken one and not        *)
(* returned (LeavingLabels), and those of V calls that have begun and not  *)
(* added theirs (AddingLabels). No wakeup is lost because the wait channel *)
(* holds sleeping threads, each once (Queue), so that a V moves exactly    *)
(* one thread from asleep to awake.                                        *)
(***************************************************************************)
EXTENDS Coremap, Semaphore, Lhd, TLAPS

-----------------------------------------------------------------------------
(* The disk *)
InsideLabels == {"fill", "start", "wait", "result"}
Inside(t) == lh_io[t].pc \in InsideLabels

Working == {"LHD_WORKING", "LHD_WORKING_WRITE"}
Finished == {"LHD_OK", "LHD_INVSECT", "LHD_MEDIA"}
Results == {NoError, "EINVAL", "EIO", "EFAULT"}
Directions == {q.rw : q \in Requests} \cup {"UIO_READ"}

Io == [pc : {"idle", "seek", "loop"} \cup InsideLabels, rw : Directions, offset : Nat, resid : Nat,
       val : Values \cup {0}, data : Seq(Values), sector : Nat, i : Nat, result : Results]

LhdType ==
  /\ lh_clear \in {0, 1} /\ lh_done \in {0, 1}
  /\ lh_result \in Results
  /\ lh_stat \in Working \cup Finished \cup {"LHD_IDLE"}
  /\ lh_sect \in Nat /\ lh_buf \in Values
  /\ lh_disk \in [0 .. Blocks - 1 -> Values]
  /\ lh_io \in [LhdThreads -> Io]

\* One thread at a time has the card, between P and V of lh_clear.
CardOwner ==
  \A t \in LhdThreads : Inside(t) =>
    lh_clear = 0 /\ \A u \in LhdThreads : Inside(u) => u = t

\* A command or an answer on the card is that of a thread that waits for it.
CommandAwaited ==
  lh_stat # "LHD_IDLE" \/ lh_done = 1 => \E t \in LhdThreads : lh_io[t].pc = "wait"

\* The sectors done so far are sectors of the device, and no more than asked
\* for: a sector number is not cut off to 32 bits unless the card refuses one
\* before.
Position(t) ==
  LET r == lh_io[t] IN
  /\ r.pc = "seek" => r.i = 0
  /\ r.pc # "idle" => r.val \in Values
  /\ r.pc \in {"loop"} \cup InsideLabels =>
       /\ r.sector = r.offset \div LHD_SECTSIZE
       /\ r.sector + r.i <= Blocks
       /\ r.i <= r.resid \div LHD_SECTSIZE
  /\ r.pc \in InsideLabels => r.i < r.resid \div LHD_SECTSIZE
  /\ r.pc = "result" /\ r.result = NoError => r.sector + r.i < Blocks

\* What a waiting thread has told the card is still there, until it has its
\* answer, and there is one answer.
OnCard(t) ==
  LET r == lh_io[t] IN
  /\ r.pc \in {"start", "wait"} /\ r.rw = "UIO_WRITE" => lh_buf = r.val
  /\ r.pc = "wait" =>
       /\ lh_sect = r.sector + r.i
       /\ lh_stat = "LHD_IDLE" <=> lh_done = 1
       /\ lh_stat \in Working => (lh_stat = "LHD_WORKING_WRITE" <=> r.rw = "UIO_WRITE")
       /\ lh_stat = "LHD_OK" => lh_sect < Blocks
       /\ lh_done = 1 /\ lh_result = NoError => lh_sect < Blocks

LhdInv ==
  /\ LhdType /\ CardOwner /\ CommandAwaited
  /\ \A t \in LhdThreads : Position(t) /\ OnCard(t)

\* Arithmetic on sector numbers.
LEMMA SectorArithmetic ==
  /\ \A n \in Nat : n \div LHD_SECTSIZE \in Nat /\ n % Word \in Nat
  /\ \A n \in Nat : n <= Blocks => n % Word = n
  /\ Blocks \in Nat \ {0} /\ 0 % LHD_SECTSIZE = 0
<1>1. LHD_SECTSIZE \in Nat \ {0} /\ Word \in Nat \ {0} /\ Blocks \in Nat \ {0} /\ Blocks < Word
  BY LhdAssumption
<1>2. ASSUME NEW n \in Nat PROVE n \div LHD_SECTSIZE \in Nat /\ n % Word \in Nat
  BY <1>1
<1>3. ASSUME NEW n \in Nat, n <= Blocks PROVE n % Word = n
  <2> DEFINE q == n \div Word
             m == n % Word
  <2>1. q \in Nat /\ m \in 0 .. Word - 1 /\ n = Word * q + m
    BY <1>1
  <2> HIDE DEF q, m
  <2>2. q >= 1 => Word * q >= Word
    BY <2>1, <1>1
  <2>3. q = 0
    BY <2>1, <2>2, <1>1, <1>3
  <2>4. m = n
    BY <2>1, <2>3, <1>1
  <2> QED BY <2>4 DEF m
<1>4. 0 % LHD_SECTSIZE = 0
  BY <1>1
<1> QED BY <1>1, <1>2, <1>3, <1>4

\* A thread that is in no call.
LEMMA NoIoFacts ==
  /\ NoIo \in Io /\ NoIo.pc = "idle" /\ NoIo.i = 0 /\ NoIo.data = <<>> /\ NoIo.result = NoError
BY DEF NoIo, Io, Directions, Results, NoError

\* What BlockDevice sees.
DeviceVars == <<lh_disk, [t \in LhdThreads |-> CallOf(t)]>>

\* Both hold at first: the driver's invariant, and what BlockDevice starts with.
LEMMA LhdInitStep == LhdInit => LhdInv /\ Device!Init
<1> SUFFICES ASSUME LhdInit PROVE LhdInv /\ Device!Init
  OBVIOUS
<1>1. \A t \in LhdThreads : lh_io[t] = NoIo
  BY Zenon DEF LhdInit
<1>2. LhdType
  BY NoIoFacts DEF LhdInit, LhdType, Results, Working, Finished
<1>3. CardOwner /\ CommandAwaited
  BY <1>1, NoIoFacts DEF LhdInit, CardOwner, CommandAwaited, Inside, InsideLabels
<1>4. \A t \in LhdThreads : Position(t) /\ OnCard(t)
  BY Zenon, <1>1, NoIoFacts DEF Position, OnCard, InsideLabels
<1>5. \A t \in LhdThreads : CallOf(t) = Device!Returned(TRUE, <<>>)
  BY Zenon, <1>1, NoIoFacts DEF CallOf, Device!Returned
<1> QED BY Zenon, <1>2, <1>3, <1>4, <1>5 DEF LhdInv, LhdType, Device!Init

\* What holds of a thread at one of InsideLabels.
LEMMA InsideFacts ==
  ASSUME LhdInv, NEW t \in LhdThreads, Inside(t)
  PROVE  /\ lh_clear = 0 /\ \A u \in LhdThreads : u # t => lh_io[u].pc \notin InsideLabels
         /\ lh_io[t].pc # "wait" => lh_stat = "LHD_IDLE" /\ lh_done = 0
BY DEF LhdInv, LhdType, CardOwner, CommandAwaited, Inside, InsideLabels

\* The types of the record of a call, and of its numbers of sectors.
LEMMA IoFacts ==
  ASSUME LhdInv, NEW t \in LhdThreads
  PROVE  /\ lh_io[t] \in Io /\ lh_io[t].resid \div LHD_SECTSIZE \in Nat
         /\ lh_io[t].offset \in Nat /\ lh_io[t].resid \in Nat
         /\ lh_io[t].sector \in Nat /\ lh_io[t].i \in Nat /\ lh_io[t].data \in Seq(Values)
BY Zenon, SectorArithmetic DEF LhdInv, LhdType, Io

\* A thread outside the card's section steps, and stays outside or, with the
\* unit of lh_clear, goes in.
LEMMA StepOutside ==
  ASSUME LhdInv, NEW t \in LhdThreads, ~Inside(t),
         lh_io' \in [LhdThreads -> Io], \A u \in LhdThreads : u # t => lh_io'[u] = lh_io[u],
         Position(t)', lh_io'[t].pc \notin {"start", "wait", "result"},
         IF lh_io'[t].pc = "fill" THEN lh_clear = 1 /\ lh_clear' = 0 ELSE lh_clear' = lh_clear,
         UNCHANGED <<lh_done, lh_result, card>>
  PROVE  /\ LhdInv' /\ UNCHANGED lh_disk
         /\ \A u \in LhdThreads : u # t => CallOf(u)' = CallOf(u)
<1>1. LhdType'
  BY DEF LhdInv, LhdType, card
<1>2. CardOwner' /\ CommandAwaited'
  BY DEF LhdInv, CardOwner, CommandAwaited, card, Inside, InsideLabels
<1>3. ASSUME NEW u \in LhdThreads PROVE Position(u)' /\ OnCard(u)'
  BY DEF LhdInv, Position, OnCard, card
<1>4. ASSUME NEW u \in LhdThreads, u # t PROVE CallOf(u)' = CallOf(u)
  BY Zenon, <1>4 DEF CallOf, Transferred, card
<1> QED BY <1>1, <1>2, <1>3, <1>4 DEF LhdInv, card

\* The thread that has the card steps.
LEMMA StepInside ==
  ASSUME LhdInv, NEW t \in LhdThreads, Inside(t),
         LhdType', \A u \in LhdThreads : u # t => lh_io'[u] = lh_io[u],
         Position(t)', OnCard(t)', Inside(t)' => lh_clear' = 0,
         lh_io'[t].pc = "wait" \/ (lh_stat' = "LHD_IDLE" /\ lh_done' = 0)
  PROVE  LhdInv' /\ \A u \in LhdThreads : u # t => CallOf(u)' = CallOf(u)
<1>1. \A u \in LhdThreads : u # t => lh_io[u].pc \notin InsideLabels
  BY InsideFacts
<1>2. CardOwner' /\ CommandAwaited'
  BY <1>1 DEF CardOwner, CommandAwaited, LhdType, Inside
<1>3. ASSUME NEW u \in LhdThreads, u # t PROVE Position(u)' /\ OnCard(u)' /\ CallOf(u)' = CallOf(u)
  BY Zenon, <1>1, <1>3 DEF LhdInv, Position, OnCard, CallOf, Transferred, InsideLabels
<1> QED BY <1>2, <1>3 DEF LhdInv

\* What the device does when the call of one thread changes, or none does.
LEMMA DeviceStep ==
  ASSUME NEW t \in LhdThreads, \A u \in LhdThreads : u # t => CallOf(u)' = CallOf(u)
  PROVE  /\ [u \in LhdThreads |-> CallOf(u)]' =
              [[u \in LhdThreads |-> CallOf(u)] EXCEPT ![t] = CallOf(t)']
         /\ CallOf(t)' = CallOf(t) /\ UNCHANGED lh_disk => UNCHANGED DeviceVars
BY Zenon DEF DeviceVars

\* A call returns.
LEMMA ReturnIo ==
  ASSUME LhdInv, NEW t \in LhdThreads, NEW result \in Results, Return(t, result)
  PROVE  /\ lh_io' \in [LhdThreads -> Io] /\ lh_io'[t].pc = "idle"
         /\ \A u \in LhdThreads : u # t => lh_io'[u] = lh_io[u]
         /\ CallOf(t)' = [busy |-> FALSE, ok |-> result = NoError,
                          data |-> IF result = NoError THEN lh_io[t].data ELSE <<>>]
         /\ Position(t)' /\ OnCard(t)' /\ ~Inside(t)'
<1> DEFINE r == [NoIo EXCEPT !.result = result,
                             !.data = IF result = NoError THEN lh_io[t].data ELSE <<>>]
<1>1. /\ r \in Io /\ r.pc = "idle" /\ r.result = result
      /\ r.data = IF result = NoError THEN lh_io[t].data ELSE <<>>
  BY Zenon, IoFacts, NoIoFacts DEF Io
<1>2. lh_io' = [lh_io EXCEPT ![t] = r] /\ lh_io \in [LhdThreads -> Io]
  BY DEF Return, Set, LhdInv, LhdType
<1> HIDE DEF r
<1>3. lh_io' \in [LhdThreads -> Io] /\ lh_io'[t] = r
  BY <1>1, <1>2
<1> QED BY Zenon, <1>1, <1>2, <1>3 DEF CallOf, Position, OnCard, Inside, InsideLabels

\* A call that returns an error.
LEMMA Failed ==
  ASSUME LhdInv, NEW t \in LhdThreads, NEW result \in Results \ {NoError}, Return(t, result),
         lh_io[t].pc # "idle", UNCHANGED lh_disk,
         \A u \in LhdThreads : u # t => CallOf(u)' = CallOf(u)
  PROVE  Device!Fail(t)
<1>1. CallOf(t)' = Device!Returned(FALSE, <<>>)
  BY Zenon, ReturnIo DEF Device!Returned
<1>2. CallOf(t).busy
  BY DEF CallOf
<1> QED BY Zenon, <1>1, <1>2, DeviceStep DEF Device!Fail

\* A call goes on to label l, in a record that otherwise stays the same.
Moved(t, l) ==
  /\ lh_io' \in [LhdThreads -> Io] /\ \A u \in LhdThreads : u # t => lh_io'[u] = lh_io[u]
  /\ lh_io'[t].pc = l
  /\ lh_io'[t].rw = lh_io[t].rw /\ lh_io'[t].val = lh_io[t].val
  /\ lh_io'[t].offset = lh_io[t].offset /\ lh_io'[t].resid = lh_io[t].resid
  /\ lh_io'[t].sector = lh_io[t].sector /\ lh_io'[t].i = lh_io[t].i
  /\ lh_io'[t].data = lh_io[t].data

LEMMA MoveIo ==
  ASSUME LhdInv, NEW t \in LhdThreads, NEW l \in InsideLabels,
         Set(t, [lh_io[t] EXCEPT !.pc = l])
  PROVE  Moved(t, l)
BY Zenon, IoFacts DEF Set, LhdInv, LhdType, Io, Moved

\* A request enters.
LEMMA DevIo == ASSUME LhdInv, NEW t \in LhdThreads, dev_io(t) PROVE LhdInv' /\ Device!Call(t)
<1>1. PICK q \in Requests :
        Set(t, [NoIo EXCEPT !.pc = "seek", !.rw = q.rw, !.offset = q.offset,
                            !.resid = q.resid, !.val = q.val])
  BY Zenon DEF dev_io
<1>2. lh_io[t].pc = "idle" /\ UNCHANGED <<lh_clear, lh_done, lh_result, card>>
  BY DEF dev_io
<1> DEFINE a == q.offset \div LHD_SECTSIZE
           b == q.resid \div LHD_SECTSIZE
<1>3. q.rw \in Directions /\ q.val \in Values /\ q.offset \in Nat /\ q.resid \in Nat
  BY LhdAssumption DEF Directions
<1>4. a \in Nat /\ b \in Nat
  BY <1>3, SectorArithmetic
<1>5. /\ lh_io' \in [LhdThreads -> Io] /\ \A u \in LhdThreads : u # t => lh_io'[u] = lh_io[u]
      /\ lh_io'[t].pc = "seek" /\ lh_io'[t].rw = q.rw /\ lh_io'[t].offset = q.offset
      /\ lh_io'[t].resid = q.resid /\ lh_io'[t].val = q.val
      /\ lh_io'[t].i = 0 /\ lh_io'[t].data = <<>>
  BY ZenonT(30), <1>1, <1>3, NoIoFacts DEF Set, LhdInv, LhdType, Io
<1>6. Position(t)'
  BY <1>3, <1>5 DEF Position, InsideLabels
<1>7. /\ LhdInv' /\ UNCHANGED lh_disk
      /\ \A u \in LhdThreads : u # t => CallOf(u)' = CallOf(u)
  BY <1>2, <1>5, <1>6, StepOutside DEF Inside, InsideLabels
<1>8. CallOf(t)' = [busy |-> TRUE, rw |-> q.rw, val |-> q.val, sector |-> a + (0 + 0),
                    left |-> b - (0 + 0), data |-> <<>>]
  BY <1>5, Zenon DEF CallOf, Transferred
<1> HIDE DEF a, b
<1>9. CallOf(t)' = [busy |-> TRUE, rw |-> q.rw, sector |-> a, left |-> b, val |-> q.val,
                    data |-> <<>>]
  BY <1>4, <1>8
<1> DEFINE p == [rw |-> q.rw, val |-> q.val, sector |-> a, left |-> b]
<1>10. /\ p \in {[rw |-> x.rw, val |-> x.val, sector |-> x.offset \div LHD_SECTSIZE,
                  left |-> x.resid \div LHD_SECTSIZE] : x \in Requests}
       /\ p.rw = q.rw /\ p.val = q.val /\ p.sector = a /\ p.left = b
  BY DEF a, b
<1>11. ~CallOf(t).busy
  BY <1>2 DEF CallOf
<1> HIDE DEF p
<1> QED BY Zenon, <1>7, <1>9, <1>10, <1>11, DeviceStep DEF Device!Call

\* The checks: a request is refused, or goes on to its first sector.
LEMMA LhdIo ==
  ASSUME LhdInv, NEW t \in LhdThreads, lhd_io(t)
  PROVE  LhdInv' /\ (Device!Fail(t) \/ UNCHANGED DeviceVars)
<1> DEFINE S == lh_io[t].offset \div LHD_SECTSIZE
<1>1. lh_io[t].pc = "seek" /\ ~Inside(t) /\ UNCHANGED <<lh_clear, lh_done, lh_result, card>>
  BY DEF lhd_io, Inside, InsideLabels
<1>2. CASE Return(t, "EINVAL")
  <2>1. "EINVAL" \in Results \ {NoError}
    BY DEF Results, NoError
  <2>2. /\ LhdInv' /\ UNCHANGED lh_disk
        /\ \A u \in LhdThreads : u # t => CallOf(u)' = CallOf(u)
    BY <1>1, <1>2, <2>1, ReturnIo, StepOutside
  <2> QED BY <1>1, <1>2, <2>1, <2>2, Failed
<1>3. CASE /\ dev_tryseek(lh_io[t].offset) = NoError
           /\ Set(t, [lh_io[t] EXCEPT !.pc = "loop", !.sector = S % Word])
  <2>1. S \in Nat /\ S < Blocks /\ S + 0 <= Blocks /\ 0 <= lh_io[t].resid \div LHD_SECTSIZE
    BY <1>3, IoFacts, SectorArithmetic DEF dev_tryseek, NoError
  <2>2. S % Word = S
    BY <2>1, SectorArithmetic
  <2> HIDE DEF S
  <2>3. /\ lh_io' \in [LhdThreads -> Io] /\ \A u \in LhdThreads : u # t => lh_io'[u] = lh_io[u]
        /\ lh_io'[t].pc = "loop" /\ lh_io'[t].sector = S
        /\ lh_io'[t].rw = lh_io[t].rw /\ lh_io'[t].val = lh_io[t].val
        /\ lh_io'[t].offset = lh_io[t].offset /\ lh_io'[t].resid = lh_io[t].resid
        /\ lh_io'[t].i = lh_io[t].i /\ lh_io'[t].data = lh_io[t].data
    BY ZenonT(30), <1>3, <2>1, <2>2, IoFacts DEF Set, LhdInv, LhdType, Io
  <2>4. Position(t)'
    BY <1>1, <2>1, <2>3 DEF LhdInv, Position, InsideLabels, S
  <2>5. CallOf(t)' = CallOf(t)
    BY <1>1, <2>3 DEF CallOf, Transferred
  <2> QED BY Zenon, <1>1, <2>3, <2>4, <2>5, StepOutside, DeviceStep
<1> QED BY <1>2, <1>3 DEF lhd_io

\* The loop ends, and all sectors have been transferred; or P(lh_clear) returns.
LEMMA LhdClear ==
  ASSUME LhdInv, NEW t \in LhdThreads, lhd_clear(t)
  PROVE  LhdInv' /\ (Device!Finish(t) \/ UNCHANGED DeviceVars)
<1>1. lh_io[t].pc = "loop" /\ ~Inside(t) /\ UNCHANGED <<lh_done, lh_result, card>>
  BY DEF lhd_clear, Inside, InsideLabels
<1>2. CASE /\ lh_io[t].i = lh_io[t].resid \div LHD_SECTSIZE
           /\ Return(t, NoError) /\ UNCHANGED lh_clear
  <2>1. NoError \in Results
    BY DEF Results
  <2>2. /\ LhdInv' /\ UNCHANGED lh_disk
        /\ \A u \in LhdThreads : u # t => CallOf(u)' = CallOf(u)
    BY <1>1, <1>2, <2>1, ReturnIo, StepOutside
  <2>3. CallOf(t).busy /\ CallOf(t).left = 0 /\ CallOf(t).data = lh_io[t].data
    BY <1>1, <1>2, IoFacts DEF CallOf, Transferred
  <2>4. CallOf(t)' = Device!Returned(TRUE, CallOf(t).data)
    BY Zenon, <1>2, <2>1, <2>3, ReturnIo DEF Device!Returned
  <2> QED BY Zenon, <2>2, <2>3, <2>4, DeviceStep DEF Device!Finish
<1>3. CASE /\ lh_io[t].i # lh_io[t].resid \div LHD_SECTSIZE
           /\ lh_clear > 0 /\ lh_clear' = lh_clear - 1 /\ Set(t, [lh_io[t] EXCEPT !.pc = "fill"])
  <2>1. lh_clear = 1 /\ lh_clear' = 0
    BY <1>3 DEF LhdInv, LhdType
  <2>2. Moved(t, "fill")
    BY Zenon, <1>3, MoveIo DEF InsideLabels
  <2>3. lh_io[t].i < lh_io[t].resid \div LHD_SECTSIZE
    BY <1>1, <1>3, IoFacts DEF LhdInv, Position
  <2>4. Position(t)'
    BY <1>1, <2>2, <2>3 DEF LhdInv, Position, Moved, InsideLabels
  <2>5. CallOf(t)' = CallOf(t)
    BY <1>1, <2>2 DEF CallOf, Transferred, Moved
  <2> QED BY Zenon, <1>1, <2>1, <2>2, <2>4, <2>5, StepOutside, DeviceStep DEF Moved
<1> QED BY <1>2, <1>3 DEF lhd_clear

\* copyin fails, or the buffer is filled.
LEMMA LhdFill ==
  ASSUME LhdInv, NEW t \in LhdThreads, lhd_fill(t)
  PROVE  LhdInv' /\ (Device!Fail(t) \/ UNCHANGED DeviceVars)
<1>1. /\ lh_io[t].pc = "fill" /\ UNCHANGED <<lh_done, lh_result, lh_stat, lh_sect, lh_disk>>
      /\ Inside(t)
  BY DEF lhd_fill, Inside, InsideLabels
<1>2. lh_stat' = "LHD_IDLE" /\ lh_done' = 0 /\ lh_clear = 0
  BY <1>1, InsideFacts
<1>3. CASE lh_clear' = lh_clear + 1 /\ Return(t, "EFAULT") /\ UNCHANGED lh_buf
  <2>1. "EFAULT" \in Results \ {NoError}
    BY DEF Results, NoError
  <2>2. LhdType'
    BY <1>1, <1>2, <1>3, <2>1, ReturnIo DEF LhdInv, LhdType
  <2>3. LhdInv' /\ \A u \in LhdThreads : u # t => CallOf(u)' = CallOf(u)
    BY <1>1, <1>2, <1>3, <2>1, <2>2, ReturnIo, StepInside
  <2> QED BY <1>1, <1>3, <2>1, <2>3, Failed
<1>4. CASE /\ lh_buf' = IF lh_io[t].rw = "UIO_WRITE" THEN lh_io[t].val ELSE lh_buf
           /\ Set(t, [lh_io[t] EXCEPT !.pc = "start"]) /\ UNCHANGED lh_clear
  <2>1. Moved(t, "start")
    BY Zenon, <1>4, MoveIo DEF InsideLabels
  <2>2. Position(t)' /\ OnCard(t)'
    BY <1>1, <1>4, <2>1 DEF LhdInv, Position, OnCard, Moved, InsideLabels
  <2>3. LhdType'
    BY <1>1, <1>4, <2>1 DEF LhdInv, LhdType, Position, Moved
  <2>4. CallOf(t)' = CallOf(t)
    BY <1>1, <2>1 DEF CallOf, Transferred, Moved
  <2> QED BY Zenon, <1>1, <1>2, <1>4, <2>1, <2>2, <2>3, <2>4, StepInside, DeviceStep DEF Moved
<1> QED BY <1>3, <1>4 DEF lhd_fill

\* A command is given to the card.
LEMMA LhdStart ==
  ASSUME LhdInv, NEW t \in LhdThreads, lhd_start(t) PROVE LhdInv' /\ UNCHANGED DeviceVars
<1>1. /\ lh_io[t].pc = "start" /\ Inside(t)
      /\ UNCHANGED <<lh_clear, lh_done, lh_result, lh_buf, lh_disk>>
      /\ lh_sect' = (lh_io[t].sector + lh_io[t].i) % Word
      /\ lh_stat' = IF lh_io[t].rw = "UIO_WRITE" THEN "LHD_WORKING_WRITE" ELSE "LHD_WORKING"
      /\ Set(t, [lh_io[t] EXCEPT !.pc = "wait"])
  BY DEF lhd_start, Inside, InsideLabels
<1>2. lh_done' = 0 /\ lh_done = 0 /\ lh_clear' = 0
  BY <1>1, InsideFacts
<1>3. lh_io[t].sector + lh_io[t].i <= Blocks
  BY <1>1 DEF LhdInv, Position, InsideLabels
<1>4. lh_sect' = lh_io[t].sector + lh_io[t].i /\ lh_sect' \in Nat
  BY <1>1, <1>3, IoFacts, SectorArithmetic
<1>5. Moved(t, "wait")
  BY Zenon, <1>1, MoveIo DEF InsideLabels
<1>6. LhdType'
  BY <1>1, <1>4, <1>5 DEF LhdInv, LhdType, Working, Moved
<1>7. Position(t)' /\ OnCard(t)'
  BY <1>1, <1>2, <1>4, <1>5 DEF LhdInv, Position, OnCard, Moved, InsideLabels
<1>8. CallOf(t)' = CallOf(t)
  <2>1. ~Transferred(t) /\ ~Transferred(t)'
    BY <1>1, <1>2, <1>5 DEF Transferred, Moved
  <2> QED BY <1>1, <1>5, <2>1 DEF CallOf, Moved
<1> QED BY Zenon, <1>1, <1>2, <1>5, <1>6, <1>7, <1>8, StepInside, DeviceStep DEF Moved

\* P(lh_done) returns.
LEMMA LhdWait ==
  ASSUME LhdInv, NEW t \in LhdThreads, lhd_wait(t) PROVE LhdInv' /\ UNCHANGED DeviceVars
<1>1. /\ lh_io[t].pc = "wait" /\ Inside(t) /\ UNCHANGED <<lh_clear, lh_result, card>>
      /\ lh_done > 0 /\ lh_done' = lh_done - 1
      /\ Set(t, [lh_io[t] EXCEPT !.pc = "result", !.result = lh_result])
  BY DEF lhd_wait, Inside, InsideLabels
<1>2. lh_done = 1 /\ lh_done' = 0 /\ lh_result \in Results
  BY <1>1 DEF LhdInv, LhdType
<1>3. /\ lh_io' \in [LhdThreads -> Io] /\ \A u \in LhdThreads : u # t => lh_io'[u] = lh_io[u]
      /\ lh_io'[t].pc = "result" /\ lh_io'[t].result = lh_result
      /\ lh_io'[t].rw = lh_io[t].rw /\ lh_io'[t].val = lh_io[t].val
      /\ lh_io'[t].offset = lh_io[t].offset /\ lh_io'[t].resid = lh_io[t].resid
      /\ lh_io'[t].sector = lh_io[t].sector /\ lh_io'[t].i = lh_io[t].i
      /\ lh_io'[t].data = lh_io[t].data
  BY ZenonT(30), <1>1, <1>2, IoFacts DEF Set, LhdInv, LhdType, Io, InsideLabels
<1>4. lh_stat = "LHD_IDLE" /\ lh_stat' = "LHD_IDLE" /\ lh_clear' = 0
  BY <1>1, <1>2, InsideFacts DEF LhdInv, OnCard, card
<1>5. LhdType'
  BY <1>1, <1>2, <1>3 DEF LhdInv, LhdType, card
<1>6. Position(t)' /\ OnCard(t)'
  BY <1>1, <1>2, <1>3 DEF LhdInv, Position, OnCard, InsideLabels
<1>7. Transferred(t)' <=> Transferred(t)
  BY <1>1, <1>3, <1>4 DEF Transferred
<1>8. CallOf(t)' = CallOf(t) /\ UNCHANGED lh_disk
  BY Zenon, <1>1, <1>3, <1>7 DEF CallOf, card
<1> QED BY Zenon, <1>1, <1>2, <1>3, <1>4, <1>5, <1>6, <1>8, StepInside, DeviceStep

\* The request fails, or goes on to its next sector.
LEMMA LhdFinish ==
  ASSUME LhdInv, NEW t \in LhdThreads, lhd_finish(t)
  PROVE  LhdInv' /\ (Device!Fail(t) \/ UNCHANGED DeviceVars)
<1> DEFINE d == IF lh_io[t].rw = "UIO_READ" THEN Append(lh_io[t].data, lh_buf) ELSE lh_io[t].data
           n == lh_io[t].i + 1
<1>1. /\ lh_io[t].pc = "result" /\ Inside(t) /\ UNCHANGED <<lh_done, lh_result, card, lh_disk>>
      /\ lh_clear' = lh_clear + 1
  BY DEF lhd_finish, Inside, InsideLabels, card
<1>2. lh_clear' = 1 /\ lh_stat' = "LHD_IDLE" /\ lh_done' = 0
  BY <1>1, InsideFacts DEF card
<1>3. ASSUME NEW result \in Results \ {NoError}, Return(t, result) PROVE LhdInv' /\ Device!Fail(t)
  <2>1. LhdType'
    BY <1>1, <1>2, <1>3, ReturnIo DEF LhdInv, LhdType, card
  <2>2. LhdInv' /\ \A u \in LhdThreads : u # t => CallOf(u)' = CallOf(u)
    BY <1>1, <1>2, <1>3, <2>1, ReturnIo, StepInside
  <2> QED BY <1>1, <1>3, <2>2, Failed
<1>4. CASE /\ lh_io[t].result = NoError
           /\ Set(t, [lh_io[t] EXCEPT !.pc = "loop", !.i = @ + 1,
                        !.data = IF lh_io[t].rw = "UIO_READ" THEN Append(@, lh_buf) ELSE @])
  <2>1. d \in Seq(Values) /\ n \in Nat /\ n + 0 = lh_io[t].i + 1
    BY IoFacts DEF LhdInv, LhdType
  <2>2. Set(t, [lh_io[t] EXCEPT !.pc = "loop", !.i = n, !.data = d])
    BY <1>4
  <2> HIDE DEF n, d
  <2>3. /\ lh_io' \in [LhdThreads -> Io] /\ \A u \in LhdThreads : u # t => lh_io'[u] = lh_io[u]
        /\ lh_io'[t].pc = "loop" /\ lh_io'[t].rw = lh_io[t].rw /\ lh_io'[t].val = lh_io[t].val
        /\ lh_io'[t].offset = lh_io[t].offset /\ lh_io'[t].resid = lh_io[t].resid
        /\ lh_io'[t].sector = lh_io[t].sector /\ lh_io'[t].i = n /\ lh_io'[t].data = d
    BY ZenonT(30), <2>1, <2>2, IoFacts DEF Set, LhdInv, LhdType, Io
  <2>4. LhdType'
    BY <1>1, <1>2, <2>3 DEF LhdInv, LhdType, card
  <2>5. /\ lh_io[t].sector + lh_io[t].i < Blocks
        /\ lh_io[t].i < lh_io[t].resid \div LHD_SECTSIZE
        /\ lh_io[t].sector = lh_io[t].offset \div LHD_SECTSIZE /\ lh_io[t].val \in Values
    BY <1>1, <1>4 DEF LhdInv, Position, InsideLabels
  <2>6. lh_io[t].sector + n <= Blocks /\ n <= lh_io[t].resid \div LHD_SECTSIZE
    BY <2>5, IoFacts, SectorArithmetic DEF n
  <2>7. Position(t)' /\ OnCard(t)' /\ ~Inside(t)'
    BY <2>3, <2>5, <2>6 DEF Position, OnCard, Inside, InsideLabels
  <2>8. Transferred(t) /\ ~Transferred(t)'
    BY <1>1, <1>4, <2>3 DEF Transferred
  <2>9. CallOf(t)' = CallOf(t)
    BY Zenon, <1>1, <2>1, <2>3, <2>8 DEF CallOf, d
  <2> QED BY Zenon, <1>1, <1>2, <2>3, <2>4, <2>7, <2>9, StepInside, DeviceStep
<1>5. lh_io[t].result \in Results /\ "EFAULT" \in Results \ {NoError}
  BY IoFacts DEF Io, Results, NoError
<1> QED BY <1>3, <1>4, <1>5 DEF lhd_finish

\* A thread waits, and the card or its interrupt handler acts: no other call
\* moves on.
LEMMA CardStep ==
  ASSUME LhdInv, lh_stat # "LHD_IDLE", UNCHANGED <<lh_clear, lh_io>>, LhdType',
         \A t \in LhdThreads : lh_io[t].pc = "wait" => OnCard(t)'
  PROVE  /\ LhdInv'
         /\ \E t \in LhdThreads : /\ lh_io[t].pc = "wait" /\ Position(t) /\ OnCard(t)
                                  /\ \A u \in LhdThreads : u # t => CallOf(u)' = CallOf(u)
<1>1. PICK t \in LhdThreads : lh_io[t].pc = "wait"
  BY DEF LhdInv, CommandAwaited
<1>2. \A u \in LhdThreads : u # t => lh_io[u].pc \notin InsideLabels
  BY <1>1, InsideFacts DEF Inside, InsideLabels
<1>3. CardOwner' /\ CommandAwaited'
  BY <1>1 DEF LhdInv, CardOwner, CommandAwaited, Inside
<1>4. ASSUME NEW u \in LhdThreads PROVE Position(u)' /\ OnCard(u)'
  BY <1>1, <1>2 DEF LhdInv, Position, OnCard, InsideLabels
<1>5. ASSUME NEW u \in LhdThreads, u # t PROVE CallOf(u)' = CallOf(u)
  BY Zenon, <1>2, <1>5 DEF CallOf, Transferred, InsideLabels
<1> QED BY <1>1, <1>3, <1>4, <1>5 DEF LhdInv

\* The end of an operation on the card is the transfer of a sector, if it
\* succeeds.
LEMMA CardWorks ==
  ASSUME LhdInv, Card
  PROVE  LhdInv' /\ ((\E t \in LhdThreads : Device!Transfer(t)) \/ UNCHANGED DeviceVars)
<1>1. /\ UNCHANGED <<lh_clear, lh_done, lh_result, lh_sect, lh_io>>
      /\ lh_stat \in Working /\ lh_stat' \in Finished /\ lh_stat # "LHD_IDLE"
      /\ lh_stat' = "LHD_OK" => lh_sect < Blocks
      /\ lh_stat = "LHD_WORKING_WRITE" \/ lh_stat' # "LHD_OK" => UNCHANGED lh_buf
  BY DEF Card, Working, Finished
<1>2. LhdType'
  <2>1. lh_sect < Blocks => lh_sect \in 0 .. Blocks - 1
    BY SectorArithmetic DEF LhdInv, LhdType
  <2> QED BY <1>1, <2>1 DEF LhdInv, LhdType, Card
<1>3. ASSUME NEW t \in LhdThreads, lh_io[t].pc = "wait" PROVE OnCard(t)'
  BY <1>1, <1>3 DEF LhdInv, OnCard, Working, Finished
<1>4. LhdInv'
  BY <1>1, <1>2, <1>3, CardStep
<1>5. PICK t \in LhdThreads : /\ lh_io[t].pc = "wait" /\ Position(t) /\ OnCard(t)
                              /\ \A u \in LhdThreads : u # t => CallOf(u)' = CallOf(u)
  BY <1>1, <1>2, <1>3, CardStep
<1>6. ~Transferred(t) /\ (Transferred(t)' <=> lh_stat' = "LHD_OK")
  BY <1>1, <1>5 DEF LhdInv, LhdType, OnCard, Working, Transferred
<1>7. CASE lh_stat' # "LHD_OK"
  <2>1. UNCHANGED lh_disk
    BY <1>7 DEF Card
  <2>2. CallOf(t)' = CallOf(t)
    BY Zenon, <1>1, <1>6, <1>7 DEF CallOf
  <2> QED BY Zenon, <1>4, <1>5, <2>1, <2>2, DeviceStep
<1>8. CASE lh_stat' = "LHD_OK"
  <2> DEFINE S == lh_io[t].offset \div LHD_SECTSIZE
             L == lh_io[t].resid \div LHD_SECTSIZE
             c == CallOf(t)
  <2>1. IF lh_io[t].rw = "UIO_WRITE" THEN lh_disk' = [lh_disk EXCEPT ![lh_sect] = lh_io[t].val]
        ELSE lh_buf' = lh_disk[lh_sect] /\ UNCHANGED lh_disk
    BY <1>1, <1>5, <1>8 DEF Card, OnCard
  <2>2. S \in Nat /\ L \in Nat /\ lh_io[t].i \in Nat /\ lh_io[t].i < L /\ lh_sect = S + lh_io[t].i
    BY Zenon, <1>5, IoFacts, SectorArithmetic DEF Position, OnCard, InsideLabels
  <2>3. c = [busy |-> TRUE, rw |-> lh_io[t].rw, val |-> lh_io[t].val,
             sector |-> S + (lh_io[t].i + 0), left |-> L - (lh_io[t].i + 0),
             data |-> lh_io[t].data]
    BY <1>5, <1>6, Zenon DEF CallOf
  <2>4. CallOf(t)' =
          [busy |-> TRUE, rw |-> lh_io[t].rw, val |-> lh_io[t].val,
           sector |-> S + (lh_io[t].i + 1), left |-> L - (lh_io[t].i + 1),
           data |-> IF lh_io[t].rw = "UIO_READ" THEN Append(lh_io[t].data, lh_buf')
                    ELSE lh_io[t].data]
    BY <1>1, <1>5, <1>6, <1>8 DEF CallOf
  <2> HIDE DEF S, L, c
  <2>5. /\ c.busy /\ c.left > 0 /\ c.sector = lh_sect /\ c.sector \in 0 .. Blocks - 1
        /\ c.rw = lh_io[t].rw /\ c.val = lh_io[t].val /\ c.data = lh_io[t].data
        /\ c.sector + 1 = S + (lh_io[t].i + 1) /\ c.left - 1 = L - (lh_io[t].i + 1)
    BY <1>1, <1>8, <2>2, <2>3, SectorArithmetic
  <2>6. lh_disk' = IF c.rw = "UIO_WRITE" THEN [lh_disk EXCEPT ![c.sector] = c.val] ELSE lh_disk
    BY <2>1, <2>5
  <2>7. c.rw = "UIO_READ" => lh_buf' = lh_disk[c.sector]
    BY <2>1, <2>5
  <2>8. CallOf(t)' = [busy |-> TRUE, rw |-> c.rw, sector |-> c.sector + 1, left |-> c.left - 1,
                      val |-> c.val,
                      data |-> IF c.rw = "UIO_READ" THEN Append(c.data, lh_disk[c.sector])
                               ELSE c.data]
    BY Zenon, <2>4, <2>5, <2>7
  <2>9. Device!Transfer(t)
    BY Zenon, <1>5, <2>5, <2>6, <2>8, DeviceStep DEF Device!Transfer, c
  <2> QED BY <1>4, <2>9
<1> QED BY <1>7, <1>8

\* The interrupt handler saves the result.
LEMMA LhdIrq == ASSUME LhdInv, lhd_irq PROVE LhdInv' /\ UNCHANGED DeviceVars
<1>1. /\ UNCHANGED <<lh_clear, lh_sect, lh_buf, lh_disk, lh_io>>
      /\ lh_stat \in Finished /\ lh_stat' = "LHD_IDLE" /\ lh_done' = lh_done + 1
      /\ lh_stat # "LHD_IDLE" /\ lh_result' = lhd_code_to_errno[lh_stat]
  BY DEF lhd_irq, lhd_code_to_errno, Finished
<1>2. lh_result' \in Results /\ (lh_result' = NoError <=> lh_stat = "LHD_OK")
  BY <1>1 DEF lhd_code_to_errno, Finished, Results, NoError
<1>3. lh_done = 0
  BY <1>1 DEF LhdInv, CommandAwaited, OnCard, LhdType, Finished
<1>4. LhdType'
  BY <1>1, <1>2, <1>3 DEF LhdInv, LhdType
<1>5. ASSUME NEW t \in LhdThreads, lh_io[t].pc = "wait" PROVE OnCard(t)'
  BY <1>1, <1>2, <1>3, <1>5 DEF LhdInv, OnCard, Working
<1>6. LhdInv'
  BY <1>1, <1>4, <1>5, CardStep
<1>7. PICK t \in LhdThreads : /\ lh_io[t].pc = "wait"
                              /\ \A u \in LhdThreads : u # t => CallOf(u)' = CallOf(u)
  BY <1>1, <1>4, <1>5, CardStep
<1>8. Transferred(t)' <=> Transferred(t)
  BY <1>1, <1>2, <1>3, <1>7 DEF Transferred
<1>9. CallOf(t)' = CallOf(t)
  BY Zenon, <1>1, <1>8 DEF CallOf
<1> QED BY Zenon, <1>1, <1>6, <1>7, <1>9, DeviceStep

\* Every step keeps the invariant and is one of BlockDevice, or none.
LEMMA LhdNextStep == LhdInv /\ [LhdNext]_lhdVars => LhdInv' /\ [Device!Next]_DeviceVars
<1> SUFFICES ASSUME LhdInv, [LhdNext]_lhdVars PROVE LhdInv' /\ [Device!Next]_DeviceVars
  OBVIOUS
<1>1. ASSUME NEW t \in LhdThreads, dev_io(t) \/ LhdStep(t)
      PROVE  LhdInv' /\ [Device!Next]_DeviceVars
  BY <1>1, DevIo, LhdIo, LhdClear, LhdFill, LhdStart, LhdWait, LhdFinish
     DEF LhdStep, Device!Next
<1>2. CASE UNCHANGED lhdVars
  <2>1. LhdInv'
    BY <1>2 DEF lhdVars, LhdInv, LhdType, CardOwner, CommandAwaited, Position, OnCard, Inside
  <2>2. \A u \in LhdThreads : CallOf(u)' = CallOf(u)
    BY <1>2, ZenonT(30) DEF lhdVars, CallOf, Transferred
  <2> QED BY <1>2, <2>1, <2>2 DEF DeviceVars, lhdVars
<1> QED BY <1>1, <1>2, CardWorks, LhdIrq DEF LhdNext, Device!Next

\* What is on the card is always what one waiting thread has asked for: the
\* driver's invariant (lhd_io with lhd_irq).
THEOREM DriverInvariant == LhdSpec => []LhdInv
  BY LhdInitStep, LhdNextStep, PTL DEF LhdSpec

\* The disk driver (lhd_io with lhd_irq) implements a device that transfers
\* each sector of a request in one step.
THEOREM DiskIsBlockDevice == LhdSpec => ImplementsBlockDevice
  BY LhdInitStep, LhdNextStep, DriverInvariant, PTL
     DEF LhdSpec, ImplementsBlockDevice, Device!Spec, DeviceVars

-----------------------------------------------------------------------------
(* Physical pages *)
INSTANCE FiniteSetTheorems

SizesRecorded == \A c \in chunks : coremap[c[1]].chunk_size = c[2]

CoremapInv == CoremapTypeOK /\ ChunksDisjoint /\ NoPageLeaked /\ UsageExact /\ SizesRecorded

Taken == {i \in Memory : coremap[i].state # "free"}

\* The pages taken are finitely many.
LEMMA TakenFinite == IsFiniteSet(Memory) /\ IsFiniteSet(Taken)
<1>1. IsFiniteSet(Memory)
  BY CoremapAssumption, FS_Interval DEF Memory
<1>2. Taken \in SUBSET Memory
  BY DEF Taken
<1>3. QED
  BY <1>1, <1>2, FS_Subset

\* A run of n pages has n members, and one that starts a run is in it.
LEMMA RunSize ==
  ASSUME NEW i \in Nat, NEW n \in Nat \ {0}
  PROVE  IsFiniteSet(Run(i, n)) /\ Cardinality(Run(i, n)) = n /\ i \in Run(i, n)
<1>1. i \in Int /\ i + n - 1 \in Int /\ ~(i > i + n - 1) /\ (i + n - 1) - i + 1 = n
  OBVIOUS
<1>2. QED
  BY <1>1, FS_Interval DEF Run

\* Adding pages to a finite set that holds none of them adds their number.
LEMMA CardinalityGrows ==
  ASSUME NEW S, NEW T, IsFiniteSet(S), IsFiniteSet(T), S \cap T = {}
  PROVE  IsFiniteSet(S \cup T) /\ Cardinality(S \cup T) = Cardinality(S) + Cardinality(T)
<1>1. Cardinality(S \cap T) = 0
  BY FS_EmptySet
<1>2. Cardinality(S) \in Nat /\ Cardinality(T) \in Nat
  BY FS_CardinalityType
<1>3. /\ IsFiniteSet(S \cup T)
      /\ Cardinality(S \cup T) = Cardinality(S) + Cardinality(T) - Cardinality(S \cap T)
  BY FS_Union
<1>4. QED
  BY <1>1, <1>2, <1>3

\* Removing pages that are all in a finite set removes their number.
LEMMA CardinalityShrinks ==
  ASSUME NEW S, NEW T, IsFiniteSet(S), T \subseteq S
  PROVE  Cardinality(S \ T) = Cardinality(S) - Cardinality(T)
<1>1. IsFiniteSet(T) /\ IsFiniteSet(S \ T)
  BY FS_Subset
<1>2. (S \ T) \cap T = {} /\ (S \ T) \cup T = S
  OBVIOUS
<1>3. Cardinality(S) = Cardinality(S \ T) + Cardinality(T)
  BY <1>1, <1>2, CardinalityGrows
<1>4. Cardinality(S \ T) \in Nat /\ Cardinality(T) \in Nat
  BY <1>1, FS_CardinalityType
<1>5. QED
  BY <1>3, <1>4

LEMMA CoremapInit == coremap_bootstrap => CoremapInv
<1> SUFFICES ASSUME coremap_bootstrap PROVE CoremapInv
  OBVIOUS
<1> USE CoremapAssumption DEF coremap_bootstrap
<1>1. CoremapTypeOK
  BY DEF CoremapTypeOK, PageEntry, FixedPage, FreePage, Pages
<1>2. Taken = {}
  BY DEF Taken, Memory, Pages, FreePage
<1>3. UsageExact
  BY <1>2, FS_EmptySet DEF UsageExact, Taken
<1>4. NoPageLeaked
  BY DEF NoPageLeaked, Memory, Pages, FreePage
<1>5. QED
  BY <1>1, <1>3, <1>4 DEF CoremapInv, ChunksDisjoint, SizesRecorded

LEMMA AllocKpages ==
  ASSUME CoremapInv, NEW n \in Nat \ {0}, alloc_kpages(n)
  PROVE  CoremapInv'
<1> USE CoremapAssumption
<1>1. PICK i \in Memory :
        /\ FirstFit(i, n)
        /\ coremap' = [j \in Pages |-> IF j \in Run(i, n)
                                       THEN FixedPage(IF j = i THEN n ELSE 0) ELSE coremap[j]]
        /\ allocated_pages_count' = allocated_pages_count + n
        /\ chunks' = chunks \cup {<<i, n>>}
  BY DEF alloc_kpages, take_run
<1>2. i \in Nat /\ Memory \subseteq Pages
  BY DEF Memory, Pages
<1>3. Run(i, n) \subseteq Memory /\ \A j \in Run(i, n) : coremap[j].state = "free"
  BY <1>1 DEF FirstFit, Fits
<1>4. IsFiniteSet(Run(i, n)) /\ Cardinality(Run(i, n)) = n /\ i \in Run(i, n)
  BY <1>2, RunSize
<1>5. CoremapTypeOK'
  BY <1>1, <1>2 DEF CoremapInv, CoremapTypeOK, PageEntry, FixedPage
<1>6. \A j \in Memory : coremap'[j] = IF j \in Run(i, n)
                                     THEN FixedPage(IF j = i THEN n ELSE 0) ELSE coremap[j]
  BY <1>1, <1>2
<1>a. ASSUME NEW j \in Run(i, n) PROVE coremap'[j].state = "fixed"
  <2>1. coremap'[j] = FixedPage(IF j = i THEN n ELSE 0)
    BY <1>3, <1>6
  <2>2. QED
    BY <2>1 DEF FixedPage
<1>b. \A j \in Memory \ Run(i, n) : coremap'[j] = coremap[j]
  BY <1>6
<1>7. \A c \in chunks : Run(c[1], c[2]) \cap Run(i, n) = {}
  BY <1>3 DEF CoremapInv, ChunksDisjoint
<1>8. ChunksDisjoint'
  <2> SUFFICES ASSUME NEW c \in chunks'
               PROVE  /\ Run(c[1], c[2]) \subseteq Memory
                      /\ \A j \in Run(c[1], c[2]) : coremap'[j].state = "fixed"
                      /\ \A d \in chunks' : d # c => Run(c[1], c[2]) \cap Run(d[1], d[2]) = {}
    BY DEF ChunksDisjoint
  <2>1. CASE c \in chunks
    <3>1. Run(c[1], c[2]) \subseteq Memory /\ \A j \in Run(c[1], c[2]) : coremap[j].state = "fixed"
      BY <2>1 DEF CoremapInv, ChunksDisjoint
    <3>2. \A j \in Run(c[1], c[2]) : coremap'[j].state = "fixed"
      BY <1>6, <1>7, <2>1, <3>1
    <3>3. ASSUME NEW d \in chunks', d # c PROVE Run(c[1], c[2]) \cap Run(d[1], d[2]) = {}
      <4>1. CASE d \in chunks
        BY <2>1, <3>3, <4>1 DEF CoremapInv, ChunksDisjoint
      <4>2. CASE d = <<i, n>>
        BY <1>7, <2>1, <4>2
      <4>3. QED
        BY <1>1, <3>3, <4>1, <4>2
    <3>4. QED
      BY <3>1, <3>2, <3>3
  <2>2. CASE c = <<i, n>>
    <3>1. c[1] = i /\ c[2] = n
      BY <2>2
    <3>2. \A j \in Run(i, n) : coremap'[j].state = "fixed"
      BY <1>a
    <3>3. ASSUME NEW d \in chunks', d # c PROVE Run(i, n) \cap Run(d[1], d[2]) = {}
      <4>1. d \in chunks
        BY <1>1, <2>2, <3>3
      <4>2. QED
        BY <1>7, <4>1
    <3>4. QED
      BY <1>3, <3>1, <3>2, <3>3
  <2>3. QED
    BY <1>1, <2>1, <2>2
<1>9. NoPageLeaked'
  <2> SUFFICES ASSUME NEW j \in Memory, coremap'[j].state = "fixed"
               PROVE  \E c \in chunks' : j \in Run(c[1], c[2])
    BY DEF NoPageLeaked
  <2>1. CASE j \in Run(i, n)
    <3>1. <<i, n>> \in chunks'
      BY <1>1
    <3>2. QED
      BY <2>1, <3>1
  <2>2. CASE j \notin Run(i, n)
    <3>1. coremap[j].state = "fixed"
      BY <1>6, <2>2
    <3>2. PICK c \in chunks : j \in Run(c[1], c[2])
      BY <3>1 DEF CoremapInv, NoPageLeaked
    <3>3. c \in chunks'
      BY <1>1
    <3>4. QED
      BY <3>2, <3>3
  <2>3. QED
    BY <2>1, <2>2
<1>10. UsageExact'
  <2>1. Taken' = Taken \cup Run(i, n) /\ Taken \cap Run(i, n) = {}
    BY <1>3, <1>a, <1>b DEF Taken
  <2>2. Cardinality(Taken') = Cardinality(Taken) + n
    BY <1>4, <2>1, TakenFinite, CardinalityGrows
  <2>3. allocated_pages_count = Cardinality(Taken)
    BY DEF CoremapInv, UsageExact, Taken
  <2>4. allocated_pages_count' = Cardinality(Taken')
    BY <1>1, <2>2, <2>3
  <2>5. QED
    BY <2>4 DEF UsageExact, Taken
<1>11. SizesRecorded'
  <2> SUFFICES ASSUME NEW c \in chunks' PROVE coremap'[c[1]].chunk_size = c[2]
    BY DEF SizesRecorded
  <2>1. CASE c \in chunks
    <3>1. c[1] \in Nat /\ c[2] \in Nat \ {0} /\ c[1] \in Memory
      BY <2>1, <1>2 DEF CoremapInv, CoremapTypeOK, Memory
    <3>2. c[1] \in Run(c[1], c[2])
      BY <3>1, RunSize
    <3>3. c[1] \notin Run(i, n)
      BY <1>7, <2>1, <3>2
    <3>4. QED
      BY <1>6, <2>1, <3>1, <3>3 DEF CoremapInv, SizesRecorded
  <2>2. CASE c = <<i, n>>
    <3>1. c[1] = i /\ c[2] = n
      BY <2>2
    <3>2. coremap'[i] = FixedPage(n)
      BY <1>4, <1>6
    <3>3. QED
      BY <3>1, <3>2 DEF FixedPage
  <2>3. QED
    BY <1>1, <2>1, <2>2
<1>12. QED
  BY SMTT(30), <1>5, <1>8, <1>9, <1>10, <1>11 DEF CoremapInv

\* What free_kpages leaves: the run is free and all other pages are untouched.
LEMMA FreeKpages ==
  ASSUME CoremapInv, NEW c \in chunks, free_kpages(c[1], c[2])
  PROVE  CoremapInv'
<1> USE CoremapAssumption
<1> DEFINE gone == Run(c[1], c[2])
<1>1. c \in Memory \X (Nat \ {0}) /\ c[1] \in Nat /\ c[1] \in Memory /\ c[2] \in Nat \ {0} /\ c = <<c[1], c[2]>>
  BY DEF CoremapInv, CoremapTypeOK, Memory
<1>2. coremap[c[1]].chunk_size = c[2]
  BY DEF CoremapInv, SizesRecorded
<1>3. /\ coremap' = [j \in Pages |-> IF j \in gone THEN FreePage ELSE coremap[j]]
      /\ allocated_pages_count' = allocated_pages_count - c[2]
      /\ chunks' = chunks \ {c}
  BY <1>1, <1>2 DEF free_kpages
<1>4. gone \subseteq Memory /\ \A j \in gone : coremap[j].state = "fixed"
  BY DEF CoremapInv, ChunksDisjoint
<1>5. Memory \subseteq Pages
  BY DEF Memory, Pages
<1>6. \A j \in Memory : coremap'[j] = IF j \in gone THEN FreePage ELSE coremap[j]
  BY <1>3, <1>5
<1>7. \A d \in chunks' : d \in chunks /\ Run(d[1], d[2]) \cap gone = {}
  BY <1>3 DEF CoremapInv, ChunksDisjoint
<1>8. CoremapTypeOK'
  BY SMTT(30), <1>1, <1>3 DEF CoremapInv, CoremapTypeOK, PageEntry, FreePage
<1>9. ChunksDisjoint'
  <2> SUFFICES ASSUME NEW d \in chunks'
               PROVE  /\ Run(d[1], d[2]) \subseteq Memory
                      /\ \A j \in Run(d[1], d[2]) : coremap'[j].state = "fixed"
                      /\ \A e \in chunks' : e # d => Run(d[1], d[2]) \cap Run(e[1], e[2]) = {}
    BY DEF ChunksDisjoint
  <2>1. Run(d[1], d[2]) \subseteq Memory /\ \A j \in Run(d[1], d[2]) : coremap[j].state = "fixed"
    BY <1>7 DEF CoremapInv, ChunksDisjoint
  <2>2. \A j \in Run(d[1], d[2]) : coremap'[j].state = "fixed"
    BY <1>6, <1>7, <2>1
  <2>3. \A e \in chunks' : e # d => Run(d[1], d[2]) \cap Run(e[1], e[2]) = {}
    BY <1>7 DEF CoremapInv, ChunksDisjoint
  <2>4. QED
    BY <2>1, <2>2, <2>3
<1>10. NoPageLeaked'
  <2> SUFFICES ASSUME NEW j \in Memory, coremap'[j].state = "fixed"
               PROVE  \E d \in chunks' : j \in Run(d[1], d[2])
    BY DEF NoPageLeaked
  <2>1. j \notin gone /\ coremap[j].state = "fixed"
    BY <1>6 DEF FreePage
  <2>2. PICK d \in chunks : j \in Run(d[1], d[2])
    BY <2>1 DEF CoremapInv, NoPageLeaked
  <2>3. d \in chunks'
    BY <1>3, <2>1, <2>2
  <2>4. QED
    BY <2>2, <2>3
<1>11. UsageExact'
  <2>1. Taken' = Taken \ gone /\ gone \subseteq Taken
    BY <1>4, <1>6 DEF Taken, FreePage
  <2>2. Cardinality(gone) = c[2]
    BY <1>1, RunSize
  <2>3. Cardinality(Taken') = Cardinality(Taken) - c[2]
    BY <2>1, <2>2, TakenFinite, CardinalityShrinks
  <2>4. allocated_pages_count = Cardinality(Taken)
    BY DEF CoremapInv, UsageExact, Taken
  <2>5. allocated_pages_count' = Cardinality(Taken')
    BY <1>3, <2>3, <2>4
  <2>6. QED
    BY <2>5 DEF UsageExact, Taken
<1>12. SizesRecorded'
  <2> SUFFICES ASSUME NEW d \in chunks' PROVE coremap'[d[1]].chunk_size = d[2]
    BY DEF SizesRecorded
  <2>1. d \in chunks /\ d[1] \in Nat /\ d[1] \in Memory /\ d[2] \in Nat \ {0}
    BY <1>7 DEF CoremapInv, CoremapTypeOK, Memory
  <2>2. d[1] \in Run(d[1], d[2])
    BY <2>1, RunSize
  <2>3. d[1] \notin gone
    BY <1>7, <2>2
  <2>4. QED
    BY <1>6, <2>1, <2>3 DEF CoremapInv, SizesRecorded
<1>13. QED
  BY <1>8, <1>9, <1>10, <1>11, <1>12 DEF CoremapInv

\* A step on one user page: the page changes hands between free and used, and
\* no page of a run is touched.
LEMMA UserPage ==
  ASSUME CoremapInv, NEW i \in Memory, coremap[i].state # "fixed", UNCHANGED chunks,
         NEW e \in PageEntry, e.state # "fixed",
         coremap' = [coremap EXCEPT ![i] = e],
         allocated_pages_count' \in Int,
         allocated_pages_count' = Cardinality(Taken')
  PROVE  CoremapInv'
<1> USE CoremapAssumption
<1>1. Memory \subseteq Pages
  BY DEF Memory, Pages
<1>2. CoremapTypeOK'
  BY <1>1 DEF CoremapInv, CoremapTypeOK
<1>3. \A j \in Memory : coremap'[j] = IF j = i THEN e ELSE coremap[j]
  BY <1>1 DEF CoremapInv, CoremapTypeOK
<1>4. \A c \in chunks : Run(c[1], c[2]) \subseteq Memory /\ i \notin Run(c[1], c[2])
  BY DEF CoremapInv, ChunksDisjoint
<1>5. ChunksDisjoint'
  BY <1>3, <1>4 DEF CoremapInv, ChunksDisjoint
<1>6. NoPageLeaked'
  BY <1>3 DEF CoremapInv, NoPageLeaked
<1>7. SizesRecorded'
  <2> SUFFICES ASSUME NEW c \in chunks PROVE coremap'[c[1]].chunk_size = c[2]
    BY DEF SizesRecorded
  <2>1. c[1] \in Nat /\ c[1] \in Memory /\ c[2] \in Nat \ {0}
    BY DEF CoremapInv, CoremapTypeOK, Memory
  <2>2. c[1] \in Run(c[1], c[2])
    BY <2>1, RunSize
  <2>3. QED
    BY <1>3, <1>4, <2>1, <2>2 DEF CoremapInv, SizesRecorded
<1>8. UsageExact'
  BY DEF UsageExact, Taken
<1>9. QED
  BY <1>2, <1>5, <1>6, <1>7, <1>8 DEF CoremapInv

LEMMA AllocateUserPage ==
  ASSUME CoremapInv, NEW o \in Owners, NEW i \in Memory, take_page(i, o)
  PROVE  CoremapInv'
<1> USE CoremapAssumption
<1>1. /\ coremap[i].state = "free"
      /\ coremap' = [coremap EXCEPT ![i] = UsedPage(o)]
      /\ allocated_pages_count' = allocated_pages_count + 1
      /\ UNCHANGED chunks
  BY DEF take_page
<1>2. UsedPage(o) \in PageEntry /\ UsedPage(o).state = "used"
  BY DEF UsedPage, PageEntry
<1>3. Taken' = Taken \cup {i} /\ i \notin Taken
  <2>1. \A j \in Memory : coremap'[j] = IF j = i THEN UsedPage(o) ELSE coremap[j]
    BY <1>1 DEF CoremapInv, CoremapTypeOK, Memory, Pages
  <2>2. QED
    BY <1>1, <1>2, <2>1 DEF Taken
<1>4. Cardinality(Taken') = Cardinality(Taken) + 1
  BY Zenon, <1>3, TakenFinite, FS_AddElement
<1>5. allocated_pages_count = Cardinality(Taken) /\ allocated_pages_count \in Int
  BY DEF CoremapInv, UsageExact, Taken, CoremapTypeOK
<1>6. allocated_pages_count' = Cardinality(Taken') /\ allocated_pages_count' \in Int
  BY <1>1, <1>4, <1>5
<1>7. QED
  BY Zenon, <1>1, <1>2, <1>6, UserPage

LEMMA ReleasePhysicalPage ==
  ASSUME CoremapInv, NEW i \in Memory, release_physical_page(i)
  PROVE  CoremapInv'
<1> USE CoremapAssumption
<1>1. /\ coremap[i].state = "used"
      /\ coremap' = [coremap EXCEPT ![i] = FreePage]
      /\ allocated_pages_count' = allocated_pages_count - 1
      /\ UNCHANGED chunks
  BY DEF release_physical_page
<1>2. FreePage \in PageEntry /\ FreePage.state = "free"
  BY DEF FreePage, PageEntry
<1>3. Taken' = Taken \ {i} /\ i \in Taken
  <2>1. \A j \in Memory : coremap'[j] = IF j = i THEN FreePage ELSE coremap[j]
    BY <1>1 DEF CoremapInv, CoremapTypeOK, Memory, Pages
  <2>2. QED
    BY <1>1, <1>2, <2>1 DEF Taken
<1>4. Cardinality(Taken') = Cardinality(Taken) - 1
  BY Zenon, <1>3, TakenFinite, FS_RemoveElement
<1>5. allocated_pages_count = Cardinality(Taken) /\ allocated_pages_count \in Int
  BY DEF CoremapInv, UsageExact, Taken, CoremapTypeOK
<1>6. allocated_pages_count' = Cardinality(Taken') /\ allocated_pages_count' \in Int
  BY <1>1, <1>4, <1>5
<1>7. QED
  BY Zenon, <1>1, <1>2, <1>6, UserPage

\* CoremapInv is an invariant of the coremap: one case per operation.
THEOREM CoremapInvHolds == CoremapSpec => []CoremapInv
<1>1. CoremapInv /\ [CoremapNext]_coremapVars => CoremapInv'
  <2> SUFFICES ASSUME CoremapInv, [CoremapNext]_coremapVars PROVE CoremapInv'
    OBVIOUS
  <2>1. CASE \E n \in 1 .. EndIdx - StartIdx : alloc_kpages(n)
    BY <2>1, AllocKpages, CoremapAssumption
  <2>2. CASE \E c \in chunks : free_kpages(c[1], c[2])
    BY <2>2, FreeKpages
  <2>3. CASE \E o \in Owners : allocate_user_page(o)
    BY <2>3, AllocateUserPage DEF allocate_user_page
  <2>4. CASE \E i \in Memory : release_physical_page(i)
    BY <2>4, ReleasePhysicalPage
  <2>5. CASE UNCHANGED coremapVars
    BY Zenon, <2>5
       DEF coremapVars, CoremapInv, CoremapTypeOK, ChunksDisjoint, NoPageLeaked, UsageExact, SizesRecorded
  <2>6. QED
    BY <2>1, <2>2, <2>3, <2>4, <2>5 DEF CoremapNext
<1>2. QED
  BY <1>1, CoremapInit, PTL DEF CoremapSpec

\* Every entry of the coremap and the count keep their type.
THEOREM TypeCorrect == CoremapSpec => []CoremapTypeOK
  BY CoremapInvHolds, PTL DEF CoremapInv

\* No page is ever part of two runs that alloc_kpages has handed out, or of
\* such a run and of a user's memory, for every size of memory.
THEOREM KernelPagesExclusive == CoremapSpec => []ChunksDisjoint
  BY CoremapInvHolds, PTL DEF CoremapInv

\* free_kpages gives back the whole run: a page that is not free has a holder.
THEOREM NothingLeaks == CoremapSpec => []NoPageLeaked
  BY CoremapInvHolds, PTL DEF CoremapInv

\* coremap_memory_usage reports exactly the pages that are taken.
THEOREM UsageCorrect == CoremapSpec => []UsageExact
  BY CoremapInvHolds, PTL DEF CoremapInv

\* The three together: alloc_kpages, free_kpages and the allocation of user
\* pages keep physical memory accounted, for every amount of it.
THEOREM MemoryIsSound == CoremapSpec => []MemorySound
  BY KernelPagesExclusive, NothingLeaks, UsageCorrect, PTL DEF MemorySound

-----------------------------------------------------------------------------
(* Semaphores *)
SectionLabels == {"p_loop", "p_take", "p_unlock", "v_add", "v_wake", "v_unlock"}
Labels == SectionLabels \cup {"client", "p_spin", "p_asleep", "p_resume", "v_spin"}

SemTypeOK ==
  /\ sem_count \in Nat /\ posted \in Nat /\ passed \in Nat
  /\ sem_lock \in Threads \cup {NoThread}
  /\ sem_wchan \in Seq(Threads)
  /\ pc \in [Threads -> Labels]

\* The threads at one of the labels L
At(L) == {t \in Threads : pc[t] \in L}
AwakeLabels == {"p_resume", "p_loop", "p_take", "v_wake"}
AddingLabels == {"v_spin", "v_add"}
LeavingLabels == {"p_unlock"}

SpinOwner == \A t \in Threads : pc[t] \in SectionLabels <=> sem_lock = t

Queue ==
  /\ \A i \in 1 .. Len(sem_wchan) : pc[sem_wchan[i]] = "p_asleep"
  /\ \A i, j \in 1 .. Len(sem_wchan) : sem_wchan[i] = sem_wchan[j] => i = j

Conserved ==
  passed + sem_count + Cardinality(At(LeavingLabels)) + Cardinality(At(AddingLabels))
    = InitialCount + posted

SleepersCovered == sem_wchan # <<>> => Cardinality(At(AwakeLabels)) >= sem_count

SemInv ==
  /\ SemTypeOK /\ SpinOwner /\ Queue /\ Conserved /\ SleepersCovered /\ UnitStillThere

-----------------------------------------------------------------------------
\* How many threads are at labels L is a number.
LEMMA AtFinite == ASSUME NEW L PROVE IsFiniteSet(At(L)) /\ Cardinality(At(L)) \in Nat
<1>1. At(L) \subseteq Threads
  BY DEF At
<1> QED BY <1>1, FS_Subset, FS_CardinalityType, SemaphoreAssumption

\* A step that takes thread t to label l changes those numbers by at most one.
LEMMA MoveCounts ==
  ASSUME SemTypeOK, NEW t \in Threads, NEW l, NEW L, pc' = [pc EXCEPT ![t] = l]
  PROVE  /\ (pc[t] \in L <=> l \in L) => At(L)' = At(L)
         /\ pc[t] \notin L /\ l \in L => Cardinality(At(L)') = Cardinality(At(L)) + 1
         /\ pc[t] \in L /\ l \notin L => Cardinality(At(L)') = Cardinality(At(L)) - 1
<1>1. \A u \in Threads : pc'[u] = IF u = t THEN l ELSE pc[u]
  BY DEF SemTypeOK
<1>2. ASSUME pc[t] \in L <=> l \in L PROVE At(L)' = At(L)
  BY <1>1, <1>2 DEF At
<1>3. ASSUME pc[t] \notin L, l \in L PROVE Cardinality(At(L)') = Cardinality(At(L)) + 1
  <2>1. At(L)' = At(L) \cup {t} /\ t \notin At(L)
    BY <1>1, <1>3 DEF At
  <2> QED BY <2>1, AtFinite, FS_AddElement
<1>4. ASSUME pc[t] \in L, l \notin L PROVE Cardinality(At(L)') = Cardinality(At(L)) - 1
  <2>1. At(L)' = At(L) \ {t} /\ t \in At(L)
    BY <1>1, <1>4 DEF At
  <2> QED BY <2>1, AtFinite, FS_RemoveElement
<1> QED BY <1>2, <1>3, <1>4

\* The wait channel is kept by steps of threads that do not sleep.
LEMMA QueueKept ==
  ASSUME SemTypeOK, Queue, NEW t \in Threads, NEW l, pc' = [pc EXCEPT ![t] = l],
         pc[t] # "p_asleep", UNCHANGED sem_wchan
  PROVE  Queue'
  BY DEF SemTypeOK, Queue

LEMMA InitSemInv == Init => SemInv
<1> SUFFICES ASSUME Init PROVE SemInv
  OBVIOUS
<1>1. SemTypeOK /\ SpinOwner /\ Queue /\ SleepersCovered /\ UnitStillThere
  BY SemaphoreAssumption DEF Init, sem_create, SemTypeOK, Labels, SectionLabels, SpinOwner, Queue,
     SleepersCovered, UnitStillThere
<1>2. At(LeavingLabels) = {} /\ At(AddingLabels) = {}
  BY DEF Init, At, LeavingLabels, AddingLabels
<1>3. Conserved
  BY <1>2, FS_EmptySet, SemaphoreAssumption DEF Init, sem_create, Conserved
<1> QED BY <1>1, <1>3 DEF SemInv

-----------------------------------------------------------------------------
\* What a step of thread t from label a to label l must do with the counts.
Moves(t, a, l) ==
  /\ pc[t] = a /\ pc' = [pc EXCEPT ![t] = l]
  /\ a \in Labels \ {"p_asleep"} /\ l \in Labels

\* The counting part of a step that moves one thread.
LEMMA CountsOfAMove ==
  ASSUME SemTypeOK, NEW t \in Threads, NEW a, NEW l, Moves(t, a, l)
  PROVE  \A L \in {LeavingLabels, AddingLabels, AwakeLabels} :
            /\ Cardinality(At(L)) \in Nat
            /\ (a \in L <=> l \in L) => Cardinality(At(L)') = Cardinality(At(L))
            /\ a \notin L /\ l \in L => Cardinality(At(L)') = Cardinality(At(L)) + 1
            /\ a \in L /\ l \notin L => Cardinality(At(L)') = Cardinality(At(L)) - 1
<1> SUFFICES ASSUME NEW CONSTANT L
             PROVE  /\ Cardinality(At(L)) \in Nat
                    /\ (a \in L <=> l \in L) => Cardinality(At(L)') = Cardinality(At(L))
                    /\ a \notin L /\ l \in L => Cardinality(At(L)') = Cardinality(At(L)) + 1
                    /\ a \in L /\ l \notin L => Cardinality(At(L)') = Cardinality(At(L)) - 1
  OBVIOUS
<1> QED BY Zenon, AtFinite, MoveCounts DEF Moves

-----------------------------------------------------------------------------
\* The actions that leave the wait channel alone move one thread and keep the
\* inductive invariant.
LEMMA MovesKeepSemInv ==
  ASSUME SemInv, NEW t \in Threads,
         \/ p_call(t) \/ p_spin(t) \/ p_resume(t) \/ p_leave_loop(t) \/ p_take(t) \/ p_unlock(t)
         \/ v_call(t) \/ v_spin(t) \/ v_add(t) \/ v_unlock(t)
  PROVE  SemInv'
<1> USE SemaphoreAssumption DEF SemInv
<1> DEFINE leaving == Cardinality(At(LeavingLabels))
           adding == Cardinality(At(AddingLabels))
           awake == Cardinality(At(AwakeLabels))
<1>n. leaving \in Nat /\ adding \in Nat /\ awake \in Nat
  BY AtFinite
<1>1. CASE p_call(t)
  <2>1. Moves(t, "client", "p_spin")
    BY <1>1 DEF p_call, Goto, Moves, Labels, SectionLabels
  <2>2. leaving' = leaving /\ adding' = adding /\ awake' = awake
    BY <2>1, CountsOfAMove DEF LeavingLabels, AddingLabels, AwakeLabels
  <2>3. Queue'
    BY Zenon, <1>1, <2>1, QueueKept DEF Moves, p_call
  <2>4. SemTypeOK' /\ SpinOwner' /\ UnitStillThere'
    BY <1>1, <2>1 DEF p_call, Moves, SemTypeOK, SpinOwner, UnitStillThere, SectionLabels, Labels
  <2>5. Conserved' /\ SleepersCovered'
    <3> HIDE DEF leaving, adding, awake
    <3>1. passed' + sem_count' + leaving' + adding' = InitialCount + posted'
      BY <1>1, <1>n, <2>2 DEF p_call, SemTypeOK, Conserved, leaving, adding
    <3>2. sem_wchan' # <<>> => awake' >= sem_count'
      BY SMTT(30), <1>1, <1>n, <2>2 DEF p_call, SemTypeOK, SleepersCovered, awake
    <3> QED BY <3>1, <3>2 DEF Conserved, SleepersCovered, leaving, adding, awake
  <2> QED BY <2>3, <2>4, <2>5
<1>2. CASE p_spin(t)
  <2>1. Moves(t, "p_spin", "p_loop")
    BY <1>2 DEF p_spin, SpinAcquire, Goto, Moves, Labels, SectionLabels
  <2>2. leaving' = leaving /\ adding' = adding /\ awake' = awake + 1
    BY <2>1, CountsOfAMove DEF LeavingLabels, AddingLabels, AwakeLabels
  <2>3. Queue'
    BY Zenon, <1>2, <2>1, QueueKept DEF Moves, p_spin, SpinAcquire
  <2>4. SemTypeOK' /\ SpinOwner' /\ UnitStillThere'
    BY SMTT(30), <1>2, <2>1
       DEF p_spin, SpinAcquire, Moves, SemTypeOK, SpinOwner, UnitStillThere, SectionLabels, Labels
  <2>5. Conserved' /\ SleepersCovered'
    <3> HIDE DEF leaving, adding, awake
    <3>1. passed' + sem_count' + leaving' + adding' = InitialCount + posted'
      BY <1>2, <1>n, <2>2 DEF p_spin, SpinAcquire, SemTypeOK, Conserved, leaving, adding
    <3>2. sem_wchan' # <<>> => awake' >= sem_count'
      BY SMTT(30), <1>2, <1>n, <2>2 DEF p_spin, SpinAcquire, SemTypeOK, SleepersCovered, awake
    <3> QED BY <3>1, <3>2 DEF Conserved, SleepersCovered, leaving, adding, awake
  <2> QED BY <2>3, <2>4, <2>5
<1>3. CASE p_resume(t)
  <2>1. Moves(t, "p_resume", "p_loop")
    BY <1>3 DEF p_resume, SpinAcquire, Goto, Moves, Labels, SectionLabels
  <2>2. leaving' = leaving /\ adding' = adding /\ awake' = awake
    BY <2>1, CountsOfAMove DEF LeavingLabels, AddingLabels, AwakeLabels
  <2>3. Queue'
    BY Zenon, <1>3, <2>1, QueueKept DEF Moves, p_resume, SpinAcquire
  <2>4. SemTypeOK' /\ SpinOwner' /\ UnitStillThere'
    BY SMTT(30), <1>3, <2>1
       DEF p_resume, SpinAcquire, Moves, SemTypeOK, SpinOwner, UnitStillThere, SectionLabels, Labels
  <2>5. Conserved' /\ SleepersCovered'
    <3> HIDE DEF leaving, adding, awake
    <3>1. passed' + sem_count' + leaving' + adding' = InitialCount + posted'
      BY <1>3, <1>n, <2>2 DEF p_resume, SpinAcquire, SemTypeOK, Conserved, leaving, adding
    <3>2. sem_wchan' # <<>> => awake' >= sem_count'
      BY SMTT(30), <1>3, <1>n, <2>2 DEF p_resume, SpinAcquire, SemTypeOK, SleepersCovered, awake
    <3> QED BY <3>1, <3>2 DEF Conserved, SleepersCovered, leaving, adding, awake
  <2> QED BY <2>3, <2>4, <2>5
<1>4. CASE p_leave_loop(t)
  <2>1. Moves(t, "p_loop", "p_take")
    BY <1>4 DEF p_leave_loop, Goto, Moves, Labels, SectionLabels
  <2>2. leaving' = leaving /\ adding' = adding /\ awake' = awake
    BY <2>1, CountsOfAMove DEF LeavingLabels, AddingLabels, AwakeLabels
  <2>3. Queue'
    BY Zenon, <1>4, <2>1, QueueKept DEF Moves, p_leave_loop
  <2>4. SemTypeOK' /\ SpinOwner' /\ UnitStillThere'
    BY SMTT(30), <1>4, <2>1
       DEF p_leave_loop, Moves, SemTypeOK, SpinOwner, UnitStillThere, SectionLabels, Labels
  <2>5. Conserved' /\ SleepersCovered'
    <3> HIDE DEF leaving, adding, awake
    <3>1. passed' + sem_count' + leaving' + adding' = InitialCount + posted'
      BY <1>4, <1>n, <2>2 DEF p_leave_loop, SemTypeOK, Conserved, leaving, adding
    <3>2. sem_wchan' # <<>> => awake' >= sem_count'
      BY SMTT(30), <1>4, <1>n, <2>2 DEF p_leave_loop, SemTypeOK, SleepersCovered, awake
    <3> QED BY <3>1, <3>2 DEF Conserved, SleepersCovered, leaving, adding, awake
  <2> QED BY <2>3, <2>4, <2>5
<1>5. CASE p_take(t)
  <2>1. Moves(t, "p_take", "p_unlock")
    BY <1>5 DEF p_take, Goto, Moves, Labels, SectionLabels
  <2>2. leaving' = leaving + 1 /\ adding' = adding /\ awake' = awake - 1
    BY <2>1, CountsOfAMove DEF LeavingLabels, AddingLabels, AwakeLabels
  <2>3. Queue'
    BY Zenon, <1>5, <2>1, QueueKept DEF Moves, p_take
  <2>4. SemTypeOK' /\ SpinOwner' /\ UnitStillThere'
    BY SMTT(30), <1>5, <2>1 DEF p_take, Moves, SemTypeOK, SpinOwner, UnitStillThere, SectionLabels, Labels
  <2>5. Conserved' /\ SleepersCovered'
    <3> HIDE DEF leaving, adding, awake
    <3>1. passed' + sem_count' + leaving' + adding' = InitialCount + posted'
      BY <1>5, <1>n, <2>2 DEF p_take, SemTypeOK, Conserved, leaving, adding
    <3>2. sem_wchan' # <<>> => awake' >= sem_count'
      BY SMTT(30), <1>5, <1>n, <2>2 DEF p_take, SemTypeOK, SleepersCovered, awake
    <3> QED BY <3>1, <3>2 DEF Conserved, SleepersCovered, leaving, adding, awake
  <2> QED BY <2>3, <2>4, <2>5
<1>6. CASE p_unlock(t)
  <2>1. Moves(t, "p_unlock", "client")
    BY <1>6 DEF p_unlock, Goto, Moves, Labels, SectionLabels
  <2>2. leaving' = leaving - 1 /\ adding' = adding /\ awake' = awake
    BY <2>1, CountsOfAMove DEF LeavingLabels, AddingLabels, AwakeLabels
  <2>3. Queue'
    BY Zenon, <1>6, <2>1, QueueKept DEF Moves, p_unlock
  <2>4. SemTypeOK' /\ SpinOwner' /\ UnitStillThere'
    BY SMTT(30), <1>6, <2>1
       DEF p_unlock, Moves, SemTypeOK, SpinOwner, UnitStillThere, SectionLabels, Labels
  <2>5. Conserved' /\ SleepersCovered'
    <3> HIDE DEF leaving, adding, awake
    <3>1. passed' + sem_count' + leaving' + adding' = InitialCount + posted'
      BY <1>6, <1>n, <2>2 DEF p_unlock, SemTypeOK, Conserved, leaving, adding
    <3>2. sem_wchan' # <<>> => awake' >= sem_count'
      BY SMTT(30), <1>6, <1>n, <2>2 DEF p_unlock, SemTypeOK, SleepersCovered, awake
    <3> QED BY <3>1, <3>2 DEF Conserved, SleepersCovered, leaving, adding, awake
  <2> QED BY <2>3, <2>4, <2>5
<1>7. CASE v_call(t)
  <2>1. Moves(t, "client", "v_spin")
    BY <1>7 DEF v_call, Goto, Moves, Labels, SectionLabels
  <2>2. leaving' = leaving /\ adding' = adding + 1 /\ awake' = awake
    BY <2>1, CountsOfAMove DEF LeavingLabels, AddingLabels, AwakeLabels
  <2>3. Queue'
    BY Zenon, <1>7, <2>1, QueueKept DEF Moves, v_call
  <2>4. SemTypeOK' /\ SpinOwner' /\ UnitStillThere'
    BY SMTT(30), <1>7, <2>1 DEF v_call, Moves, SemTypeOK, SpinOwner, UnitStillThere, SectionLabels, Labels
  <2>5. Conserved' /\ SleepersCovered'
    <3> HIDE DEF leaving, adding, awake
    <3>1. passed' + sem_count' + leaving' + adding' = InitialCount + posted'
      BY SMTT(30), <1>7, <1>n, <2>2 DEF v_call, SemTypeOK, Conserved, leaving, adding
    <3>2. sem_wchan' # <<>> => awake' >= sem_count'
      BY <1>7, <1>n, <2>2 DEF v_call, SemTypeOK, SleepersCovered, awake
    <3> QED BY <3>1, <3>2 DEF Conserved, SleepersCovered, leaving, adding, awake
  <2> QED BY <2>3, <2>4, <2>5
<1>8. CASE v_spin(t)
  <2>1. Moves(t, "v_spin", "v_add")
    BY <1>8 DEF v_spin, SpinAcquire, Goto, Moves, Labels, SectionLabels
  <2>2. leaving' = leaving /\ adding' = adding /\ awake' = awake
    BY <2>1, CountsOfAMove DEF LeavingLabels, AddingLabels, AwakeLabels
  <2>3. Queue'
    BY Zenon, <1>8, <2>1, QueueKept DEF Moves, v_spin, SpinAcquire
  <2>4. SemTypeOK' /\ SpinOwner' /\ UnitStillThere'
    BY SMTT(30), <1>8, <2>1
       DEF v_spin, SpinAcquire, Moves, SemTypeOK, SpinOwner, UnitStillThere, SectionLabels, Labels
  <2>5. Conserved' /\ SleepersCovered'
    <3> HIDE DEF leaving, adding, awake
    <3>1. passed' + sem_count' + leaving' + adding' = InitialCount + posted'
      BY <1>8, <1>n, <2>2 DEF v_spin, SpinAcquire, SemTypeOK, Conserved, leaving, adding
    <3>2. sem_wchan' # <<>> => awake' >= sem_count'
      BY SMTT(30), <1>8, <1>n, <2>2 DEF v_spin, SpinAcquire, SemTypeOK, SleepersCovered, awake
    <3> QED BY <3>1, <3>2 DEF Conserved, SleepersCovered, leaving, adding, awake
  <2> QED BY <2>3, <2>4, <2>5
<1>9. CASE v_add(t)
  <2>1. Moves(t, "v_add", "v_wake")
    BY <1>9 DEF v_add, Goto, Moves, Labels, SectionLabels
  <2>2. leaving' = leaving /\ adding' = adding - 1 /\ awake' = awake + 1
    BY <2>1, CountsOfAMove DEF LeavingLabels, AddingLabels, AwakeLabels
  <2>3. Queue'
    BY Zenon, <1>9, <2>1, QueueKept DEF Moves, v_add
  <2>4. SemTypeOK' /\ SpinOwner' /\ UnitStillThere'
    BY SMTT(30), <1>9, <2>1 DEF v_add, Moves, SemTypeOK, SpinOwner, UnitStillThere, SectionLabels, Labels
  <2>5. Conserved' /\ SleepersCovered'
    <3> HIDE DEF leaving, adding, awake
    <3>1. passed' + sem_count' + leaving' + adding' = InitialCount + posted'
      BY <1>9, <1>n, <2>2 DEF v_add, SemTypeOK, Conserved, leaving, adding
    <3>2. sem_wchan' # <<>> => awake' >= sem_count'
      BY SMTT(30), <1>9, <1>n, <2>2 DEF v_add, SemTypeOK, SleepersCovered, awake
    <3> QED BY <3>1, <3>2 DEF Conserved, SleepersCovered, leaving, adding, awake
  <2> QED BY <2>3, <2>4, <2>5
<1>10. CASE v_unlock(t)
  <2>1. Moves(t, "v_unlock", "client")
    BY <1>10 DEF v_unlock, Goto, Moves, Labels, SectionLabels
  <2>2. leaving' = leaving /\ adding' = adding /\ awake' = awake
    BY <2>1, CountsOfAMove DEF LeavingLabels, AddingLabels, AwakeLabels
  <2>3. Queue'
    BY Zenon, <1>10, <2>1, QueueKept DEF Moves, v_unlock
  <2>4. SemTypeOK' /\ SpinOwner' /\ UnitStillThere'
    BY SMTT(30), <1>10, <2>1
       DEF v_unlock, Moves, SemTypeOK, SpinOwner, UnitStillThere, SectionLabels, Labels
  <2>5. Conserved' /\ SleepersCovered'
    <3> HIDE DEF leaving, adding, awake
    <3>1. passed' + sem_count' + leaving' + adding' = InitialCount + posted'
      BY <1>10, <1>n, <2>2 DEF v_unlock, SemTypeOK, Conserved, leaving, adding
    <3>2. sem_wchan' # <<>> => awake' >= sem_count'
      BY <1>10, <1>n, <2>2 DEF v_unlock, SemTypeOK, SleepersCovered, awake
    <3> QED BY <3>1, <3>2 DEF Conserved, SleepersCovered, leaving, adding, awake
  <2> QED BY <2>3, <2>4, <2>5
<1> QED BY SMTT(30), <1>1, <1>2, <1>3, <1>4, <1>5, <1>6, <1>7, <1>8, <1>9, <1>10

\* A thread that sleeps was at no place of the wait channel: it held the
\* spinlock, and those in the channel sleep.
LEMMA SleepKeepsSemInv == ASSUME SemInv, NEW t \in Threads, p_sleep(t) PROVE SemInv'
<1> USE SemaphoreAssumption DEF SemInv
<1>1. Moves(t, "p_loop", "p_asleep")
  BY DEF p_sleep, Goto, Moves, Labels, SectionLabels
<1>2. SemTypeOK' /\ SpinOwner' /\ UnitStillThere'
  BY <1>1 DEF p_sleep, Moves, SemTypeOK, SpinOwner, UnitStillThere, SectionLabels, Labels
<1>3. Queue'
  <2>1. /\ Len(sem_wchan') = Len(sem_wchan) + 1 /\ Len(sem_wchan) \in Nat
        /\ sem_wchan'[Len(sem_wchan) + 1] = t
        /\ \A i \in 1 .. Len(sem_wchan) : sem_wchan'[i] = sem_wchan[i] /\ sem_wchan[i] \in Threads
    BY SMTT(30) DEF p_sleep, SemTypeOK
  <2>2. \A i \in 1 .. Len(sem_wchan) : sem_wchan[i] # t
    BY DEF Queue, p_sleep
  <2> QED BY <1>1, <2>1, <2>2 DEF Queue, Moves, SemTypeOK
<1>4. Conserved'
  BY <1>1, CountsOfAMove DEF Conserved, p_sleep, LeavingLabels, AddingLabels
<1>5. SleepersCovered'
  <2>1. Cardinality(At(AwakeLabels)') \in Nat
    <3>1. At(AwakeLabels)' \subseteq Threads
      BY DEF At
    <3> QED BY <3>1, FS_Subset, FS_CardinalityType
  <2> QED BY <2>1 DEF SleepersCovered, p_sleep, SemTypeOK
<1> QED BY <1>2, <1>3, <1>4, <1>5

LEMMA HeadAndTail ==
  ASSUME NEW q \in Seq(Threads), q # <<>>
  PROVE  /\ Head(q) \in Threads /\ Head(q) = q[1] /\ 1 \in 1 .. Len(q)
         /\ Tail(q) \in Seq(Threads)
         /\ \A i \in 1 .. Len(Tail(q)) : i + 1 \in 1 .. Len(q) /\ Tail(q)[i] = q[i + 1]
  OBVIOUS

\* A V that finds a sleeper makes one thread more awake and is itself done:
\* the number of threads awake stays.
LEMMA WakeKeepsSemInv == ASSUME SemInv, NEW t \in Threads, v_wake(t) PROVE SemInv'
<1> USE SemaphoreAssumption DEF SemInv
<1>1. CASE sem_wchan = <<>>
  <2>1. Moves(t, "v_wake", "v_unlock")
    BY <1>1 DEF v_wake, Goto, Moves, Labels, SectionLabels
  <2>2. SemTypeOK' /\ SpinOwner' /\ UnitStillThere' /\ SleepersCovered'
    BY <1>1, <2>1 DEF v_wake, Moves, SemTypeOK, SpinOwner, UnitStillThere, SectionLabels, Labels,
       SleepersCovered
  <2>3. Queue'
    BY Zenon, <1>1, <2>1, QueueKept DEF Moves, v_wake
  <2>4. Conserved'
    BY <2>1, CountsOfAMove DEF Conserved, v_wake, LeavingLabels, AddingLabels
  <2> QED BY <2>2, <2>3, <2>4
<1>2. CASE sem_wchan # <<>>
  <2> DEFINE h == Head(sem_wchan)
  <2>1. /\ h \in Threads /\ h = sem_wchan[1] /\ 1 \in 1 .. Len(sem_wchan)
        /\ sem_wchan' = Tail(sem_wchan) /\ sem_wchan' \in Seq(Threads)
        /\ \A i \in 1 .. Len(sem_wchan') :
              i + 1 \in 1 .. Len(sem_wchan) /\ sem_wchan'[i] = sem_wchan[i + 1]
    BY Zenon, <1>2, HeadAndTail DEF SemTypeOK, v_wake
  <2>2. pc[h] = "p_asleep" /\ pc[t] = "v_wake" /\ h # t
    BY <2>1 DEF Queue, v_wake
  <2>3. pc' = [pc EXCEPT ![t] = "v_unlock", ![h] = "p_resume"]
        /\ UNCHANGED <<sem_count, sem_lock, posted, passed>>
    BY <1>2 DEF v_wake
  <2> HIDE DEF h
  <2>4. \A u \in Threads : pc'[u] = IF u = h THEN "p_resume" ELSE IF u = t THEN "v_unlock" ELSE pc[u]
    BY <2>1, <2>2, <2>3 DEF SemTypeOK
  <2>5. SemTypeOK' /\ SpinOwner' /\ UnitStillThere'
    <3>1. SemTypeOK'
      BY <2>1, <2>3 DEF SemTypeOK, Labels, SectionLabels
    <3>2. SpinOwner'
      <4>1. \A u \in Threads : pc'[u] \in SectionLabels <=> pc[u] \in SectionLabels
        BY <2>2, <2>4 DEF SectionLabels
      <4> QED BY Zenon, <2>3, <4>1 DEF SpinOwner
    <3>3. UnitStillThere'
      BY SMTT(30), <2>2, <2>3, <2>4 DEF UnitStillThere
    <3> QED BY SMTT(30), <3>1, <3>2, <3>3
  <2>6. Queue'
    <3>1. \A i \in 1 .. Len(sem_wchan') : sem_wchan'[i] \in Threads
      BY <2>1
    <3>2. \A i \in 1 .. Len(sem_wchan') : pc[sem_wchan'[i]] = "p_asleep" /\ sem_wchan'[i] # h
      BY <2>1 DEF Queue
    <3>3. \A i \in 1 .. Len(sem_wchan') : pc'[sem_wchan'[i]] = "p_asleep"
      BY SMTT(30), <2>2, <2>4, <3>1, <3>2
    <3>4. \A i, j \in 1 .. Len(sem_wchan') : sem_wchan'[i] = sem_wchan'[j] => i = j
      BY <2>1 DEF Queue
    <3> QED BY <3>3, <3>4 DEF Queue
  <2>7. Conserved'
    <3>1. At(LeavingLabels)' = At(LeavingLabels) /\ At(AddingLabels)' = At(AddingLabels)
      BY <2>2, <2>4 DEF At, LeavingLabels, AddingLabels
    <3> QED BY SMTT(30), <2>3, <3>1 DEF Conserved
  <2>8. SleepersCovered'
    <3>1. At(AwakeLabels)' = (At(AwakeLabels) \ {t}) \cup {h} /\ t \in At(AwakeLabels)
          /\ h \notin At(AwakeLabels)
      BY <2>1, <2>2, <2>4 DEF At, AwakeLabels
    <3>2. Cardinality(At(AwakeLabels)') = Cardinality(At(AwakeLabels))
      <4>1. Cardinality(At(AwakeLabels) \ {t}) = Cardinality(At(AwakeLabels)) - 1
            /\ IsFiniteSet(At(AwakeLabels) \ {t})
        BY <3>1, AtFinite, FS_RemoveElement
      <4>2. Cardinality((At(AwakeLabels) \ {t}) \cup {h}) = Cardinality(At(AwakeLabels) \ {t}) + 1
        BY Zenon, <3>1, <4>1, FS_AddElement
      <4>3. Cardinality(At(AwakeLabels)) \in Nat
        BY AtFinite
      <4> QED BY SMTT(30), <3>1, <4>1, <4>2, <4>3
    <3> QED BY SMTT(30), <1>2, <2>3, <3>2 DEF SleepersCovered
  <2> QED BY <2>5, <2>6, <2>7, <2>8
<1> QED BY <1>1, <1>2

LEMMA NextSemInv == SemInv /\ [Next]_vars => SemInv'
<1> SUFFICES ASSUME SemInv, [Next]_vars PROVE SemInv'
  OBVIOUS
<1>1. CASE UNCHANGED vars
  BY <1>1 DEF SemInv, vars, SemTypeOK, SpinOwner, Queue, Conserved, SleepersCovered, UnitStillThere, At
<1>2. ASSUME NEW t \in Threads, p_call(t) \/ v_call(t) \/ Step(t) PROVE SemInv'
  BY <1>2, MovesKeepSemInv, SleepKeepsSemInv, WakeKeepsSemInv DEF Step, P, V
<1> QED BY SMTT(30), <1>1, <1>2 DEF Next

\* P and V keep their promise whatever the interleaving: P never admits more
\* callers than units were given, no V's wakeup is lost while threads sleep,
\* and P's assertion on the count holds.
THEOREM SemaphoreIsSound == Spec => []SemaphoreSound
<1>1. SemInv => SemaphoreSound
  <2> SUFFICES ASSUME SemInv PROVE SemaphoreSound
    OBVIOUS
  <2>1. NeverOverAdmits
    BY AtFinite, SemaphoreAssumption DEF SemInv, Conserved, NeverOverAdmits, SemTypeOK
  <2>2. NoLostWakeup
    BY DEF SemInv, SleepersCovered, NoLostWakeup, At, AwakeLabels
  <2> QED BY <2>1, <2>2 DEF SemInv, SemaphoreSound
<1> QED BY InitSemInv, NextSemInv, <1>1, PTL DEF Spec
=============================================================================

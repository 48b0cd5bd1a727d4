-------------------------------- MODULE Lhd --------------------------------
(***************************************************************************)
(* The disk driver kern/dev/lamebus/lhd.c under the device vnodes of       *)
(* kern/vfs/device.c.                                                      *)
(*                                                                         *)
(* lh_clear and lh_done are the counts of the two semaphores (P and V are  *)
(* atomic, see Semaphore).  lh_stat, lh_sect and lh_buf are the registers  *)
(* and the transfer buffer on the card, lh_disk what the disk holds.  A    *)
(* sector of SECTSIZE units holds one value.  uint32_t is Word values, so  *)
(* that a sector number computed from a 64-bit offset may be cut off.      *)
(***************************************************************************)
EXTENDS Naturals, Sequences

CONSTANTS LhdThreads,   \* threads that do I/O
          LHD_SECTSIZE, \* units in a sector
          Blocks,       \* d_blocks
          Word,         \* bound: values of a uint32_t
          Requests,     \* [rw, offset, resid, val]: the uio of a call
          Values,       \* contents of a sector
          MaxLhdCalls   \* bound: requests in a behaviour

ASSUME LhdAssumption ==
  /\ LHD_SECTSIZE \in Nat \ {0}
  /\ Word \in Nat /\ Blocks \in 1 .. Word - 1
  /\ \A q \in Requests : q.offset \in Nat /\ q.resid \in Nat /\ q.val \in Values

VARIABLES lh_clear, lh_done, lh_result, lh_buf, lh_stat, lh_sect, lh_disk,
          lh_io,        \* the call each thread is in
          lh_calls      \* requests made so far

lhdVars == <<lh_clear, lh_done, lh_result, lh_buf, lh_stat, lh_sect, lh_disk, lh_io, lh_calls>>
card == <<lh_buf, lh_stat, lh_sect, lh_disk>>

NoError == "0"

NoIo == [pc |-> "idle", rw |-> "UIO_READ", offset |-> 0, resid |-> 0, val |-> 0, data |-> <<>>,
         sector |-> 0, i |-> 0, result |-> NoError]

\* config_lhd
LhdInit ==
  /\ lh_clear = 1
  /\ lh_done = 0
  /\ lh_result = NoError
  /\ lh_stat = "LHD_IDLE"
  /\ lh_sect = 0
  /\ \E v \in Values : lh_disk = [s \in 0 .. Blocks - 1 |-> v] /\ lh_buf = v
  /\ lh_io = [t \in LhdThreads |-> NoIo]
  /\ lh_calls = 0

-----------------------------------------------------------------------------
\* Fault: the position is not checked against the size of the device.
dev_tryseek_open(pos) == IF pos % LHD_SECTSIZE # 0 THEN "EINVAL" ELSE NoError

dev_tryseek(pos) ==
  IF pos % LHD_SECTSIZE # 0 \/ pos \div LHD_SECTSIZE >= Blocks THEN "EINVAL" ELSE NoError

\* The checks at the top of lhd_io, on 32-bit values; the sum may wrap around.
lhd_check(offset, resid) ==
  LET sector == (offset \div LHD_SECTSIZE) % Word
      len == (resid \div LHD_SECTSIZE) % Word
  IN IF offset % LHD_SECTSIZE # 0 \/ resid % LHD_SECTSIZE # 0 THEN "EINVAL"
     ELSE IF (sector + len) % Word > Blocks THEN "EINVAL" ELSE NoError

Set(t, r) == lh_io' = [lh_io EXCEPT ![t] = r]

Return(t, result) ==
  Set(t, [NoIo EXCEPT !.result = result,
                      !.data = IF result = NoError THEN lh_io[t].data ELSE <<>>])

\* A request enters, through dev_read and dev_write.
dev_io(t) ==
  \E q \in Requests :
    /\ lh_io[t].pc = "idle"
    /\ lh_calls < MaxLhdCalls
    /\ lh_calls' = lh_calls + 1
    /\ Set(t, [NoIo EXCEPT !.pc = "seek", !.rw = q.rw, !.offset = q.offset,
                            !.resid = q.resid, !.val = q.val])
    /\ UNCHANGED <<lh_clear, lh_done, lh_result, card>>

\* The checks fail, or the loop over the sectors begins.
lhd_io(t) ==
  LET r == lh_io[t]
      refused == dev_tryseek(r.offset) # NoError \/ lhd_check(r.offset, r.resid) # NoError
  IN /\ r.pc = "seek"
     /\ IF refused THEN Return(t, "EINVAL")
        ELSE Set(t, [r EXCEPT !.pc = "loop", !.sector = (r.offset \div LHD_SECTSIZE) % Word])
     /\ UNCHANGED <<lh_clear, lh_done, lh_result, card, lh_calls>>

\* P(lh_clear), or the end of the loop
lhd_clear(t) ==
  LET r == lh_io[t] IN
  /\ r.pc = "loop"
  /\ IF r.i = r.resid \div LHD_SECTSIZE
     THEN Return(t, NoError) /\ UNCHANGED lh_clear
     ELSE /\ lh_clear > 0
          /\ lh_clear' = lh_clear - 1
          /\ Set(t, [r EXCEPT !.pc = "fill"])
  /\ UNCHANGED <<lh_done, lh_result, card, lh_calls>>

\* A write fills the buffer; copyin may fail.
lhd_fill(t) ==
  LET r == lh_io[t] IN
  /\ r.pc = "fill"
  /\ \/ /\ r.rw = "UIO_WRITE"
        /\ lh_clear' = lh_clear + 1
        /\ Return(t, "EFAULT")
        /\ UNCHANGED lh_buf
     \/ /\ lh_buf' = IF r.rw = "UIO_WRITE" THEN r.val ELSE lh_buf
        /\ Set(t, [r EXCEPT !.pc = "start"])
        /\ UNCHANGED lh_clear
  /\ UNCHANGED <<lh_done, lh_result, lh_stat, lh_sect, lh_disk, lh_calls>>

\* The sector and the command are written to the registers.
lhd_start(t) ==
  LET r == lh_io[t] IN
  /\ r.pc = "start"
  /\ lh_sect' = (r.sector + r.i) % Word
  /\ lh_stat' = IF r.rw = "UIO_WRITE" THEN "LHD_WORKING_WRITE" ELSE "LHD_WORKING"
  /\ Set(t, [r EXCEPT !.pc = "wait"])
  /\ UNCHANGED <<lh_clear, lh_done, lh_result, lh_buf, lh_disk, lh_calls>>

\* P(lh_done); the result is what the interrupt handler has saved
lhd_wait(t) ==
  LET r == lh_io[t] IN
  /\ r.pc = "wait"
  /\ lh_done > 0
  /\ lh_done' = lh_done - 1
  /\ Set(t, [r EXCEPT !.pc = "result", !.result = lh_result])
  /\ UNCHANGED <<lh_clear, lh_result, card, lh_calls>>

\* Fault: the device is given away before the data is moved out of the buffer.
lhd_finish_early(t) ==
  LET r == lh_io[t] IN
  /\ r.pc \in {"result", "move"}
  /\ IF r.pc = "result"
     THEN lh_clear' = lh_clear + 1 /\ Set(t, [r EXCEPT !.pc = "move"])
     ELSE /\ UNCHANGED lh_clear
          /\ IF r.result # NoError THEN Return(t, r.result)
             ELSE Set(t, [r EXCEPT !.pc = "loop", !.i = @ + 1,
                                   !.data = IF r.rw = "UIO_READ" THEN Append(@, lh_buf) ELSE @])
  /\ UNCHANGED <<lh_done, lh_result, card, lh_calls>>

\* A successful read empties the buffer, where copyout may fail; then
\* V(lh_clear), and an error ends the request.
lhd_finish(t) ==
  LET r == lh_io[t] IN
  /\ r.pc = "result"
  /\ lh_clear' = lh_clear + 1
  /\ \/ /\ r.result # NoError
        /\ Return(t, r.result)
     \/ /\ r.result = NoError /\ r.rw = "UIO_READ"
        /\ Return(t, "EFAULT")
     \/ /\ r.result = NoError
        /\ Set(t, [r EXCEPT !.pc = "loop", !.i = @ + 1,
                            !.data = IF r.rw = "UIO_READ" THEN Append(@, lh_buf) ELSE @])
  /\ UNCHANGED <<lh_done, lh_result, card, lh_calls>>

\* The card: the operation it was told to do ends.
Card ==
  /\ lh_stat \in {"LHD_WORKING", "LHD_WORKING_WRITE"}
  /\ \/ /\ lh_sect >= Blocks
        /\ lh_stat' = "LHD_INVSECT"
        /\ UNCHANGED <<lh_disk, lh_buf>>
     \/ /\ lh_sect < Blocks
        /\ lh_stat' = "LHD_MEDIA"
        /\ UNCHANGED <<lh_disk, lh_buf>>
     \/ /\ lh_sect < Blocks
        /\ lh_stat' = "LHD_OK"
        /\ IF lh_stat = "LHD_WORKING_WRITE"
           THEN lh_disk' = [lh_disk EXCEPT ![lh_sect] = lh_buf] /\ UNCHANGED lh_buf
           ELSE lh_buf' = lh_disk[lh_sect] /\ UNCHANGED lh_disk
  /\ UNCHANGED <<lh_clear, lh_done, lh_result, lh_sect, lh_io, lh_calls>>

lhd_code_to_errno ==
  [code \in {"LHD_OK", "LHD_INVSECT", "LHD_MEDIA"} |->
     CASE code = "LHD_OK" -> NoError [] code = "LHD_INVSECT" -> "EINVAL" [] code = "LHD_MEDIA" -> "EIO"]

\* Fault: the status register is not cleared, so the interrupt comes again.
lhd_irq_uncleared ==
  /\ lh_stat \in DOMAIN lhd_code_to_errno
  /\ lh_done < 2
  /\ lh_result' = lhd_code_to_errno[lh_stat]
  /\ lh_done' = lh_done + 1
  /\ UNCHANGED <<lh_clear, lh_stat, lh_buf, lh_sect, lh_disk, lh_io, lh_calls>>

\* The interrupt handler, and lhd_iodone
lhd_irq ==
  /\ lh_stat \in DOMAIN lhd_code_to_errno
  /\ lh_stat' = "LHD_IDLE"
  /\ lh_result' = lhd_code_to_errno[lh_stat]
  /\ lh_done' = lh_done + 1
  /\ UNCHANGED <<lh_clear, lh_buf, lh_sect, lh_disk, lh_io, lh_calls>>

LhdStep(t) ==
  lhd_io(t) \/ lhd_clear(t) \/ lhd_fill(t) \/ lhd_start(t) \/ lhd_wait(t) \/ lhd_finish(t)

LhdNext == (\E t \in LhdThreads : dev_io(t) \/ LhdStep(t)) \/ Card \/ lhd_irq
LhdSpec == LhdInit /\ [][LhdNext]_lhdVars

-----------------------------------------------------------------------------
\* The sector a thread waits for has been transferred and nothing has failed.
Transferred(t) ==
  \/ lh_io[t].pc = "wait" /\ (lh_stat = "LHD_OK" \/ (lh_done > 0 /\ lh_result = NoError))
  \/ lh_io[t].pc = "result" /\ lh_io[t].result = NoError

\* What a thread's call has done so far, sector by sector
CallOf(t) ==
  LET r == lh_io[t]
      n == r.i + (IF Transferred(t) THEN 1 ELSE 0)
  IN IF r.pc = "idle" THEN [busy |-> FALSE, ok |-> r.result = NoError, data |-> r.data]
     ELSE [busy |-> TRUE, rw |-> r.rw, val |-> r.val,
           sector |-> (r.offset \div LHD_SECTSIZE) + n,
           left |-> (r.resid \div LHD_SECTSIZE) - n,
           data |-> IF Transferred(t) /\ r.rw = "UIO_READ" THEN Append(r.data, lh_buf) ELSE r.data]

Device == INSTANCE BlockDevice WITH
  Threads <- LhdThreads, Sectors <- 0 .. Blocks - 1,
  Requests <- {[rw |-> q.rw, val |-> q.val, sector |-> q.offset \div LHD_SECTSIZE,
                left |-> q.resid \div LHD_SECTSIZE] : q \in Requests},
  sectors <- lh_disk, call <- [t \in LhdThreads |-> CallOf(t)]

\* Requests of several threads that share one buffer, one pair of registers
\* and one result (lhd_io with lhd_irq) behave as if each sector were
\* transferred in one step, and a request that asks for sectors past the end
\* never succeeds, though the check in lhd_io overflows.
ImplementsBlockDevice == Device!Spec

\* A request returns: no wakeup of lh_clear or lh_done is lost.
IoReturns == \A t \in LhdThreads : lh_io[t].pc # "idle" ~> lh_io[t].pc = "idle"
=============================================================================

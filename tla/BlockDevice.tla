---------------------------- MODULE BlockDevice ----------------------------
(***************************************************************************)
(* What the callers of DEVOP_IO (kern/include/device.h) rely on: the       *)
(* sectors of a request are read or written in order, each in one step; a  *)
(* request returns 0 only when all of them were; one that fails has done a *)
(* prefix.  Nothing is done outside the device.                            *)
(***************************************************************************)
EXTENDS Naturals, Sequences

CONSTANTS Threads,
          Sectors,    \* the sectors of the device
          Values,     \* what a sector may hold
          Requests    \* [rw, sector, left, val]; sectors past the end too

VARIABLES sectors,    \* the contents of the device
          call        \* the request each thread is in, or what it returned

Returned(ok, data) == [busy |-> FALSE, ok |-> ok, data |-> data]

Init ==
  /\ sectors \in [Sectors -> Values]
  /\ call = [t \in Threads |-> Returned(TRUE, <<>>)]

Call(t) ==
  /\ ~call[t].busy
  /\ \E q \in Requests :
       call' = [call EXCEPT ![t] = [busy |-> TRUE, rw |-> q.rw, sector |-> q.sector,
                                    left |-> q.left, val |-> q.val, data |-> <<>>]]
  /\ UNCHANGED sectors

Transfer(t) ==
  LET c == call[t] IN
  /\ c.busy
  /\ c.left > 0
  /\ c.sector \in Sectors
  /\ sectors' = IF c.rw = "UIO_WRITE" THEN [sectors EXCEPT ![c.sector] = c.val] ELSE sectors
  /\ call' = [call EXCEPT ![t] =
                [busy |-> TRUE, rw |-> c.rw, sector |-> c.sector + 1, left |-> c.left - 1,
                 val |-> c.val,
                 data |-> IF c.rw = "UIO_READ" THEN Append(c.data, sectors[c.sector])
                          ELSE c.data]]

Finish(t) ==
  /\ call[t].busy
  /\ call[t].left = 0
  /\ call' = [call EXCEPT ![t] = Returned(TRUE, call[t].data)]
  /\ UNCHANGED sectors

Fail(t) ==
  /\ call[t].busy
  /\ call' = [call EXCEPT ![t] = Returned(FALSE, <<>>)]
  /\ UNCHANGED sectors

Next == \E t \in Threads : Call(t) \/ Transfer(t) \/ Finish(t) \/ Fail(t)

Spec == Init /\ [][Next]_<<sectors, call>>
=============================================================================

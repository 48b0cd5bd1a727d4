----------------------------- MODULE AirBalloon -----------------------------
(***************************************************************************)
(* The air balloon problem (kern/synchprobs/airballoon.c): two threads cut *)
(* ropes, any number of flower killers swap the stakes of ropes, the       *)
(* balloon waits until no rope is left, and the main thread waits for all  *)
(* of them, destroys the locks and semaphores, and may be asked again.     *)
(*                                                                         *)
(* Locks and semaphores are used through their promises (Monitor and       *)
(* Semaphore): a lock has at most one holder, P waits for a positive       *)
(* count.  ropes_left is read outside its lock, and is decremented by a    *)
(* load and a store.                                                       *)
(***************************************************************************)
EXTENDS Integers, FiniteSets

CONSTANTS NROPES, Killers

ASSUME AirAssumption ==
    /\ NROPES \in Nat /\ IsFiniteSet(Killers)
    /\ Killers \cap {"dandelion", "marigold", "balloon", "main", "nobody"} = {}

Ropes == 0 .. NROPES - 1
Cutters == {"dandelion", "marigold"}
Workers == Cutters \cup Killers \cup {"balloon"}
NOBODY == "nobody"

(* rope_lock and left_lock are holders; air_done counts the four           *)
(* completion semaphores (the killers share one); rope1, rope2 and temp    *)
(* are locals, 0 when they are dead, and joined the killers main has       *)
(* waited for; freed is that the balloon has said so.                      *)
VARIABLES cut, stake, rope_lock, ropes_left, left_lock, air_done,
          air_pc, rope1, rope2, temp, joined, freed
air_vars == <<cut, stake, rope_lock, ropes_left, left_lock, air_done,
              air_pc, rope1, rope2, temp, joined, freed>>

Semaphores == Cutters \cup {"balloon", "flowerkiller"}
DoneOf(t) == IF t \in Killers THEN "flowerkiller" ELSE t

(* init_mappings *)
Mapped == [cut |-> [r \in Ropes |-> FALSE], stake |-> [r \in Ropes |-> r],
           rope_lock |-> [r \in Ropes |-> NOBODY],
           done |-> [s \in Semaphores |-> 0]]

AirInit ==
    /\ cut = Mapped.cut /\ stake = Mapped.stake /\ rope_lock = Mapped.rope_lock
    /\ ropes_left = NROPES /\ left_lock = NOBODY /\ air_done = Mapped.done
    /\ air_pc = [t \in Workers \cup {"main"} |-> IF t = "main" THEN "fork" ELSE "unborn"]
    /\ rope1 = [t \in Workers |-> 0] /\ rope2 = [t \in Workers |-> 0]
    /\ temp = [t \in Workers |-> 0]
    /\ joined = 0 /\ freed = FALSE

AirGoto(t, from, to) == air_pc[t] = from /\ air_pc' = [air_pc EXCEPT ![t] = to]

ropes == <<cut, stake, rope_lock>>
count == <<ropes_left, left_lock>>
locals == <<rope1, rope2, temp>>
ending == <<air_done, joined, freed>>

----------------------------------------------------------------------------
(* V on the thread's semaphore, and thread_exit. *)
finish(t) ==
    /\ AirGoto(t, "V", "exit")
    /\ air_done' = [air_done EXCEPT ![DoneOf(t)] = @ + 1]
    /\ UNCHANGED <<ropes, count, locals, joined, freed>>

lock_rope(t, reg, from, to) ==
    /\ rope_lock[reg[t]] = NOBODY /\ AirGoto(t, from, to)
    /\ rope_lock' = [rope_lock EXCEPT ![reg[t]] = t]
    /\ UNCHANGED <<cut, stake, count, locals, ending>>

unlock_rope(t, reg, from, to) ==
    /\ AirGoto(t, from, to)
    /\ rope_lock' = [rope_lock EXCEPT ![reg[t]] = NOBODY]
    /\ rope1' = [rope1 EXCEPT ![t] = 0]
    /\ rope2' = IF to = "while" THEN [rope2 EXCEPT ![t] = 0] ELSE rope2
    /\ UNCHANGED <<cut, stake, count, temp, ending>>

(* dandelion and marigold: while ropes are left, one at random. *)
pick(t, r) ==
    /\ ropes_left > 0 /\ AirGoto(t, "while", "lock")
    /\ rope1' = [rope1 EXCEPT ![t] = r]
    /\ UNCHANGED <<ropes, count, rope2, temp, ending>>

no_more(t) ==
    /\ ropes_left = 0 /\ AirGoto(t, "while", "V")
    /\ UNCHANGED <<ropes, count, locals, ending>>

test_cut(t) ==
    /\ UNCHANGED <<stake, rope_lock, count, locals, ending>>
    /\ IF cut[rope1[t]] THEN AirGoto(t, "test", "unlock") /\ UNCHANGED cut
       ELSE AirGoto(t, "test", "left") /\ cut' = [cut EXCEPT ![rope1[t]] = TRUE]

(* Fault: ropes_left is decremented without its lock. *)
lock_left_missing(t) ==
    AirGoto(t, "left", "load") /\ UNCHANGED <<ropes, count, locals, ending>>

lock_left(t) ==
    /\ left_lock = NOBODY /\ AirGoto(t, "left", "load")
    /\ left_lock' = t
    /\ UNCHANGED <<ropes, ropes_left, locals, ending>>

load_left(t) ==
    /\ AirGoto(t, "load", "store") /\ temp' = [temp EXCEPT ![t] = ropes_left]
    /\ UNCHANGED <<ropes, count, rope1, rope2, ending>>

store_left(t) ==
    /\ AirGoto(t, "store", "unleft") /\ ropes_left' = temp[t] - 1
    /\ temp' = [temp EXCEPT ![t] = 0]
    /\ UNCHANGED <<ropes, left_lock, rope1, rope2, ending>>

unlock_left(t) ==
    /\ AirGoto(t, "unleft", "unlock") /\ left_lock' = NOBODY
    /\ UNCHANGED <<ropes, ropes_left, locals, ending>>

cutter(t) ==
    \/ no_more(t) \/ finish(t)
    \/ \E r \in Ropes : pick(t, r)
    \/ lock_rope(t, rope1, "lock", "test") \/ test_cut(t)
    \/ lock_left(t) \/ load_left(t) \/ store_left(t) \/ unlock_left(t)
    \/ unlock_rope(t, rope1, "unlock", "while")

dandelion == cutter("dandelion")
marigold == cutter("marigold")

----------------------------------------------------------------------------
(* Fault: the ropes are locked in the order in which they were drawn. *)
pick_two_drawn(k, a, b) ==
    /\ ropes_left > 1 /\ a # b /\ AirGoto(k, "while", "lock")
    /\ rope1' = [rope1 EXCEPT ![k] = a] /\ rope2' = [rope2 EXCEPT ![k] = b]
    /\ UNCHANGED <<ropes, count, temp, ending>>

(* flowerkiller: two different ropes, to be locked in the order of their    *)
(* numbers.                                                                *)
pick_two(k, a, b) ==
    /\ ropes_left > 1 /\ a # b /\ AirGoto(k, "while", "lock")
    /\ rope1' = [rope1 EXCEPT ![k] = IF a < b THEN a ELSE b]
    /\ rope2' = [rope2 EXCEPT ![k] = IF a < b THEN b ELSE a]
    /\ UNCHANGED <<ropes, count, temp, ending>>

killer_done(k) ==
    /\ ropes_left <= 1 /\ AirGoto(k, "while", "V")
    /\ UNCHANGED <<ropes, count, locals, ending>>

(* temp = stake1; stake1 = stake2; ... *)
swap(k) ==
    /\ UNCHANGED <<cut, rope_lock, count, rope1, rope2, ending>>
    /\ IF cut[rope1[k]] \/ cut[rope2[k]]
       THEN AirGoto(k, "test", "unlock") /\ UNCHANGED <<stake, temp>>
       ELSE /\ AirGoto(k, "test", "swap")
            /\ temp' = [temp EXCEPT ![k] = stake[rope1[k]]]
            /\ stake' = [stake EXCEPT ![rope1[k]] = stake[rope2[k]]]

(* ... stake2 = temp. *)
swap_end(k) ==
    /\ AirGoto(k, "swap", "unlock")
    /\ stake' = [stake EXCEPT ![rope2[k]] = temp[k]]
    /\ temp' = [temp EXCEPT ![k] = 0]
    /\ UNCHANGED <<cut, rope_lock, count, rope1, rope2, ending>>

flowerkiller(k) ==
    \/ killer_done(k) \/ finish(k)
    \/ \E a, b \in Ropes : pick_two(k, a, b)
    \/ lock_rope(k, rope1, "lock", "lock2") \/ lock_rope(k, rope2, "lock2", "test")
    \/ swap(k) \/ swap_end(k)
    \/ unlock_rope(k, rope1, "unlock", "unlock2")
    \/ unlock_rope(k, rope2, "unlock2", "while")

----------------------------------------------------------------------------
(* balloon, which yields for as long as ropes are left. *)
balloon ==
    \/ /\ ropes_left = 0 /\ AirGoto("balloon", "while", "V")
       /\ freed' = TRUE
       /\ UNCHANGED <<ropes, count, locals, air_done, joined>>
    \/ finish("balloon")

(* airballoon forks the threads one after the other ... *)
fork(t) ==
    /\ air_pc["main"] = "fork" /\ air_pc[t] = "unborn"
    /\ t # "marigold" => air_pc["marigold"] # "unborn"
    /\ t \notin Cutters => air_pc["dandelion"] # "unborn"
    /\ t = "balloon" => \A k \in Killers : air_pc[k] # "unborn"
    /\ air_pc' = [air_pc EXCEPT ![t] = "while",
                                !["main"] = IF t = "balloon" THEN "dandelion" ELSE @]
    /\ UNCHANGED <<ropes, count, locals, ending>>

(* ... waits for them in this order, for the killers one after the other ... *)
air_P(s, next) ==
    /\ air_done[s] > 0 /\ AirGoto("main", s, next)
    /\ air_done' = [air_done EXCEPT ![s] = @ - 1]
    /\ UNCHANGED <<ropes, count, locals, joined, freed>>

(* Fault: one killer is not waited for. *)
air_P_killers_short ==
    /\ air_done["flowerkiller"] > 0
    /\ AirGoto("main", "flowerkiller", IF joined + 2 < Cardinality(Killers) THEN "flowerkiller" ELSE "balloon")
    /\ joined' = IF joined + 2 < Cardinality(Killers) THEN joined + 1 ELSE 0
    /\ air_done' = [air_done EXCEPT !["flowerkiller"] = @ - 1]
    /\ UNCHANGED <<ropes, count, locals, freed>>

air_P_killers ==
    /\ air_done["flowerkiller"] > 0
    /\ AirGoto("main", "flowerkiller", IF joined + 1 < Cardinality(Killers) THEN "flowerkiller" ELSE "balloon")
    /\ joined' = IF joined + 1 < Cardinality(Killers) THEN joined + 1 ELSE 0
    /\ air_done' = [air_done EXCEPT !["flowerkiller"] = @ - 1]
    /\ UNCHANGED <<ropes, count, locals, freed>>

(* Fault: ropes_left is not set back for the next run. *)
destroy_resources_left ==
    /\ AirGoto("main", "destroy", "menu")
    /\ UNCHANGED <<ropes, count, locals, air_done, joined, freed>>

(* ... sets ropes_left back and destroys the resources. *)
destroy_resources ==
    /\ AirGoto("main", "destroy", "menu") /\ ropes_left' = NROPES
    /\ UNCHANGED <<ropes, left_lock, locals, air_done, joined, freed>>

(* The menu calls airballoon again, as often as it likes. *)
init_mappings ==
    /\ air_pc["main"] = "menu"
    /\ air_pc' = [t \in Workers \cup {"main"} |-> IF t = "main" THEN "fork" ELSE "unborn"]
    /\ cut' = Mapped.cut /\ stake' = Mapped.stake /\ rope_lock' = Mapped.rope_lock
    /\ left_lock' = NOBODY /\ air_done' = Mapped.done /\ freed' = FALSE
    /\ UNCHANGED <<ropes_left, locals, joined>>

airballoon ==
    \/ \E t \in Workers : fork(t)
    \/ air_P("dandelion", "marigold") \/ air_P("marigold", "flowerkiller")
    \/ air_P_killers \/ air_P("balloon", "destroy")
    \/ destroy_resources

AirNext ==
    dandelion \/ marigold \/ balloon \/ airballoon \/ init_mappings \/ \E k \in Killers : flowerkiller(k)

AirSpec == AirInit /\ [][AirNext]_air_vars

(* Threads are scheduled; a lock that is released again and again is given *)
(* to each cutter that waits for it; random() comes to each rope again and *)
(* again.                                                                  *)
AirFair ==
    /\ WF_air_vars(balloon) /\ WF_air_vars(airballoon)
    /\ \A t \in Cutters :
          WF_air_vars(cutter(t)) /\ SF_air_vars(lock_rope(t, rope1, "lock", "test"))
    /\ \A k \in Killers : WF_air_vars(flowerkiller(k))
    /\ \A r \in Ropes : SF_air_vars(\E t \in Cutters : pick(t, r))

AirFairSpec == AirSpec /\ AirFair

----------------------------------------------------------------------------
Uncut == {r \in Ropes : ~cut[r]}
Cutting == {t \in Cutters : air_pc[t] \in {"left", "load", "store"}}
Swapping == {k \in Killers : air_pc[k] = "swap"}

(* The balloon is freed when the last rope is cut and not before:          *)
(* ropes_left, read without its lock, is never below the number of ropes   *)
(* still there, and exact up to the cuts in progress.                      *)
FreedByLastCut ==
    /\ freed => Uncut = {}
    /\ air_pc["main"] \notin {"menu", "fork"} =>
          ropes_left = Cardinality(Uncut) + Cardinality(Cutting)

(* Each stake has one rope, whatever swaps ran, but for a swap under way   *)
(* whose locks are held; a rope is cut and its stake swapped only by the   *)
(* holder of its lock.                                                     *)
StakesPermuted ==
    /\ \A k \in Swapping : rope_lock[rope1[k]] = k /\ rope_lock[rope2[k]] = k
    /\ \A r, s \in Ropes :
          r # s /\ stake[r] = stake[s] => rope_lock[r] \in Swapping \/ rope_lock[s] \in Swapping

(* Nobody uses a lock or a semaphore that the main thread destroys.        *)
DestroyedAtRest ==
    air_pc["main"] \in {"destroy", "menu"} =>
        /\ \A t \in Workers : air_pc[t] = "exit"
        /\ \A r \in Ropes : rope_lock[r] = NOBODY
        /\ left_lock = NOBODY
        /\ \A s \in Semaphores : air_done[s] = 0

(* The lock a worker waits for while it holds another, and who holds it *)
Blocker(t) ==
    CASE air_pc[t] = "lock2" -> rope_lock[rope2[t]]
      [] air_pc[t] = "left" -> left_lock
      [] OTHER -> NOBODY

(* No two workers, and no ring of them, wait for each other's locks        *)
(* ("Ensure rope1 < rope2 to prevent circular wait").                      *)
NoCircularWait ==
    LET waiting == {t \in Workers : Blocker(t) # NOBODY}
    IN \A ring \in (SUBSET waiting) \ {{}} : \E t \in ring : Blocker(t) \notin ring

(* Cutting, swapping, waiting and destroying never interfere. *)
BalloonSound == FreedByLastCut /\ StakesPermuted /\ NoCircularWait /\ DestroyedAtRest
=============================================================================

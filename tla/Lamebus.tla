------------------------------ MODULE Lamebus -------------------------------
(***************************************************************************)
(* The LAMEbus, with the timer and the clock on it.                        *)
(***************************************************************************)
EXTENDS Naturals, Sequences, FiniteSets

(***************************************************************************)
(* The system bus while it is configured: autoconf_lamebus (generated into *)
(* kern/compile/GENERIC/autoconf.c) finds the cards and attaches a driver  *)
(* to each (the *_att.c files), with interrupts already on, and            *)
(* lamebus_interrupt of kern/dev/lamebus/lamebus.c dispatches them.        *)
(*                                                                         *)
(* Everything happens on the boot CPU: a card that asserts its line stops  *)
(* the boot thread until lamebus_interrupt has returned, and again at once *)
(* if a line is still asserted (interrupts are level-triggered).           *)
(***************************************************************************)

CONSTANTS Cards,      \* [slot -> [dev, ver]]: what is plugged in
          Noisy,      \* slots whose card asserts its line unasked
          DudLimit,   \* duds that lead to a panic (10000)
          MaxRaises   \* bound: interrupts raised by configured devices

Slots == DOMAIN Cards

ASSUME LamebusAssumption == Slots \subseteq Nat /\ Noisy \subseteq Slots /\ DudLimit \in Nat

VARIABLES ls_slotsinuse, ls_irqfuncs, lb_line, lb_irq, lb_duds, lb_boot, lb_ready, lb_kids,
          lb_con, lb_raises, lb_panic

lbVars == <<ls_slotsinuse, ls_irqfuncs, lb_line, lb_irq, lb_duds, lb_boot, lb_ready, lb_kids,
            lb_con, lb_raises, lb_panic>>

-----------------------------------------------------------------------------
(* The attach functions: which card, the lowest revision supported, and    *)
(* whether an interrupt handler is registered                              *)
attach_emu_to_lamebus == [dev |-> "emu", low |-> 1, irq |-> TRUE]
attach_ltrace_to_lamebus == [dev |-> "ltrace", low |-> 1, irq |-> FALSE]
attach_ltimer_to_lamebus == [dev |-> "ltimer", low |-> 1, irq |-> TRUE]
attach_lrandom_to_lamebus == [dev |-> "lrandom", low |-> 1, irq |-> FALSE]
attach_lhd_to_lamebus == [dev |-> "lhd", low |-> 2, irq |-> TRUE]
attach_lser_to_lamebus == [dev |-> "lser", low |-> 1, irq |-> TRUE]

\* autoconf_lamebus tries the drivers in this order.
autoconf_lamebus == <<attach_emu_to_lamebus, attach_ltrace_to_lamebus, attach_ltimer_to_lamebus,
                      attach_lrandom_to_lamebus, attach_lhd_to_lamebus, attach_lser_to_lamebus>>

\* What is attached to a card in turn: autoconf_lser, autoconf_ltimer and
\* autoconf_lrandom.  There is one of each in the system.
autoconf_lser == <<"con">>
autoconf_ltimer == <<"beep", "rtclock">>
autoconf_lrandom == <<"random">>
Children(dev) ==
  CASE dev = "lser" -> autoconf_lser [] dev = "ltimer" -> autoconf_ltimer [] dev = "lrandom" -> autoconf_lrandom
    [] OTHER -> <<>>

NoSlot == 0 - 1
Driver == autoconf_lamebus[lb_boot.driver]
Idle == [active |-> FALSE, irqs |-> {}, slot |-> 0, duds |-> 0]

\* lamebus_init and the spl0 of mainbus_bootstrap
LbInit ==
  /\ ls_slotsinuse = {}
  /\ ls_irqfuncs = [s \in Slots |-> "NULL"]
  /\ lb_line = {} /\ lb_irq = Idle /\ lb_duds = 0
  /\ lb_boot = [pc |-> "probe", driver |-> 1, slot |-> NoSlot, kid |-> 0]
  /\ lb_ready = {} /\ lb_kids = {} /\ lb_con = NoSlot
  /\ lb_raises = 0 /\ lb_panic = "no"

\* The boot thread runs only while nothing interrupts it.
BootRuns == ~lb_irq.active /\ lb_line = {} /\ lb_panic = "no"

bus == <<lb_line, lb_irq, lb_duds, lb_raises>>
children == <<lb_kids, lb_con>>

\* The next driver is tried, or all have been.
NextDriver ==
  lb_boot' = IF lb_boot.driver = Len(autoconf_lamebus) THEN [lb_boot EXCEPT !.pc = "done", !.slot = NoSlot]
             ELSE [pc |-> "probe", driver |-> lb_boot.driver + 1, slot |-> NoSlot, kid |-> 0]

\* Fault: slots in use are offered again.
Suitable_used(d) == {s \in Slots : Cards[s].dev = d.dev /\ Cards[s].ver >= d.low}

\* The cards lamebus_probe would return for a driver, the lowest slot first
Suitable(d) == {s \in Slots \ ls_slotsinuse : Cards[s].dev = d.dev /\ Cards[s].ver >= d.low}

lamebus_probe ==
  /\ BootRuns /\ lb_boot.pc = "probe"
  /\ IF Suitable(Driver) = {} THEN NextDriver
     ELSE lb_boot' = [lb_boot EXCEPT !.pc = "mark",
                                     !.slot = CHOOSE s \in Suitable(Driver) : \A u \in Suitable(Driver) : s <= u]
  /\ UNCHANGED <<ls_slotsinuse, ls_irqfuncs, bus, lb_ready, children, lb_panic>>

\* kmalloc of the softc fails: the driver's loop ends.
attach_nomem ==
  /\ BootRuns /\ lb_boot.pc = "mark"
  /\ NextDriver
  /\ UNCHANGED <<ls_slotsinuse, ls_irqfuncs, bus, lb_ready, children, lb_panic>>

lamebus_mark ==
  /\ BootRuns /\ lb_boot.pc = "mark"
  /\ lb_panic' = IF lb_boot.slot \in ls_slotsinuse THEN "mark" ELSE "no"
  /\ ls_slotsinuse' = ls_slotsinuse \cup {lb_boot.slot}
  /\ lb_boot' = [lb_boot EXCEPT !.pc = IF Driver.irq THEN "irq" ELSE "config"]
  /\ UNCHANGED <<ls_irqfuncs, bus, lb_ready, children>>

lamebus_attach_interrupt ==
  /\ BootRuns /\ lb_boot.pc = "irq"
  /\ lb_panic' = IF lb_boot.slot \notin ls_slotsinuse \/ ls_irqfuncs[lb_boot.slot] # "NULL" THEN "attach" ELSE "no"
  /\ ls_irqfuncs' = [ls_irqfuncs EXCEPT ![lb_boot.slot] = Driver.dev]
  /\ lb_boot' = [lb_boot EXCEPT !.pc = "config"]
  /\ UNCHANGED <<ls_slotsinuse, bus, lb_ready, children>>

\* config_xxx: the device may interrupt from now on.  A config that fails ends
\* the driver's loop, and the slot stays marked.
config ==
  /\ BootRuns /\ lb_boot.pc = "config"
  /\ \/ /\ lb_ready' = lb_ready \cup {lb_boot.slot}
        /\ lb_boot' = [lb_boot EXCEPT !.pc = "children", !.kid = 1]
     \/ NextDriver /\ UNCHANGED lb_ready
  /\ UNCHANGED <<ls_slotsinuse, ls_irqfuncs, bus, children, lb_panic>>

\* tryattach_xxx_to_yyy of a child: passed over if there is one already or if it
\* cannot be attached.
attach_child ==
  LET kids == Children(Driver.dev) IN
  /\ BootRuns /\ lb_boot.pc = "children"
  /\ IF lb_boot.kid > Len(kids) THEN lb_boot' = [lb_boot EXCEPT !.pc = "probe"]
     ELSE \/ kids[lb_boot.kid] \notin lb_kids /\ lb_boot' = [lb_boot EXCEPT !.pc = "config_child"]
          \/ lb_boot' = [lb_boot EXCEPT !.kid = @ + 1]
  /\ UNCHANGED <<ls_slotsinuse, ls_irqfuncs, bus, lb_ready, children, lb_panic>>

\* config_xxx of a child may fail, and the child may be tried again on the next
\* card.  config_con sets the_console, with the semaphores its callbacks use,
\* before its last step, which may fail too; a second console trips its KASSERT.
config_child ==
  LET kid == Children(Driver.dev)[lb_boot.kid] IN
  /\ BootRuns /\ lb_boot.pc = "config_child"
  /\ lb_boot' = [lb_boot EXCEPT !.pc = "children", !.kid = @ + 1]
  /\ IF kid = "con" /\ lb_con # NoSlot THEN lb_panic' = "the_console" /\ UNCHANGED children
     ELSE /\ UNCHANGED lb_panic
          /\ \/ /\ lb_kids' \in {lb_kids, lb_kids \cup {kid}}
                /\ lb_con' = IF kid = "con" THEN lb_boot.slot ELSE lb_con
             \/ UNCHANGED children
  /\ UNCHANGED <<ls_slotsinuse, ls_irqfuncs, bus, lb_ready>>

-----------------------------------------------------------------------------
\* A key is typed, a timer expires, or a card no driver has set up makes noise.
Raise ==
  /\ lb_raises < MaxRaises /\ lb_panic = "no"
  /\ \E s \in ((lb_ready \cap {u \in Slots : Cards[u].dev \in {"lser", "ltimer"}}) \cup (Noisy \ lb_ready)) \ lb_line :
       lb_line' = lb_line \cup {s}
  /\ lb_raises' = lb_raises + 1
  /\ UNCHANGED <<ls_slotsinuse, ls_irqfuncs, lb_irq, lb_duds, lb_boot, lb_ready, children, lb_panic>>

\* lamebus_interrupt: read which slots assert their lines.
lamebus_interrupt ==
  /\ ~lb_irq.active /\ lb_line # {} /\ lb_panic = "no"
  /\ lb_irq' = [active |-> TRUE, irqs |-> lb_line, slot |-> 0, duds |-> 0]
  /\ UNCHANGED <<ls_slotsinuse, ls_irqfuncs, lb_line, lb_duds, lb_boot, lb_ready, children, lb_raises,
                 lb_panic>>

\* The same when no line is asserted any more: a glitch, and a dud.
stray_interrupt ==
  /\ ~lb_irq.active /\ lb_line = {} /\ lb_panic = "no"
  /\ lb_raises < MaxRaises /\ lb_raises' = lb_raises + 1
  /\ lb_irq' = [active |-> TRUE, irqs |-> {}, slot |-> 0, duds |-> 1]
  /\ lb_duds' = lb_duds + 1
  /\ UNCHANGED <<ls_slotsinuse, ls_irqfuncs, lb_line, lb_boot, lb_ready, children, lb_panic>>

Scanned == \A s \in Slots : s < lb_irq.slot

\* A slot no driver uses, or one without a handler, is a dud.
Dud(s) == s \notin ls_slotsinuse \/ ls_irqfuncs[s] = "NULL"

\* The handler's data is not set up: the device is not configured yet, or it is a
\* port without its console.  attach_lser_to_lamebus leaves ls_start and ls_input
\* uninitialized, and attach_con_to_lser sets them before config_con creates the
\* semaphores they use.
Unset(s) == s \notin lb_ready \/ (Cards[s].dev = "lser" /\ lb_con # s)

\* One slot: skipped, counted as a dud, or handled with the lock released; the
\* handler shuts the condition off and the lines are read again.  A handler whose
\* data is not set up may do that or anything: the machine is taken to stop.
dispatch ==
  LET s == lb_irq.slot IN
  /\ lb_irq.active /\ ~Scanned /\ lb_panic = "no"
  /\ CASE s \notin lb_irq.irqs ->
            lb_irq' = [lb_irq EXCEPT !.slot = @ + 1] /\ UNCHANGED <<lb_line, lb_duds, lb_panic>>
       [] s \in lb_irq.irqs /\ Dud(s) ->
            /\ lb_irq' = [lb_irq EXCEPT !.slot = @ + 1, !.duds = @ + 1]
            /\ lb_duds' = lb_duds + 1
            /\ UNCHANGED <<lb_line, lb_panic>>
       [] OTHER ->
            /\ lb_line' = lb_line \ {s}
            /\ lb_irq' = [lb_irq EXCEPT !.slot = @ + 1, !.irqs = lb_line']
            /\ lb_panic' \in {"no"} \cup (IF Unset(s) THEN {"unset"} ELSE {})
            /\ UNCHANGED lb_duds
  /\ UNCHANGED <<ls_slotsinuse, ls_irqfuncs, lb_boot, lb_ready, children, lb_raises>>

\* Fault: the count of duds is cleared on every pass.
dud_check_reset ==
  /\ lb_irq.active /\ Scanned /\ lb_panic = "no"
  /\ lb_duds' = 0
  /\ lb_panic' = IF lb_duds > DudLimit THEN "duds" ELSE "no"
  /\ lb_irq' = Idle
  /\ UNCHANGED <<ls_slotsinuse, ls_irqfuncs, lb_line, lb_boot, lb_ready, children, lb_raises>>

\* All slots are done: too many duds in a row lead to a panic.
dud_check ==
  /\ lb_irq.active /\ Scanned /\ lb_panic = "no"
  /\ lb_duds' = IF lb_irq.duds = 0 THEN 0 ELSE lb_duds
  /\ lb_panic' = IF lb_duds' > DudLimit THEN "duds" ELSE "no"
  /\ lb_irq' = Idle
  /\ UNCHANGED <<ls_slotsinuse, ls_irqfuncs, lb_line, lb_boot, lb_ready, children, lb_raises>>

Boot == lamebus_probe \/ attach_nomem \/ lamebus_mark \/ lamebus_attach_interrupt \/ config
        \/ attach_child \/ config_child
Irq == lamebus_interrupt \/ dispatch \/ dud_check

LbNext == Boot \/ Irq \/ Raise \/ stray_interrupt

-----------------------------------------------------------------------------
\* No slot is marked or given a handler twice, and a handler sits only in a slot
\* in use whose card its driver supports (lamebus_mark, lamebus_attach_interrupt,
\* lamebus_probe).  The machine stops while it boots only for too many duds, for
\* a second console after one whose registration failed (config_con), or in a
\* handler whose data is not set up.
SlotsConsistent ==
  /\ lb_panic \notin {"mark", "attach"}
  /\ lb_panic = "duds" => lb_duds > DudLimit
  /\ lb_panic = "the_console" => "con" \notin lb_kids
  /\ lb_panic = "unset" => ~Dud(lb_irq.slot - 1)
  /\ \A s \in Slots : ls_irqfuncs[s] # "NULL" =>
       /\ s \in ls_slotsinuse
       /\ \E i \in DOMAIN autoconf_lamebus :
            LET d == autoconf_lamebus[i] IN d.irq /\ d.dev = Cards[s].dev /\ Cards[s].ver >= d.low
  /\ lb_boot.pc = "mark" => lb_boot.slot \notin ls_slotsinuse

\* A card that keeps its line asserted never hangs the machine: configuration
\* ends, or the duds it causes lead to the panic ("it's better to panic and
\* reset than to hang").
BootEnds == <>(lb_boot.pc = "done" \/ lb_panic # "no")

-----------------------------------------------------------------------------
(***************************************************************************)
(* Time: the real-time clock of kern/dev/lamebus/ltimer.c and the sleeping *)
(* of kern/thread/clock.c.                                                 *)
(*                                                                         *)
(* now counts ticks of the hardware clock, Second ticks to a second.  The  *)
(* clock's second and fraction are separate registers that move between    *)
(* two reads; with interrupts off two reads are at most MaxDelay apart.    *)
(***************************************************************************)

CONSTANTS Sleepers,
          Second,      \* ticks of the clock in a second
          Early,       \* below this fraction the later reading is used (5000000 ns)
          MaxDelay,    \* ticks between two reads of gettime
          LastTick,    \* bound: how long the clock runs
          MaxSecs      \* bound: argument of clocksleep

ASSUME ClockAssumption ==
  /\ Second \in Nat \ {0}
  /\ MaxDelay \in Nat /\ Early \in MaxDelay + 1 .. Second - 1
  /\ 2 * MaxDelay + Early <= Second

VARIABLES now, gt, lbolt, clk_th

clkVars == <<now, gt, lbolt, clk_th>>

GtIdle == [pc |-> "idle", start |-> 0, secs1 |-> 0, nsec |-> 0, secs2 |-> 0, last |-> 0, time |-> 0]

ClkInit ==
  /\ now \in 0 .. Second - 1
  /\ gt = GtIdle
  /\ lbolt = {}
  /\ clk_th = [t \in Sleepers |-> [pc |-> "idle", secs |-> 0, asked |-> 0, since |-> 0, until |-> 0]]

LT_REG_SEC == now \div Second
LT_REG_NSEC == now % Second

\* timerclock: everything on lbolt is woken.
timerclock ==
  /\ clk_th' = [t \in Sleepers |-> IF t \in lbolt THEN [clk_th[t] EXCEPT !.pc = "woken"] ELSE clk_th[t]]
  /\ lbolt' = {}

\* The first timer goes off once every second, and its interrupt calls timerclock.
ltimer_irq == IF (now + 1) % Second = 0 THEN timerclock ELSE UNCHANGED <<lbolt, clk_th>>

\* The clock moves on; at the end of a second the timer interrupt comes.  It does
\* not move past the time two reads of gettime may take.
Tick ==
  /\ now < LastTick
  /\ gt.pc \in {"secs1", "nsec"} => now - gt.last < MaxDelay
  /\ now' = now + 1
  /\ ltimer_irq
  /\ UNCHANGED gt

-----------------------------------------------------------------------------
\* ltimer_gettime reads the seconds on either side of the fraction.
gettime_secs1 ==
  /\ gt.pc = "idle"
  /\ gt' = [gt EXCEPT !.pc = "secs1", !.start = now, !.secs1 = LT_REG_SEC, !.last = now]
  /\ UNCHANGED <<now, lbolt, clk_th>>

gettime_nsec ==
  /\ gt.pc = "secs1"
  /\ gt' = [gt EXCEPT !.pc = "nsec", !.nsec = LT_REG_NSEC, !.last = now]
  /\ UNCHANGED <<now, lbolt, clk_th>>

\* Fault: the earlier reading of the seconds is always used.
ltimer_gettime_first ==
  /\ gt.pc = "nsec"
  /\ gt' = [gt EXCEPT !.pc = "done", !.secs2 = LT_REG_SEC, !.time = gt.secs1 * Second + gt.nsec]
  /\ UNCHANGED <<now, lbolt, clk_th>>

ltimer_gettime ==
  /\ gt.pc = "nsec"
  /\ gt' = [gt EXCEPT !.pc = "done", !.secs2 = LT_REG_SEC,
                      !.time = (IF gt.nsec < Early THEN LT_REG_SEC ELSE gt.secs1) * Second + gt.nsec]
  /\ UNCHANGED <<now, lbolt, clk_th>>

gettime_return ==
  /\ gt.pc = "done"
  /\ gt' = GtIdle
  /\ UNCHANGED <<now, lbolt, clk_th>>

-----------------------------------------------------------------------------
\* clocksleep holds lbolt_lock but while it sleeps; wchan_sleep is entered with
\* the lock held, so no tick comes between the test and the sleep.
clocksleep(t) ==
  /\ clk_th[t].pc = "idle"
  /\ \E n \in 0 .. MaxSecs :
       IF n = 0 THEN clk_th' = [clk_th EXCEPT ![t].pc = "done", ![t].since = now, ![t].until = now] /\ UNCHANGED lbolt
       ELSE /\ clk_th' = [clk_th EXCEPT ![t] = [pc |-> "asleep", secs |-> n, asked |-> n, since |-> now, until |-> now]]
            /\ lbolt' = lbolt \cup {t}
  /\ UNCHANGED <<now, gt>>

\* Fault: the last second is not slept.
sleep_again_short(t) ==
  /\ clk_th[t].pc = "woken"
  /\ IF clk_th[t].secs <= 2 THEN clk_th' = [clk_th EXCEPT ![t].pc = "done", ![t].until = now] /\ UNCHANGED lbolt
     ELSE /\ clk_th' = [clk_th EXCEPT ![t].pc = "asleep", ![t].secs = @ - 1]
          /\ lbolt' = lbolt \cup {t}
  /\ UNCHANGED <<now, gt>>

\* The loop of clocksleep
sleep_again(t) ==
  /\ clk_th[t].pc = "woken"
  /\ IF clk_th[t].secs = 1 THEN clk_th' = [clk_th EXCEPT ![t].pc = "done", ![t].until = now] /\ UNCHANGED lbolt
     ELSE /\ clk_th' = [clk_th EXCEPT ![t].pc = "asleep", ![t].secs = @ - 1]
          /\ lbolt' = lbolt \cup {t}
  /\ UNCHANGED <<now, gt>>

ClkNext ==
  \/ Tick \/ gettime_secs1 \/ gettime_nsec \/ ltimer_gettime \/ gettime_return
  \/ \E t \in Sleepers : clocksleep(t) \/ sleep_again(t)

-----------------------------------------------------------------------------
\* gettime returns a time at which the clock really stood during the call, even
\* when a second begins between its three reads (ltimer_gettime).
TimeIsCurrent == gt.pc = "done" => gt.time \in gt.start .. now

\* clocksleep(n) lasts more than n - 1 seconds: no sleeper is woken by a tick it
\* did not wait for.
SleepsLongEnough ==
  \A t \in Sleepers : clk_th[t].pc = "done" =>
    clk_th[t].asked = 0 \/ clk_th[t].until - clk_th[t].since > (clk_th[t].asked - 1) * Second
=============================================================================

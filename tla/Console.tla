------------------------------ MODULE Console ------------------------------
(***************************************************************************)
(* The console: kern/dev/generic/console.c on the serial port of           *)
(* kern/dev/lamebus/lser.c, with its users kern/lib/kprintf.c and          *)
(* kern/lib/kgets.c.                                                       *)
(*                                                                         *)
(* A character is sent either with interrupts (P(cs_wsem), lser_write,     *)
(* and the V from the write-done interrupt) or, by code that may not       *)
(* sleep, polled under the driver's spinlock, in the middle of whatever    *)
(* the others are sending.  wirq holds the bits of the WIRQ register, tx   *)
(* the character the transmitter works on, sent what has left it.  Input   *)
(* goes through the ring cs_gotchars.  Interrupts reach only the boot CPU, *)
(* so lser_irq never overlaps itself; irq_todo is what it has still to     *)
(* call after it has released ls_lock.  Semaphores and locks are atomic.   *)
(***************************************************************************)
EXTENDS Naturals, FiniteSets, Sequences, SequencesExt

CONSTANTS ConThreads,
          NoThread,
          Jobs,           \* what the threads do: set of [ConThreads -> job]
          Text,           \* what a thread writes
          Keys,           \* [job -> what may be typed for a thread with that job]
          CONSOLE_INPUT_BUFFER_SIZE,
          DELAYBUFSIZE,
          KgetsMax,       \* maxlen of kgets
          MaxTyped        \* bound: [job -> characters typed in a behaviour]

ASSUME ConsoleAssumption ==
  /\ NoThread \notin ConThreads
  /\ CONSOLE_INPUT_BUFFER_SIZE \in Nat \ {0, 1}
  /\ KgetsMax \in Nat \ {0}

VARIABLES the_console, delayed_outbuf,
          cs_wsem, cs_rsem, cs_gotchars, cs_head, cs_tail,
          ls_lock, ls_wbusy, wirq, tx, sent, rx, irq_todo,
          con_locks, con_jobs, con_th,
          accepted, taken, lost_early, typed, con_panic

conVars == <<the_console, delayed_outbuf, cs_wsem, cs_rsem, cs_gotchars, cs_head, cs_tail, ls_lock,
             ls_wbusy, wirq, tx, sent, rx, irq_todo, con_locks, con_jobs, con_th, accepted, taken,
             lost_early, typed, con_panic>>
ring == <<cs_rsem, cs_gotchars, cs_head, cs_tail, accepted, taken, lost_early>>
line == <<rx, irq_todo, typed>>

NoChar == <<>>
NL == "NL"
CR == "CR"
BS == "BS"

\* The lock of each kind of output and input; kgets has none of its own.
LockOf == [user |-> "con_userlock_write", read |-> "con_userlock_read", kprintf |-> "kprintf_lock",
           boot |-> "kprintf_lock", polled |-> "kprintf_spinlock", kgets |-> "none", idle |-> "none"]
ConLocks == {LockOf[j] : j \in DOMAIN LockOf} \ {"none"}

\* config_lser and config_con.  A boot thread prints before there is a console;
\* what an interrupt meets then is in Lamebus.
ConInit ==
  /\ con_jobs \in Jobs
  /\ the_console = ~(\E t \in ConThreads : con_jobs[t] = "boot")
  /\ delayed_outbuf = <<>>
  /\ cs_wsem = 1 /\ cs_rsem = 0
  /\ cs_gotchars = [i \in 0 .. CONSOLE_INPUT_BUFFER_SIZE - 1 |-> NoChar]
  /\ cs_head = 0 /\ cs_tail = 0
  /\ ls_lock = NoThread /\ ls_wbusy = FALSE
  /\ wirq = {"ENABLE"} /\ tx = NoChar /\ sent = <<>>
  /\ rx = NoChar /\ irq_todo = [start |-> FALSE, input |-> NoChar]
  /\ con_locks = [k \in ConLocks |-> NoThread]
  /\ con_th = [t \in ConThreads |-> [pc |-> "start", todo |-> <<>>, buf |-> <<>>, pending |-> FALSE,
                                     ch |-> NoChar, last |-> FALSE]]
  /\ accepted = <<>> /\ taken = <<>> /\ lost_early = FALSE /\ typed = 0 /\ con_panic = FALSE

-----------------------------------------------------------------------------
(* The serial port                                                         *)
WriteChar(ch) == tx' = ch /\ con_panic' = (con_panic \/ tx # NoChar)

\* The transmitter finishes a character and raises the ready condition.
Transmit ==
  /\ tx # NoChar
  /\ sent' = Append(sent, tx)
  /\ tx' = NoChar
  /\ wirq' = wirq \cup {"ACTIVE"}
  /\ UNCHANGED <<the_console, delayed_outbuf, cs_wsem, ring, ls_lock, ls_wbusy, line, con_locks, con_jobs,
                 con_th, con_panic>>

\* A key is pressed for a thread that reads or will; the port shows it and waits
\* for it to be fetched.
Type ==
  /\ rx = NoChar
  /\ \E t \in ConThreads :
       /\ con_jobs[t] \in DOMAIN Keys /\ typed < MaxTyped[con_jobs[t]]
       /\ \E k \in Keys[con_jobs[t]] : rx' = <<k>>
  /\ typed' = typed + 1
  /\ UNCHANGED <<the_console, delayed_outbuf, cs_wsem, ring, ls_lock, ls_wbusy, wirq, tx, sent, irq_todo,
                 con_locks, con_jobs, con_th, con_panic>>

Interrupting == ("ENABLE" \in wirq /\ wirq \cap {"ACTIVE", "FORCE"} # {}) \/ rx # NoChar

lser_irq ==
  /\ Interrupting
  /\ irq_todo = [start |-> FALSE, input |-> NoChar]
  /\ ls_lock = NoThread
  /\ irq_todo' = [start |-> "ACTIVE" \in wirq, input |-> rx]
  /\ wirq' = IF "ACTIVE" \in wirq THEN {"ENABLE"} ELSE wirq
  /\ ls_wbusy' = (ls_wbusy /\ "ACTIVE" \notin wirq)
  /\ rx' = NoChar
  /\ UNCHANGED <<the_console, delayed_outbuf, cs_wsem, ring, ls_lock, tx, sent, typed, con_locks, con_jobs,
                 con_th, con_panic>>

con_start ==
  /\ irq_todo.start
  /\ cs_wsem' = cs_wsem + 1
  /\ irq_todo' = [irq_todo EXCEPT !.start = FALSE]
  /\ UNCHANGED <<the_console, delayed_outbuf, ring, ls_lock, ls_wbusy, wirq, tx, sent, rx, typed, con_locks,
                 con_jobs, con_th, con_panic>>

\* Characters in the ring: those accepted but for those whose getch has moved
\* the tail (history, for what con_input may drop)
InRing == Len(accepted) + Cardinality({t \in ConThreads : con_th[t].pc = "got"}) - Len(taken)

\* Fault: the ring is never taken to be full.
con_input_full ==
  /\ ~irq_todo.start /\ irq_todo.input # NoChar
  /\ LET next == (cs_head + 1) % CONSOLE_INPUT_BUFFER_SIZE IN
     /\ cs_gotchars' = [cs_gotchars EXCEPT ![cs_head] = irq_todo.input]
     /\ cs_head' = next
     /\ cs_rsem' = cs_rsem + 1
     /\ accepted' = accepted \o irq_todo.input
  /\ irq_todo' = [irq_todo EXCEPT !.input = NoChar]
  /\ UNCHANGED <<the_console, delayed_outbuf, cs_wsem, cs_tail, taken, lost_early, ls_lock, ls_wbusy, wirq, tx, sent, rx,
                 typed, con_locks, con_jobs, con_th, con_panic>>

con_input ==
  /\ ~irq_todo.start /\ irq_todo.input # NoChar
  /\ LET next == (cs_head + 1) % CONSOLE_INPUT_BUFFER_SIZE IN
     IF next = cs_tail
     THEN /\ lost_early' = (lost_early \/ InRing < CONSOLE_INPUT_BUFFER_SIZE - 1)
          /\ UNCHANGED <<cs_gotchars, cs_head, cs_rsem, accepted>>
     ELSE /\ cs_gotchars' = [cs_gotchars EXCEPT ![cs_head] = irq_todo.input]
          /\ cs_head' = next
          /\ cs_rsem' = cs_rsem + 1
          /\ accepted' = accepted \o irq_todo.input
          /\ UNCHANGED lost_early
  /\ irq_todo' = [irq_todo EXCEPT !.input = NoChar]
  /\ UNCHANGED <<the_console, delayed_outbuf, cs_wsem, cs_tail, taken, ls_lock, ls_wbusy, wirq, tx, sent, rx,
                 typed, con_locks, con_jobs, con_th, con_panic>>

lser_write(t) ==
  /\ con_th[t].pc = "send"
  /\ ls_lock = NoThread
  /\ ls_wbusy' = TRUE
  /\ tx' = <<t, Head(con_th[t].todo)>>
  /\ con_panic' = (con_panic \/ ls_wbusy \/ tx # NoChar)
  /\ con_th' = [con_th EXCEPT ![t].pc = "putch", ![t].todo = Tail(@)]
  /\ UNCHANGED <<the_console, delayed_outbuf, cs_wsem, ring, ls_lock, wirq, sent, line, con_locks, con_jobs>>

\* lser_writepolled: take the spinlock, and if a character is on its way wait
\* for it and keep its interrupt asserted, else turn interrupts off.
lser_writepolled(t) ==
  /\ con_th[t].pc = "polled"
  /\ ls_lock = NoThread
  /\ ls_lock' = t
  /\ con_th' = [con_th EXCEPT ![t].pc = IF ls_wbusy THEN "poll_before" ELSE "poll_after", ![t].pending = ls_wbusy]
  /\ IF ls_wbusy THEN UNCHANGED <<wirq, tx, con_panic>>
     ELSE wirq' = {} /\ WriteChar(<<t, Head(con_th[t].todo)>>)
  /\ UNCHANGED <<the_console, delayed_outbuf, cs_wsem, ring, ls_wbusy, sent, line, con_locks, con_jobs>>

\* Fault: the interrupt of the character before is not kept asserted.
poll_before_lost(t) ==
  /\ con_th[t].pc = "poll_before"
  /\ "ACTIVE" \in wirq
  /\ wirq' = {}
  /\ WriteChar(<<t, Head(con_th[t].todo)>>)
  /\ con_th' = [con_th EXCEPT ![t].pc = "poll_after"]
  /\ UNCHANGED <<the_console, delayed_outbuf, cs_wsem, ring, ls_lock, ls_wbusy, sent, line, con_locks, con_jobs>>

poll_before(t) ==
  /\ con_th[t].pc = "poll_before"
  /\ "ACTIVE" \in wirq
  /\ wirq' = {"FORCE", "ENABLE"}
  /\ WriteChar(<<t, Head(con_th[t].todo)>>)
  /\ con_th' = [con_th EXCEPT ![t].pc = "poll_after"]
  /\ UNCHANGED <<the_console, delayed_outbuf, cs_wsem, ring, ls_lock, ls_wbusy, sent, line, con_locks, con_jobs>>

\* Fault: the ready condition of the polled character is left for lser_irq.
poll_after_uncleared(t) ==
  /\ con_th[t].pc = "poll_after"
  /\ "ACTIVE" \in wirq
  /\ wirq' = wirq \cup {"ENABLE"}
  /\ ls_lock' = NoThread
  /\ con_th' = [con_th EXCEPT ![t].pc = "putch", ![t].todo = Tail(@), ![t].pending = FALSE]
  /\ UNCHANGED <<the_console, delayed_outbuf, cs_wsem, ring, ls_wbusy, tx, sent, line, con_locks, con_jobs,
                 con_panic>>

poll_after(t) ==
  /\ con_th[t].pc = "poll_after"
  /\ "ACTIVE" \in wirq
  /\ wirq' = IF con_th[t].pending THEN wirq ELSE {"ENABLE"}
  /\ ls_lock' = NoThread
  /\ con_th' = [con_th EXCEPT ![t].pc = "putch", ![t].todo = Tail(@), ![t].pending = FALSE]
  /\ UNCHANGED <<the_console, delayed_outbuf, cs_wsem, ring, ls_wbusy, tx, sent, line, con_locks, con_jobs,
                 con_panic>>

-----------------------------------------------------------------------------
(* Output: con_io, kprintf and what they do with their locks               *)
Acquire(t, k) == con_locks[k] = NoThread /\ con_locks' = [con_locks EXCEPT ![k] = t]

\* The characters a write of the text makes: con_io puts a return before a newline.
ConIo(text) == FlattenSeq([i \in DOMAIN text |-> IF text[i] = NL THEN <<CR, NL>> ELSE <<text[i]>>])

\* Threads are started when the boot thread has configured the devices; what
\* prints polled may come in as soon as there is a console.
Running(job) ==
  \/ job = "boot"
  \/ /\ the_console
     /\ job = "polled" \/ \A t \in ConThreads : con_jobs[t] = "boot" => con_th[t].pc = "done"

con_io(t) ==
  LET job == con_jobs[t] IN
  /\ con_th[t].pc = "start"
  /\ job \notin {"kgets", "idle"}
  /\ Running(job)
  /\ Acquire(t, LockOf[job])
  /\ con_th' = IF job = "read" THEN [con_th EXCEPT ![t].pc = "getch"]
               ELSE [con_th EXCEPT ![t].pc = "putch",
                                   ![t].todo = IF job = "user" THEN ConIo(Text[t]) ELSE Text[t]]
  /\ UNCHANGED <<the_console, delayed_outbuf, cs_wsem, ring, ls_lock, ls_wbusy, wirq, tx, sent, line, con_jobs,
                 con_panic>>

putch_delayed(t) ==
  /\ con_th[t].pc = "putch" /\ con_th[t].todo # <<>>
  /\ ~the_console
  /\ con_panic' = (con_panic \/ Len(delayed_outbuf) >= DELAYBUFSIZE)
  /\ delayed_outbuf' = Append(delayed_outbuf, Head(con_th[t].todo))
  /\ con_th' = [con_th EXCEPT ![t].todo = Tail(@)]
  /\ UNCHANGED <<the_console, cs_wsem, ring, ls_lock, ls_wbusy, wirq, tx, sent, line, con_locks, con_jobs>>

putch_polled(t) ==
  /\ con_th[t].pc = "putch" /\ con_th[t].todo # <<>>
  /\ the_console /\ con_jobs[t] = "polled"
  /\ con_th' = [con_th EXCEPT ![t].pc = "polled"]
  /\ UNCHANGED <<the_console, delayed_outbuf, cs_wsem, ring, ls_lock, ls_wbusy, wirq, tx, sent, line, con_locks,
                 con_jobs, con_panic>>

\* Fault: the writer does not wait for the character before.
putch_intr_unpaced(t) ==
  /\ con_th[t].pc = "putch" /\ con_th[t].todo # <<>>
  /\ the_console /\ con_jobs[t] # "polled"
  /\ con_th' = [con_th EXCEPT ![t].pc = "send"]
  /\ UNCHANGED <<the_console, delayed_outbuf, cs_wsem, ring, ls_lock, ls_wbusy, wirq, tx, sent, line, con_locks,
                 con_jobs, con_panic>>

putch_intr(t) ==
  /\ con_th[t].pc = "putch" /\ con_th[t].todo # <<>>
  /\ the_console /\ con_jobs[t] # "polled"
  /\ cs_wsem > 0
  /\ cs_wsem' = cs_wsem - 1
  /\ con_th' = [con_th EXCEPT ![t].pc = "send"]
  /\ UNCHANGED <<the_console, delayed_outbuf, ring, ls_lock, ls_wbusy, wirq, tx, sent, line, con_locks,
                 con_jobs, con_panic>>

ReleaseAll(t) == con_locks' = [k \in ConLocks |-> IF con_locks[k] = t THEN NoThread ELSE con_locks[k]]

\* All is sent.  kgets goes on to the next key or returns.  The boot thread goes
\* on to config_con.
put_done(t) ==
  /\ con_th[t].pc = "putch" /\ con_th[t].todo = <<>>
  /\ ReleaseAll(t)
  /\ con_th' = [con_th EXCEPT ![t].pc = CASE con_jobs[t] = "kgets" /\ ~con_th[t].last -> "getch"
                                          [] con_jobs[t] = "boot" /\ ~the_console -> "config"
                                          [] OTHER -> "done"]
  /\ UNCHANGED <<the_console, delayed_outbuf, cs_wsem, ring, ls_lock, ls_wbusy, wirq, tx, sent, line, con_jobs,
                 con_panic>>

\* The uiomove of a write fails: the rest is not written.
con_io_fault(t) ==
  /\ con_th[t].pc = "putch" /\ con_th[t].todo # <<>> /\ con_jobs[t] = "user"
  /\ Len(ConIo(Text[t])) > Len(con_th[t].todo)
  /\ ReleaseAll(t)
  /\ con_th' = [con_th EXCEPT ![t].pc = "done", ![t].todo = <<>>]
  /\ UNCHANGED <<the_console, delayed_outbuf, cs_wsem, ring, ls_lock, ls_wbusy, wirq, tx, sent, line, con_jobs,
                 con_panic>>

\* config_con and flush_delay_buf
config_con(t) ==
  /\ con_th[t].pc = "config"
  /\ the_console' = TRUE
  /\ con_th' = [con_th EXCEPT ![t].pc = "putch", ![t].todo = delayed_outbuf]
  /\ delayed_outbuf' = <<>>
  /\ UNCHANGED <<cs_wsem, ring, ls_lock, ls_wbusy, wirq, tx, sent, line, con_locks, con_jobs, con_panic>>

-----------------------------------------------------------------------------
(* Input: getch_intr, the reading half of con_io, and kgets                *)
getch(t) ==
  /\ con_th[t].pc = "getch"
  /\ cs_rsem > 0
  /\ cs_rsem' = cs_rsem - 1
  /\ con_th' = [con_th EXCEPT ![t].pc = "got", ![t].ch = cs_gotchars[cs_tail]]
  /\ taken' = taken \o cs_gotchars[cs_tail]
  /\ UNCHANGED <<the_console, delayed_outbuf, cs_wsem, cs_gotchars, cs_head, cs_tail, accepted, lost_early, ls_lock,
                 ls_wbusy, wirq, tx, sent, line, con_locks, con_jobs, con_panic>>

TailMoves == cs_tail' = (cs_tail + 1) % CONSOLE_INPUT_BUFFER_SIZE

\* con_io hands a character to the program and stops after a line; the uiomove
\* may fail, and the character is lost.
con_io_read(t) ==
  LET ch == IF con_th[t].ch = <<CR>> THEN <<NL>> ELSE con_th[t].ch IN
  /\ con_th[t].pc = "got" /\ con_jobs[t] = "read"
  /\ TailMoves
  /\ \/ /\ con_th' = [con_th EXCEPT ![t].pc = IF ch = <<NL>> \/ Len(con_th[t].buf) + 1 = KgetsMax THEN "done" ELSE "getch",
                                    ![t].buf = @ \o ch]
        /\ IF con_th'[t].pc = "done" THEN ReleaseAll(t) ELSE UNCHANGED con_locks
     \/ /\ con_th' = [con_th EXCEPT ![t].pc = "done"]
        /\ ReleaseAll(t)
  /\ UNCHANGED <<the_console, delayed_outbuf, cs_wsem, cs_rsem, cs_gotchars, cs_head, accepted, taken, lost_early,
                 ls_lock, ls_wbusy, wirq, tx, sent, line, con_jobs, con_panic>>

Rubout(n) == FlattenSeq([i \in 1 .. n |-> <<BS, " ", BS>>])

\* The length of buf once the last word is erased: trailing blanks, then what is not blank
WithoutWord(buf) ==
  LET n == CHOOSE n \in 0 .. Len(buf) :
             (n = 0 \/ buf[n] # " ") /\ \A i \in n + 1 .. Len(buf) : buf[i] = " "
  IN CHOOSE m \in 0 .. n : (m = 0 \/ buf[m] = " ") /\ \A i \in m + 1 .. n : buf[i] # " "

Printable == {"a", "b", " "}

\* One key in kgets: the new buffer, the echo, whether the line is complete.
\* beep makes a sound and prints nothing.
Edit(buf, ch) ==
  LET shrunk(n) == [buf |-> SubSeq(buf, 1, n), echo |-> Rubout(Len(buf) - n), last |-> FALSE] IN
  CASE ch \in {NL, CR} -> [buf |-> buf, echo |-> <<NL>>, last |-> TRUE]
    [] ch \in Printable /\ Len(buf) < KgetsMax - 1 -> [buf |-> Append(buf, ch), echo |-> <<ch>>, last |-> FALSE]
    [] ch = BS /\ buf # <<>> -> shrunk(Len(buf) - 1)
    [] ch = "^C" -> [buf |-> <<>>, echo |-> <<"^", "C", NL>>, last |-> TRUE]
    [] ch = "^R" -> [buf |-> buf, echo |-> <<"^", "R", NL>> \o buf, last |-> FALSE]
    [] ch = "^U" -> shrunk(0)
    [] ch = "^W" -> shrunk(WithoutWord(buf))
    [] OTHER -> [buf |-> buf, echo |-> <<>>, last |-> FALSE]

kgets_start(t) ==
  /\ con_th[t].pc = "start" /\ con_jobs[t] = "kgets" /\ Running("kgets")
  /\ con_th' = [con_th EXCEPT ![t].pc = "getch"]
  /\ UNCHANGED <<the_console, delayed_outbuf, cs_wsem, ring, ls_lock, ls_wbusy, wirq, tx, sent, line, con_locks,
                 con_jobs, con_panic>>

\* Fault: an erased word is taken off the screen but one character stays in the buffer.
kgets_short(t) ==
  LET e == Edit(con_th[t].buf, con_th[t].ch[1]) IN
  /\ con_th[t].pc = "got" /\ con_jobs[t] = "kgets"
  /\ TailMoves
  /\ con_th' = [con_th EXCEPT ![t].pc = "putch", ![t].todo = e.echo, ![t].last = e.last,
                              ![t].buf = IF con_th[t].ch[1] = "^W" /\ Len(@) > 1 THEN SubSeq(@, 1, Len(e.buf) + 1)
                                         ELSE e.buf]
  /\ IF con_th[t].ch = <<"^R">> THEN Acquire(t, "kprintf_lock") ELSE UNCHANGED con_locks
  /\ UNCHANGED <<the_console, delayed_outbuf, cs_wsem, cs_rsem, cs_gotchars, cs_head, accepted, taken, lost_early,
                 ls_lock, ls_wbusy, wirq, tx, sent, line, con_jobs, con_panic>>

\* The echo goes through putch; that of ^R through kprintf.
kgets(t) ==
  LET e == Edit(con_th[t].buf, con_th[t].ch[1]) IN
  /\ con_th[t].pc = "got" /\ con_jobs[t] = "kgets"
  /\ TailMoves
  /\ con_th' = [con_th EXCEPT ![t].pc = "putch", ![t].todo = e.echo, ![t].last = e.last, ![t].buf = e.buf]
  /\ IF con_th[t].ch = <<"^R">> THEN Acquire(t, "kprintf_lock") ELSE UNCHANGED con_locks
  /\ UNCHANGED <<the_console, delayed_outbuf, cs_wsem, cs_rsem, cs_gotchars, cs_head, accepted, taken, lost_early,
                 ls_lock, ls_wbusy, wirq, tx, sent, line, con_jobs, con_panic>>

-----------------------------------------------------------------------------
ConStep(t) ==
  \/ con_io(t) \/ putch_delayed(t) \/ putch_polled(t) \/ putch_intr(t) \/ put_done(t) \/ config_con(t)
  \/ lser_write(t) \/ lser_writepolled(t) \/ poll_before(t) \/ poll_after(t)
  \/ getch(t) \/ con_io_read(t) \/ kgets_start(t) \/ kgets(t)

ConHardware == Transmit \/ lser_irq \/ con_start \/ con_input

ConNext ==
  \/ \E t \in ConThreads : ConStep(t) \/ con_io_fault(t)
  \/ ConHardware \/ Type

-----------------------------------------------------------------------------
\* What thread t has put on the screen
Shown(t) == LET of(c) == c[1] = t
                mine == SelectSeq(sent, of)
            IN [i \in DOMAIN mine |-> mine[i][2]]

Writers == {t \in ConThreads : con_jobs[t] \in {"user", "kprintf", "polled", "boot"}}
Whole(t) == IF con_jobs[t] = "user" THEN ConIo(Text[t]) ELSE Text[t]

\* Positions of thread t's characters in the output
At(t) == {i \in DOMAIN sent : sent[i][1] = t}

\* Each writer's characters leave the port in order, none twice and none
\* dropped, however interrupt-driven and polled output interleave, and two
\* writers under the same lock never mix their text (putch, lser_write,
\* lser_writepolled, con_userlock_write, kprintf_lock); the port is never
\* written while busy and lser_write never panics.
OutputExact ==
  /\ ~con_panic
  /\ \A t \in Writers :
       /\ IsPrefix(Shown(t), Whole(t))
       /\ con_th[t].pc = "done" /\ tx = NoChar /\ t \notin {u \in ConThreads : con_jobs[u] = "user"}
            => Shown(t) = Whole(t)
  /\ \A t, u \in Writers :
       t # u /\ LockOf[con_jobs[t]] = LockOf[con_jobs[u]]
         => \A i, j \in At(t), k \in At(u) : ~(i < k /\ k < j)

\* At most one character is under way by interrupts: cs_wsem, the busy flag and
\* the V that lser_irq still owes add up to one.
WritePermitExact ==
  cs_wsem + (IF ls_wbusy THEN 1 ELSE 0) + (IF irq_todo.start THEN 1 ELSE 0)
    + Cardinality({t \in ConThreads : con_th[t].pc = "send"}) = 1

\* Readers get the characters that were accepted, in order and once each; the
\* semaphore counts those in the ring, though the tail moves after the P and
\* interrupts come in between; a key is dropped only when all but one place of
\* the ring are taken, wherever in the ring they are (con_input, getch_intr).
InputFifo ==
  /\ IsPrefix(taken, accepted)
  /\ cs_rsem + Len(taken) = Len(accepted)
  /\ ~lost_early

\* What a terminal shows on its last line after the characters s
OnScreen(s) ==
  LET put(scr, ch) ==
        CASE ch = BS -> [scr EXCEPT !.cur = @ - 1]
          [] ch = NL -> [text |-> <<>>, cur |-> 0]
          [] OTHER -> [text |-> SubSeq(scr.text, 1, scr.cur) \o <<ch>>, cur |-> scr.cur + 1]
      end == FoldLeft(put, [text |-> <<>>, cur |-> 0], s)
  IN SubSeq(end.text, 1, end.cur)

\* The line a caller of kgets has built is the line that stands on the screen
\* once the echo is out, and it leaves room for the terminating NUL: keys past
\* the limit are neither kept nor echoed (kgets).
EchoIsLine ==
  \A t \in ConThreads :
    con_jobs[t] = "kgets" =>
      /\ Len(con_th[t].buf) < KgetsMax
      /\ con_th[t].pc = "getch" /\ tx = NoChar => OnScreen(Shown(t)) = con_th[t].buf

\* Output is not stuck: every writer gets all its characters out.
WritersFinish == \A t \in ConThreads : t \in Writers ~> con_th[t].pc = "done"
=============================================================================

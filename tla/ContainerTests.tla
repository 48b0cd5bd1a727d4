--------------------------- MODULE ContainerTests ---------------------------
(***************************************************************************)
(* The tests of the kernel menu for lists, arrays, bitmaps and the heap.   *)
(***************************************************************************)
EXTENDS Integers, Sequences, SequencesExt, FiniteSets, FiniteSetsExt, Functions

(***************************************************************************)
(* The kernel's own tests of its containers (kern/test: threadlisttest.c,  *)
(* arraytest.c, bitmaptest.c), run against the models of the containers.   *)
(* A test is a script: calls, and the assertions between them.  ct_todo is *)
(* the rest of the script, ct_ok that every KASSERT so far held.           *)
(***************************************************************************)

CONSTANTS NUMNAMES, TESTSIZE,
          NoContents     \* what memory holds before a value is stored

ASSUME ContainerTestsAssumption ==
    NUMNAMES \in Nat /\ NUMNAMES >= 5 /\ TESTSIZE \in Nat /\ TESTSIZE >= 6

VARIABLES ct_todo, ct_ok, ct_data,
          ct_next, ct_prev, ct_count, ct_got, ct_tlpanic, ct_list,
          ct_ar, ct_held, ct_v, ct_used, ct_ret, ct_panic

K == INSTANCE KernLib WITH ArrayValues <- 0 .. TESTSIZE - 1, ArrayMax <- TESTSIZE,
        BITS_PER_WORD <- 8, Bits <- TESTSIZE, Unset <- NoContents, ar <- ct_ar, ar_model <- ct_held,
        bm_v <- ct_v, bm_used <- ct_used, kl_ret <- ct_ret, kl_panic <- ct_panic,
        Lists <- {"tl"}, ListThreads <- 0 .. NUMNAMES - 1,
        tl_next <- ct_next, tl_prev <- ct_prev, tl_count <- ct_count,
        tl_got <- ct_got, tl_panic <- ct_tlpanic, tl_model <- ct_list

ct_lists == <<ct_next, ct_prev, ct_count, ct_got, ct_tlpanic, ct_list>>
ct_lib == <<ct_ar, ct_held, ct_v, ct_used, ct_ret, ct_panic>>
ct_vars == <<ct_todo, ct_ok, ct_data, ct_lists, ct_lib>>

Do(op, x, y) == [op |-> op, x |-> x, y |-> y]
Count(n) == Do("count", n, 0)
Order(rev) == Do("order", rev, 0)
(* for (i = 0; i < n; i++) ... *)
For(n, step(_)) == [k \in 1 .. n |-> step(k - 1)]

----------------------------------------------------------------------------
threadlisttest_b ==
    LET part(add, rem) == <<Do(add, 0, 0), Order(0), Order(1), Count(1), Do(rem, 0, 0), Count(0)>>
    IN  part("addhead", "remhead") \o part("addtail", "remtail")

threadlisttest_c ==
    LET part(add, rem, rev) ==
            <<Do(add, 0, 0), Do(add, 1, 0), Count(2), Order(rev),
              Do(rem, 1, 0), Do(rem, 0, 0), Count(0)>>
    IN  part("addhead", "remhead", 1) \o part("addtail", "remtail", 0)

threadlisttest_d ==
    LET put == <<Do("addhead", 0, 0), Do("addtail", 1, 0), Count(2), Order(0)>>
    IN  put \o <<Do("remhead", 0, 0), Do("remtail", 1, 0), Count(0)>>
            \o put \o <<Do("remtail", 1, 0), Do("remtail", 0, 0), Count(0)>>

threadlisttest_e ==
    <<Do("addhead", 1, 0), Do("addtail", 3, 0), Count(2), Order(0),
      Do("insertafter", 3, 4), Count(3), Order(0),
      Do("insertbefore", 0, 1), Count(4), Order(0),
      Do("insertafter", 1, 2), Count(5), Order(0)>>
    \o [k \in 1 .. 4 |-> Do("prev", 5 - k, 4 - k)]
    \o For(5, LAMBDA i : Do("remhead", i, 0)) \o <<Count(0)>>

threadlisttest_f ==
    For(NUMNAMES, LAMBDA i : Do("addtail", i, 0)) \o <<Count(NUMNAMES), Do("forall", 0, 0)>>
    \o For(NUMNAMES, LAMBDA i : Do("remhead", i, 0)) \o <<Count(0)>>

(* threadlisttest_a is the empty list's Count(0). *)
threadlisttest ==
    <<Count(0)>> \o threadlisttest_b \o threadlisttest_c \o threadlisttest_d
                 \o threadlisttest_e \o threadlisttest_f

NoValue == -1

testa ==
    LET T == TESTSIZE
    IN  <<Do("num", 0, 0)>>
        \o FlattenSeq(For(T, LAMBDA i : <<Do("add", i, 0), Do("num", i + 1, 0)>>))
        \o For(T, LAMBDA i : Do("get", i, i))
        \o For(T, LAMBDA i : Do("set", i, T - i - 1))
        \o For(T, LAMBDA i : Do("get", i, T - i - 1))
        \o <<Do("setsize", T \div 2, 0)>>
        \o For(T \div 2, LAMBDA i : Do("get", i, T - i - 1))
        \o <<Do("remove", 1, 0)>>
        \o For(T \div 2 - 2, LAMBDA i : Do("get", i + 1, T - i - 3))
        \o <<Do("get", 0, T - 1), Do("setsize", 2, 0), Do("get", 0, T - 1), Do("get", 1, T - 3),
             Do("set", 1, NoValue), Do("setsize", 2, 0), Do("get", 0, T - 1), Do("get", 1, NoValue),
             Do("setsize", T * 10, 0), Do("get", 0, T - 1), Do("get", 1, NoValue)>>

arraytest == testa \o <<Do("setsize", 0, 0)>> \o testa \o <<Do("setsize", 0, 0), Do("destroy", 0, 0)>>

(* data is random; alloc is called until it fails. *)
bitmaptest(data) ==
    LET isset(P(_)) == For(TESTSIZE, LAMBDA i : Do("isset", i, IF P(i) THEN 1 ELSE 0))
    IN  isset(LAMBDA i : FALSE)
        \o SelectSeq(For(TESTSIZE, LAMBDA i : Do("mark", i, 0)), LAMBDA c : data[c.x])
        \o isset(LAMBDA i : data[i])
        \o For(TESTSIZE, LAMBDA i : Do(IF data[i] THEN "unmark" ELSE "mark", i, 0))
        \o isset(LAMBDA i : ~data[i])
        \o <<Do("alloc", 0, 0)>> \o isset(LAMBDA i : TRUE)

----------------------------------------------------------------------------
CtInit ==
    /\ K!TlInit /\ K!KlInit /\ ct_ok = TRUE
    /\ ct_data \in [0 .. TESTSIZE - 1 -> BOOLEAN]
    /\ ct_todo \in {threadlisttest, arraytest, bitmaptest(ct_data)}

(* Before any test: nothing to do. *)
CtRest ==
    /\ K!TlInit /\ K!KlInit /\ ct_ok = TRUE
    /\ ct_data = [i \in 0 .. TESTSIZE - 1 |-> FALSE] /\ ct_todo = <<>>

(* The threads of the list, walking from the head. *)
Walk ==
    LET w[k \in 0 .. NUMNAMES] ==
            IF k = 0 THEN K!tl_head("tl")
            ELSE IF w[k - 1] = K!tl_tail("tl") THEN K!tl_tail("tl") ELSE ct_next[w[k - 1]]
    IN  [k \in 1 .. ct_count["tl"] |-> w[k][2]]

check_order(rev) ==
    \A i \in 1 .. Len(Walk) - 1 : IF rev = 1 THEN Walk[i] > Walk[i + 1] ELSE Walk[i] < Walk[i + 1]

(* An assertion of the script. *)
Holds(c) ==
    CASE c.op = "count" -> ct_count["tl"] = c.x /\ (K!threadlist_isempty("tl") <=> c.x = 0)
      [] c.op = "order" -> check_order(c.x)
      [] c.op = "prev" -> ct_prev[K!Node(c.x)] = K!Node(c.y)
      [] c.op = "forall" -> Walk = For(NUMNAMES, LAMBDA i : i)
      [] c.op = "num" -> ct_ar.num = c.x
      [] c.op = "get" -> K!array_get(c.x) = c.y
      [] c.op = "isset" -> (IF K!bitmap_isset(c.x) THEN 1 ELSE 0) = c.y

CheckAssertion(c) ==
    /\ c.op \in {"count", "order", "prev", "forall", "num", "get", "isset"}
    /\ ct_ok' = (ct_ok /\ Holds(c)) /\ ct_todo' = Tail(ct_todo)
    /\ UNCHANGED <<ct_data, ct_lists, ct_lib>>

(* A call of the thread list; a removal is told which thread it must get. *)
CallList(c) ==
    /\ \/ c.op = "addhead" /\ K!threadlist_addhead("tl", c.x)
       \/ c.op = "addtail" /\ K!threadlist_addtail("tl", c.x)
       \/ c.op = "insertafter" /\ K!threadlist_insertafter("tl", c.x, c.y)
       \/ c.op = "insertbefore" /\ K!threadlist_insertbefore("tl", c.x, c.y)
       \/ c.op = "remhead" /\ K!threadlist_remhead("tl")
       \/ c.op = "remtail" /\ K!threadlist_remtail("tl")
    /\ ct_ok' = (ct_ok /\ (c.op \in {"remhead", "remtail"} => ct_got' = <<c.x>>))
    /\ ct_todo' = Tail(ct_todo) /\ UNCHANGED <<ct_data, ct_lib>>

CallArray(c) ==
    /\ \/ c.op = "add" /\ K!array_add(c.x, TRUE)
       \/ c.op = "set" /\ K!array_set(c.x, c.y)
       \/ c.op = "setsize" /\ K!array_setsize(c.x, TRUE)
       \/ c.op = "remove" /\ K!array_remove(c.x)
       \/ c.op = "destroy" /\ K!array_cleanup
    /\ ct_ok' = (ct_ok /\ ct_ret' = "ok")
    /\ ct_todo' = Tail(ct_todo) /\ UNCHANGED <<ct_data, ct_lists>>

CallBitmap(c) ==
    /\ \/ c.op = "mark" /\ K!bitmap_mark(c.x) /\ UNCHANGED ct_ok /\ UNCHANGED ct_data
       \/ c.op = "unmark" /\ K!bitmap_unmark(c.x) /\ UNCHANGED ct_ok /\ UNCHANGED ct_data
       \/ /\ c.op = "alloc" /\ K!bitmap_alloc
          /\ LET got == ct_used' \ ct_used
             IN  /\ ct_ok' = (ct_ok /\ (ct_ret' = "ok" => \A x \in got : ct_data[x])
                                    /\ (ct_ret' # "ok" => \A x \in DOMAIN ct_data : ~ct_data[x]))
                 /\ ct_data' = [x \in DOMAIN ct_data |-> ct_data[x] /\ x \notin got]
    /\ ct_todo' = IF c.op = "alloc" /\ ct_ret' = "ok" THEN ct_todo ELSE Tail(ct_todo)
    /\ UNCHANGED ct_lists

CtNext ==
    /\ ct_todo # <<>>
    /\ LET c == Head(ct_todo) IN CheckAssertion(c) \/ CallList(c) \/ CallArray(c) \/ CallBitmap(c)

(* Every assertion of the tests holds, and none inside the containers      *)
(* fails.                                                                  *)
ContainerTestsPass == ct_ok /\ ~ct_tlpanic /\ ~ct_panic

-----------------------------------------------------------------------------
(***************************************************************************)
(* The kernel's own tests of kmalloc (kern/test/malloctest.c): km1 and km2 *)
(* (malloctest, mallocstress), km3 (malloctest3) and km4 (malloctest4),    *)
(* over an allocator that fails when its mt.pages units are in use.  A     *)
(* block is a number; mt.live gives the size of every block not yet freed. *)
(***************************************************************************)

CONSTANTS KmThreads, NTRIES, KmPages, NUM_KM3, KM3_BLOCK

ASSUME MallocTestsAssumption ==
    /\ KmThreads \in Nat \ {0} /\ NTRIES \in Nat /\ KmPages \subseteq Nat
    /\ NUM_KM3 \in Nat /\ KM3_BLOCK \in Nat \ {0}

NoBlock == 0
KmTests == {"km1", "km2", "km3", "km4"}
Km == 0 .. KmThreads - 1

VARIABLE mt

----------------------------------------------------------------------------
(* kmalloc: a fresh block, or NoBlock (NULL) when the sizes of the live    *)
(* ones leave no room; kfree: the block must be live.                      *)
kmalloc_block(size) ==
    IF MapThenSumSet(LAMBDA b : mt.live[b], DOMAIN mt.live) + size > mt.pages THEN NoBlock
    ELSE CHOOSE b \in 1 .. Cardinality(DOMAIN mt.live) + 1 : b \notin DOMAIN mt.live
km_alloc(size) ==
    LET b == kmalloc_block(size)
    IN  [mt EXCEPT !.live = [x \in (DOMAIN @ \cup {b}) \ {NoBlock} |-> IF x = b THEN size ELSE @[x]]]
km_free(s, b) ==
    IF b = NoBlock THEN s
    ELSE IF b \in DOMAIN s.live THEN [s EXCEPT !.live = Restrict(@, DOMAIN @ \ {b})]
    ELSE [s EXCEPT !.bad = TRUE]
km_freeall(s, ptrs) ==
    LET f[k \in 0 .. Len(ptrs)] == IF k = 0 THEN s ELSE km_free(f[k - 1], ptrs[k])
    IN  f[Len(ptrs)]

(* km3's sizes are in tens of bytes. *)
sizes3 == <<3, 4, 11, 9, 1>>
sizes4 == <<1, 3, 5, 2, 4>>

MtInit ==
    \E pages \in KmPages :
    mt = [test |-> "none", pages |-> pages, done |-> 0, live |-> <<>>, bad |-> FALSE, failed |-> FALSE,
          pc |-> [t \in Km |-> "none"], i |-> [t \in Km |-> 0],
          ptrs |-> [t \in Km |-> <<>>], p |-> [t \in Km |-> 0], total |-> 0]

----------------------------------------------------------------------------
(* Fault: the younger of the two old blocks is freed. *)
mallocthread_young(t) ==
    LET b == kmalloc_block(1) old == mt.ptrs[t] s == km_alloc(1)
    IN  /\ mt.pc[t] = "loop" /\ mt.i[t] < NTRIES
        /\ mt' = IF b = NoBlock THEN [mt EXCEPT !.failed = TRUE, !.pc[t] = "V"]
                 ELSE [km_free(s, old[1]) EXCEPT !.ptrs[t] = <<b, old[1]>>, !.i[t] = @ + 1]

(* km1 and km2: oldptr and oldptr2 are ptrs[1] and ptrs[2]. *)
mallocthread_try(t) ==
    LET b == kmalloc_block(1) old == mt.ptrs[t] s == km_alloc(1)
    IN  /\ mt.pc[t] = "loop" /\ mt.i[t] < NTRIES
        /\ mt' = IF b = NoBlock THEN [mt EXCEPT !.failed = TRUE, !.pc[t] = "V"]
                 ELSE [km_free(s, old[2]) EXCEPT !.ptrs[t] = <<b, old[1]>>, !.i[t] = @ + 1]

mallocthread(t) ==
    \/ mallocthread_try(t)
    \/ /\ mt.pc[t] = "loop" /\ mt.i[t] = NTRIES
       /\ mt' = [km_freeall(mt, mt.ptrs[t]) EXCEPT !.pc[t] = "V"]
    \/ mt.pc[t] = "V" /\ mt' = [mt EXCEPT !.pc[t] = "exit", !.done = @ + 1]

(* km4: a ring of pointers; q runs half the ring ahead of p. *)
malloctest4_q(t) == (mt.p[t] + Len(sizes4) \div 2) % Len(sizes4)

malloctest4thread(t) ==
    \/ LET q == malloctest4_q(t) + 1
       IN  /\ mt.pc[t] = "loop" /\ mt.i[t] < NTRIES
           /\ mt' = [km_free(mt, mt.ptrs[t][q]) EXCEPT !.ptrs[t][q] = NoBlock, !.pc[t] = "alloc"]
    \/ LET p == mt.p[t] + 1 b == kmalloc_block(sizes4[p]) s == km_alloc(sizes4[p])
       IN  /\ mt.pc[t] = "alloc"
           /\ mt' = IF b = NoBlock THEN [mt EXCEPT !.failed = TRUE, !.pc[t] = "panic"]
                    ELSE [s EXCEPT !.ptrs[t][p] = b, !.pc[t] = "loop",
                                   !.i[t] = @ + 1, !.p[t] = p % Len(sizes4)]
    \/ /\ mt.pc[t] = "loop" /\ mt.i[t] = NTRIES
       /\ mt' = [km_freeall(mt, mt.ptrs[t]) EXCEPT !.pc[t] = "V"]
    \/ mt.pc[t] = "V" /\ mt' = [mt EXCEPT !.pc[t] = "exit", !.done = @ + 1]

(* km3: the pointers are kept in blocks of KM3_BLOCK; ptrs is the two      *)
(* tiers, p counts the pointers stored or freed, and the sizes rotate.     *)
numptrblocks == (NUM_KM3 + KM3_BLOCK - 1) \div KM3_BLOCK
km3_size(i) == sizes3[(i % Len(sizes3)) + 1]
km3_slot(i) == <<(i \div KM3_BLOCK) + 1, (i % KM3_BLOCK) + 1>>

malloctest3 ==
    LET i == mt.p[0] slot == km3_slot(i) size == km3_size(i)
    IN  \/ /\ mt.pc[0] = "loop"
           /\ mt' = [mt EXCEPT !.ptrs[0] = [b \in 1 .. numptrblocks |-> [k \in 1 .. KM3_BLOCK |-> NoBlock]],
                               !.pc[0] = "fill"]
        \/ /\ mt.pc[0] = "fill" /\ i < NUM_KM3
           /\ LET b == kmalloc_block(size) s == km_alloc(size)
              IN  mt' = IF b = NoBlock THEN [mt EXCEPT !.failed = TRUE, !.pc[0] = "panic"]
                        ELSE [s EXCEPT !.ptrs[0][slot[1]][slot[2]] = b, !.p[0] = @ + 1,
                                       !.total = @ + size]
        \/ mt.pc[0] = "fill" /\ i = NUM_KM3 /\ mt' = [mt EXCEPT !.pc[0] = "drain", !.p[0] = 0]
        \/ /\ mt.pc[0] = "drain" /\ i < NUM_KM3
           /\ LET b == mt.ptrs[0][slot[1]][slot[2]]
              IN  mt' = [km_free(mt, b) EXCEPT
                           !.bad = @ \/ b = NoBlock \/ mt.total = 0 \/ mt.live[b] # size,
                           !.p[0] = @ + 1, !.total = @ - size]
        \/ /\ mt.pc[0] = "drain" /\ i = NUM_KM3
           /\ mt' = [mt EXCEPT !.bad = @ \/ mt.total # 0, !.ptrs[0] = <<>>, !.pc[0] = "exit", !.done = 1]

----------------------------------------------------------------------------
KmRunning(test) == IF test \in {"km1", "km3"} THEN {0} ELSE Km

km_start(test) ==
    /\ mt.test = "none"
    /\ mt' = [mt EXCEPT !.test = test,
                !.pc = [t \in Km |-> IF t \in KmRunning(test) THEN "loop" ELSE "none"],
                !.ptrs = [t \in Km |-> CASE test = "km4" -> [k \in 1 .. Len(sizes4) |-> NoBlock]
                                         [] test = "km3" -> <<>> [] OTHER -> <<NoBlock, NoBlock>>]]

(* mallocstress and malloctest4 wait for every thread. *)
km_finish ==
    /\ mt.test # "none" /\ mt.done = Cardinality(KmRunning(mt.test))
    /\ mt' = [mt EXCEPT !.test = "done", !.done = 0]

MtThread(t) ==
    \/ mt.test \in {"km1", "km2"} /\ mallocthread(t)
    \/ mt.test = "km3" /\ t = 0 /\ malloctest3
    \/ mt.test = "km4" /\ malloctest4thread(t)

MtNext == (\E test \in KmTests : km_start(test)) \/ (\E t \in Km : MtThread(t)) \/ km_finish

(* The tests free only blocks they hold and never forget one (every live   *)
(* block is in some thread's hands, once), km3's assertions hold, and a    *)
(* test no allocation failed leaves the heap empty.                        *)
MallocTestsSound ==
    LET held(t) == IF mt.test = "km3" THEN UNION {Range(b) : b \in Range(mt.ptrs[t])}
                   ELSE Range(mt.ptrs[t])
    IN  /\ ~mt.bad
        /\ mt.test = "done" /\ ~mt.failed => mt.live = <<>>
        /\ \A t \in Km : mt.pc[t] \in {"loop", "alloc", "fill"} => held(t) \ {NoBlock} \subseteq DOMAIN mt.live
        /\ mt.test \notin {"none", "done"} /\ ~mt.failed =>
              DOMAIN mt.live \subseteq UNION {held(t) : t \in Km}
=============================================================================

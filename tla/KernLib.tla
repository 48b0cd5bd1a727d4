------------------------------ MODULE KernLib -------------------------------
(***************************************************************************)
(* The containers of the kernel library: arrays, bitmaps, I/O cursors and  *)
(* byte swaps, and the thread lists.                                       *)
(***************************************************************************)
EXTENDS Integers, Sequences, SequencesExt, FiniteSets, FiniteSetsExt

(***************************************************************************)
(* Small data structures of the kernel library (kern/lib): the resizable   *)
(* array (array.c, array.h), the bitmap (bitmap.c), the cursor of an I/O   *)
(* request (uio.c) and the byte-order functions (bswap.c).                 *)
(***************************************************************************)

CONSTANTS ArrayValues, ArrayMax,      \* elements, and a bound on their number
          Unset,                      \* what memory holds before a value is stored
          BITS_PER_WORD, Bits         \* bits of a word, and of the bitmap

ASSUME BitmapAssumption == BITS_PER_WORD \in Nat \ {0} /\ Bits \in Nat \ {0}

(* ar: the struct array, v indexed from 0; ar_model what it should hold,   *)
(* Unset where setsize made room and nothing was stored.                   *)
(* bm_v: the words of the bitmap, each the set of the bits set in it;      *)
(* bm_used the indices handed out.  kl_ret is the result of the last call. *)
VARIABLES ar, ar_model, bm_v, bm_used, kl_ret, kl_panic
kl_vars == <<ar, ar_model, bm_v, bm_used, kl_ret, kl_panic>>

DIVROUNDUP(a, b) == (a + b - 1) \div b
Words == DIVROUNDUP(Bits, BITS_PER_WORD)
WORD_ALLBITS == 0 .. BITS_PER_WORD - 1

(* bitmap_create: the bits past the end of the last word are set for good. *)
bitmap_create ==
    [ix \in 0 .. Words - 1 |->
        IF ix = Words - 1 /\ Words > Bits \div BITS_PER_WORD
        THEN {j \in WORD_ALLBITS : j >= Bits - ix * BITS_PER_WORD} ELSE {}]

KlInit ==
    /\ ar = [num |-> 0, max |-> 0, v |-> <<>>] /\ ar_model = <<>>
    /\ bm_v = bitmap_create /\ bm_used = {}
    /\ kl_ret = "ok" /\ kl_panic = FALSE

BitmapSame == UNCHANGED <<bm_v, bm_used>>
ArraySame == UNCHANGED <<ar, ar_model>>

----------------------------------------------------------------------------
(* The capacity after asking for num: doubled from 4 until it suffices. *)
RECURSIVE Grown(_, _)
Grown(max, num) ==
    IF num <= max THEN max ELSE Grown(IF max = 0 THEN 4 ELSE max * 2, num)

(* The array with room for num; what it held is copied.  The new room      *)
(* holds whatever kmalloc found there.                                     *)
array_preallocate(a, num) ==
    IF num <= a.max THEN a
    ELSE [num |-> a.num, max |-> Grown(a.max, num),
          v |-> [i \in 1 .. Grown(a.max, num) |-> IF i <= a.num THEN a.v[i] ELSE Unset]]

(* enough says whether kmalloc, if called, succeeds. *)
Fails(num, enough) == num > ar.max /\ ~enough

array_setsize(num, enough) ==
    /\ BitmapSame /\ UNCHANGED kl_panic
    /\ IF Fails(num, enough) THEN kl_ret' = "ENOMEM" /\ ArraySame
       ELSE /\ ar' = [array_preallocate(ar, num) EXCEPT !.num = num]
            /\ ar_model' = [i \in 1 .. num |->
                              IF i <= Len(ar_model) THEN ar_model[i] ELSE Unset]
            /\ kl_ret' = "ok"

(* Fault: the slot is chosen after the size was raised. *)
FaultArrayAdd(val, enough) ==
    LET a == array_preallocate(ar, ar.num + 1)
    IN  /\ BitmapSame /\ UNCHANGED kl_panic
        /\ IF Fails(ar.num + 1, enough) THEN kl_ret' = "ENOMEM" /\ ArraySame
           ELSE /\ ar' = [a EXCEPT !.num = ar.num + 1,
                            !.v = [@ EXCEPT ![IF ar.num + 2 > a.max THEN 1 ELSE ar.num + 2] = val]]
                /\ ar_model' = Append(ar_model, val)
                /\ kl_ret' = "ok"

array_add(val, enough) ==
    /\ BitmapSame /\ UNCHANGED kl_panic
    /\ IF Fails(ar.num + 1, enough) THEN kl_ret' = "ENOMEM" /\ ArraySame
       ELSE /\ ar' = [array_preallocate(ar, ar.num + 1) EXCEPT
                        !.num = ar.num + 1, !.v[ar.num + 1] = val]
            /\ ar_model' = Append(ar_model, val)
            /\ kl_ret' = "ok"

array_set(index, val) ==
    /\ kl_panic' = (kl_panic \/ index >= ar.num)
    /\ ar' = [ar EXCEPT !.v[index + 1] = val]
    /\ ar_model' = [ar_model EXCEPT ![index + 1] = val]
    /\ kl_ret' = "ok" /\ BitmapSame

array_get(index) == ar.v[index + 1]

(* The entries above index slide down by a memmove. *)
array_remove(index) ==
    /\ kl_panic' = (kl_panic \/ index >= ar.num \/ ar.num > ar.max)
    /\ ar' = [ar EXCEPT !.num = @ - 1,
                        !.v = [i \in DOMAIN ar.v |->
                                 IF i \in index + 1 .. ar.num - 1
                                 THEN ar.v[i + 1] ELSE ar.v[i]]]
    /\ ar_model' = RemoveAt(ar_model, index + 1)
    /\ kl_ret' = "ok" /\ BitmapSame

(* array_cleanup and array_init; an array thrown away must be empty. *)
array_cleanup ==
    /\ ar.num = 0 /\ ar.max > 0
    /\ ar' = [num |-> 0, max |-> 0, v |-> <<>>]
    /\ kl_ret' = "ok"
    /\ UNCHANGED <<ar_model, kl_panic>> /\ BitmapSame

----------------------------------------------------------------------------
(* bitmap_translate: the word and the bit of an index. *)
bitmap_translate(index) ==
    [ix |-> index \div BITS_PER_WORD, offset |-> index % BITS_PER_WORD]

bitmap_isset(index) ==
    LET p == bitmap_translate(index) IN p.offset \in bm_v[p.ix]

SetBit(index) ==
    LET p == bitmap_translate(index)
    IN  bm_v' = [bm_v EXCEPT ![p.ix] = @ \cup {p.offset}]

(* The first clear bit, word by word. *)
bitmap_alloc ==
    LET open == {ix \in DOMAIN bm_v : bm_v[ix] # WORD_ALLBITS}
        ix == Min(open)
        index == ix * BITS_PER_WORD + Min(WORD_ALLBITS \ bm_v[ix])
    IN  /\ ArraySame
        /\ IF open = {} THEN /\ kl_ret' = "ENOSPC"
                             /\ BitmapSame /\ UNCHANGED kl_panic
           ELSE /\ SetBit(index)
                /\ bm_used' = bm_used \cup {index}
                /\ kl_panic' = (kl_panic \/ index >= Bits)
                /\ kl_ret' = "ok"

bitmap_mark(index) ==
    /\ kl_panic' = (kl_panic \/ index >= Bits \/ bitmap_isset(index))
    /\ SetBit(index)
    /\ bm_used' = bm_used \cup {index}
    /\ kl_ret' = "ok" /\ ArraySame

bitmap_unmark(index) ==
    LET p == bitmap_translate(index)
    IN  /\ kl_panic' = (kl_panic \/ index >= Bits \/ ~bitmap_isset(index))
        /\ bm_v' = [bm_v EXCEPT ![p.ix] = @ \ {p.offset}]
        /\ bm_used' = bm_used \ {index}
        /\ kl_ret' = "ok" /\ ArraySame

ArNext ==
    \/ \E v \in ArrayValues, enough \in BOOLEAN :
          ar.num < ArrayMax /\ array_add(v, enough)
    \/ \E n \in 0 .. ArrayMax, enough \in BOOLEAN : array_setsize(n, enough)
    \/ \E i \in 0 .. ar.num - 1 :
          array_remove(i) \/ \E v \in ArrayValues : array_set(i, v)
    \/ array_cleanup

BmNext ==
    \/ bitmap_alloc
    \/ \E i \in 0 .. Bits - 1 : IF i \in bm_used THEN bitmap_unmark(i) ELSE bitmap_mark(i)

KlSpec == KlInit /\ [][ArNext \/ BmNext]_kl_vars

(* The array holds what was stored, through every doubling and sliding,    *)
(* and a failed kmalloc leaves it alone; the bitmap has set exactly the    *)
(* bits handed out, hands out only bits it has, says it is full only when  *)
(* it is; no assertion fails.                                              *)
ContainersExact ==
    /\ ~kl_panic
    /\ ar.num = Len(ar_model) /\ ar.num <= ar.max /\ Len(ar.v) = ar.max
    /\ \A i \in 1 .. ar.num : ar_model[i] # Unset => array_get(i - 1) = ar_model[i]
    /\ \A i \in 0 .. Bits - 1 : bitmap_isset(i) <=> i \in bm_used
    /\ bm_used \subseteq 0 .. Bits - 1
    /\ kl_ret = "ENOSPC" => bm_used = 0 .. Bits - 1

----------------------------------------------------------------------------
(* One call of uiomove for n bytes: move from iovec to iovec until n bytes *)
(* or the residue are done, or copyin or copyout fails at byte bad.        *)
(* u.iov are the lengths left, u.done the bytes moved in all.              *)
RECURSIVE uiomove(_, _, _)
uiomove(u, n, bad) ==
    LET size == IF u.iov[1] > n THEN n ELSE u.iov[1]
        hit == u.user /\ bad \in u.done .. u.done + size - 1
    IN  IF n = 0 \/ u.resid = 0 THEN [u EXCEPT !.res = "ok"]
        ELSE IF size = 0
        THEN IF Len(u.iov) = 1 THEN [u EXCEPT !.res = "panic"]
             ELSE uiomove([u EXCEPT !.iov = Tail(@)], n, bad)
        ELSE IF hit THEN [u EXCEPT !.res = "EFAULT"]
        ELSE uiomove([u EXCEPT !.iov[1] = @ - size, !.resid = @ - size,
                               !.offset = @ + size, !.done = @ + size], n - size, bad)

(* uiomovezeros: the same from a block of ZeroBlock zeros, again and again. *)
ZeroBlock == 16
RECURSIVE uiomovezeros(_, _, _)
uiomovezeros(u, n, bad) ==
    LET amt == IF ZeroBlock > n THEN n ELSE ZeroBlock
        moved == uiomove(u, amt, bad)
    IN  IF n = 0 THEN [u EXCEPT !.res = "ok"]
        ELSE IF moved.res # "ok" THEN moved
        ELSE uiomovezeros(moved, n - amt, bad)

uio_kinit(len, pos) ==
    [iov |-> <<len>>, resid |-> len, offset |-> pos, user |-> FALSE, done |-> 0, res |-> "ok"]

(* However a request is cut into buffers and calls, the offset has moved   *)
(* by what the residue has shrunk, which is what was moved; the buffers    *)
(* hold the rest; nothing panics; a call falls short only at the end of    *)
(* the request or at the bad byte.                                         *)
UioExact(lens, user, bad, n1, n2, zeros) ==
    LET u0 == [iov |-> lens, resid |-> FoldLeft(+, 0, lens), offset |-> 7,
               user |-> user, done |-> 0, res |-> "ok"]
        u1 == uiomove(u0, n1, bad)
        u2 == IF zeros THEN uiomovezeros(u1, n2, bad) ELSE uiomove(u1, n2, bad)
        sound(u) == /\ u.res # "panic"
                    /\ u.offset = 7 + u.done
                    /\ u.resid + u.done = u0.resid
                    /\ FoldLeft(+, 0, u.iov) = u.resid
                    /\ user /\ bad < u0.resid => u.done <= bad
    IN  /\ sound(u1) /\ sound(u2)
        /\ u1.res = "ok" => u1.done = Min({n1, u0.resid})
        /\ u1.res = "ok" /\ u2.res = "ok" => u2.done = Min({n1 + n2, u0.resid})
        /\ u2.res = "EFAULT" => user /\ u1.done + n2 > bad

----------------------------------------------------------------------------
(* A value of k bytes: byte i, counted from the least significant, as the  *)
(* set of its bits.  Mask keeps one byte, Shl and Shr shift by whole bytes.*)
Mask(val, i) == [j \in DOMAIN val |-> IF j = i THEN val[j] ELSE {}]
Shl(val, s) == [j \in DOMAIN val |-> IF j >= s THEN val[j - s] ELSE {}]
Shr(val, s) == [j \in DOMAIN val |-> IF j + s \in DOMAIN val THEN val[j + s] ELSE {}]
OrBytes(S, k) == [j \in 0 .. k - 1 |-> UNION {v[j] : v \in S}]

bswap16(val) == OrBytes({Shl(Mask(val, 0), 1), Shr(Mask(val, 1), 1)}, 2)

bswap32(val) == OrBytes({Shl(Mask(val, 0), 3), Shl(Mask(val, 1), 1),
                    Shr(Mask(val, 2), 1), Shr(Mask(val, 3), 3)}, 4)

bswap64(val) == OrBytes({Shl(Mask(val, 0), 7), Shl(Mask(val, 1), 5),
                    Shl(Mask(val, 2), 3), Shl(Mask(val, 3), 1),
                    Shl(Mask(val, 4), 1), Shl(Mask(val, 5), 3),
                    Shr(Mask(val, 6), 5), Shr(Mask(val, 7), 7)}, 8)

(* On the big-endian machine, the order of the network is the host's. *)
ntoh(val) == val
hton(val) == val

(* Two adjoining 4-byte values in memory order, as one of 8 bytes. *)
join32to64(x1, x2) == [j \in 0 .. 7 |-> IF j >= 4 THEN x1[j - 4] ELSE x2[j]]
split64to32(x) == <<[j \in 0 .. 3 |-> x[j + 4]], [j \in 0 .. 3 |-> x[j]]>>

Reversed(val) == [j \in DOMAIN val |-> val[Cardinality(DOMAIN val) - 1 - j]]

(* The swaps of 16 and 32 bits reverse the bytes.  That of 64 bits does so *)
(* exactly when bytes 4 and 5 are zero, although bswap.c says that         *)
(* "bswap16, 32, and 64 unconditionally swap byte order of integers of the *)
(* respective bitsize": it shifts these two to the left, where byte 4 is   *)
(* merged into byte 2's place and byte 5 is lost.  Splitting undoes        *)
(* joining, and network order is the machine's.                            *)
BytesExact(val) ==
    LET x == split64to32(val)
        low == [j \in 0 .. 1 |-> val[j]]
    IN  /\ bswap32(x[1]) = Reversed(x[1])
        /\ bswap16(low) = Reversed(low)
        /\ bswap64(val) = Reversed(val) <=> val[4] = {} /\ val[5] = {}
        /\ bswap64(val)[5] = val[2] \cup val[4]
        /\ join32to64(x[1], x[2]) = val

-----------------------------------------------------------------------------
(***************************************************************************)
(* The doubly linked lists threads wait and run on                         *)
(* (kern/thread/threadlist.c).  A list has a head and a tail node of its   *)
(* own; a thread's node is in at most one list.  tl_next and tl_prev are   *)
(* the pointers of all nodes; tl_model is history: what each list should   *)
(* hold, in order.  An assertion of the code that fails sets tl_panic.     *)
(***************************************************************************)

CONSTANTS Lists, ListThreads

VARIABLES tl_next, tl_prev, tl_count, tl_got, tl_panic, tl_model
tl_vars == <<tl_next, tl_prev, tl_count, tl_got, tl_panic, tl_model>>

tl_head(l) == <<"head", l>>
tl_tail(l) == <<"tail", l>>
Node(t) == <<"thread", t>>
Self(n) == n[2]
Nowhere == <<"NULL", "NULL">>
Ends == {tl_head(l) : l \in Lists} \cup {tl_tail(l) : l \in Lists}
Nodes == Ends \cup {Node(t) : t \in ListThreads}

(* threadlist_init for every list, threadlistnode_init for every thread. *)
TlInit ==
    /\ tl_next = [n \in Nodes |-> IF n[1] = "head" THEN tl_tail(n[2]) ELSE Nowhere]
    /\ tl_prev = [n \in Nodes |-> IF n[1] = "tail" THEN tl_head(n[2]) ELSE Nowhere]
    /\ tl_count = [l \in Lists |-> 0]
    /\ tl_got = <<>>
    /\ tl_panic = FALSE
    /\ tl_model = [l \in Lists |-> <<>>]

Linked(n) == tl_prev[n] # Nowhere \/ tl_next[n] # Nowhere

(* The pointers with n put between p and q. *)
Between(n, p, q) ==
    /\ tl_prev' = [tl_prev EXCEPT ![n] = p, ![q] = n]
    /\ tl_next' = [tl_next EXCEPT ![n] = q, ![p] = n]

threadlist_insertafternode(onlist, n) == Between(n, onlist, tl_next[onlist])

(* Fault: the node before is not told of the new one. *)
FaultInsertbefore(n, onlist) ==
    /\ tl_prev' = [tl_prev EXCEPT ![n] = tl_prev[onlist], ![onlist] = n]
    /\ tl_next' = [tl_next EXCEPT ![n] = onlist]

threadlist_insertbeforenode(n, onlist) == Between(n, tl_prev[onlist], onlist)

threadlist_removenode(n) ==
    /\ tl_next' = [tl_next EXCEPT ![tl_prev[n]] = tl_next[n], ![n] = Nowhere]
    /\ tl_prev' = [tl_prev EXCEPT ![tl_next[n]] = tl_prev[n], ![n] = Nowhere]

(* The end of every insertion into l of a node n at place i of the order. *)
Added(l, n, i) ==
    /\ tl_count' = [tl_count EXCEPT ![l] = @ + 1]
    /\ tl_model' = [tl_model EXCEPT ![l] = InsertAt(@, i, Self(n))]
    /\ tl_panic' = (tl_panic \/ Linked(n))
    /\ tl_got' = <<>>

threadlist_addhead(l, t) ==
    threadlist_insertafternode(tl_head(l), Node(t)) /\ Added(l, Node(t), 1)

threadlist_addtail(l, t) ==
    /\ threadlist_insertbeforenode(Node(t), tl_tail(l))
    /\ Added(l, Node(t), Len(tl_model[l]) + 1)

Place(l, t) == CHOOSE i \in DOMAIN tl_model[l] : tl_model[l][i] = t

threadlist_insertafter(l, on, t) ==
    /\ threadlist_insertafternode(Node(on), Node(t))
    /\ Added(l, Node(t), Place(l, on) + 1)

threadlist_insertbefore(l, t, on) ==
    /\ threadlist_insertbeforenode(Node(t), Node(on))
    /\ Added(l, Node(t), Place(l, on))

(* The end of every removal. *)
Removed(l, n, got) ==
    /\ threadlist_removenode(n)
    /\ tl_count' = [tl_count EXCEPT ![l] = @ - 1]
    /\ tl_panic' = (tl_panic \/ tl_prev[n] = Nowhere \/ tl_next[n] = Nowhere
                    \/ tl_count[l] = 0)
    /\ tl_model' = [tl_model EXCEPT ![l] = SelectSeq(@, LAMBDA x : x # Self(n))]
    /\ tl_got' = got

(* An empty list answers NULL: its first node is the tail. *)
Empty(l) ==
    /\ tl_got' = <<"NULL", l>>
    /\ UNCHANGED <<tl_next, tl_prev, tl_count, tl_panic, tl_model>>

threadlist_remhead(l) ==
    LET n == tl_next[tl_head(l)]
    IN  IF tl_next[n] = Nowhere THEN Empty(l) ELSE Removed(l, n, <<Self(n)>>)

threadlist_remtail(l) ==
    LET n == tl_prev[tl_tail(l)]
    IN  IF tl_prev[n] = Nowhere THEN Empty(l) ELSE Removed(l, n, <<Self(n)>>)

threadlist_remove(l, t) == Removed(l, Node(t), <<>>)

threadlist_isempty(l) == tl_count[l] = 0

(* Callers insert a thread that is on no list, next to one that is. *)
Free == {t \in ListThreads : \A l \in Lists : ~Contains(tl_model[l], t)}

TlNext == \E l \in Lists :
    \/ \E t \in Free : threadlist_addhead(l, t) \/ threadlist_addtail(l, t)
    \/ \E t \in Free, on \in ToSet(tl_model[l]) :
          threadlist_insertafter(l, on, t) \/ threadlist_insertbefore(l, t, on)
    \/ threadlist_remhead(l) \/ threadlist_remtail(l)
    \/ \E t \in ToSet(tl_model[l]) : threadlist_remove(l, t)

TlSpec == TlInit /\ [][TlNext]_tl_vars

----------------------------------------------------------------------------
(* Walking up or down a list meets exactly the threads put on it and not   *)
(* taken off, in order (what THREADLIST_FORALL and THREADLIST_FORALL_REV   *)
(* visit); the count is theirs; what was taken off is not linked anywhere; *)
(* the two ends answer what they should, and no assertion fails.           *)
ListsExact ==
    /\ ~tl_panic
    /\ \A l \in Lists :
          LET m == tl_model[l]
              at(i) == IF i = 0 THEN tl_head(l)
                       ELSE IF i > Len(m) THEN tl_tail(l) ELSE Node(m[i])
          IN  /\ \A i \in 0 .. Len(m) : tl_next[at(i)] = at(i + 1)
              /\ \A i \in 0 .. Len(m) : tl_prev[at(i + 1)] = at(i)
              /\ tl_prev[tl_head(l)] = Nowhere /\ tl_next[tl_tail(l)] = Nowhere
              /\ tl_count[l] = Len(m)
              /\ threadlist_isempty(l) <=> m = <<>>
    /\ \A t \in Free : ~Linked(Node(t))
    /\ Len(tl_got) = 2 => tl_model[tl_got[2]] = <<>>
=============================================================================

------------------------------- MODULE Stdlib -------------------------------
(***************************************************************************)
(* The C library's functions with a state of their own: malloc and random. *)
(***************************************************************************)
EXTENDS Integers, FiniteSets, Sequences, Functions, SequencesExt

(***************************************************************************)
(* malloc and free of the C library (userland/lib/libc/stdlib/malloc.c):   *)
(* first fit over headers laid end to end from __heapbase to __heaptop,    *)
(* splitting on allocation and merging both ways on free, the heap grown   *)
(* by whole pages with sbrk.                                               *)
(*                                                                         *)
(* um_heap has a header at every address whose magic bits are right; the   *)
(* fields mh_prevblock and mh_nextblock are kept as byte offsets (they are *)
(* stored shifted by MBLOCKSHIFT, all offsets being multiples).  um_live   *)
(* is what the program was given and has not freed: pointer -> size asked. *)
(* um_exit is the errx that ended the program, if any.                     *)
(***************************************************************************)

CONSTANTS MBLOCKSIZE, PAGE_SIZE,
          HeapLimit,      \* bytes sbrk will grant in all
          MallocSizes     \* sizes the program asks for

ASSUME MallocAssumption ==
    /\ MBLOCKSIZE \in Nat \ {0} /\ PAGE_SIZE \in Nat /\ PAGE_SIZE > MBLOCKSIZE
    /\ PAGE_SIZE % MBLOCKSIZE = 0 /\ HeapLimit \in Nat /\ MallocSizes \subseteq Nat

VARIABLES um_heap, um_base, um_top, um_live, um_exit
um_vars == <<um_heap, um_base, um_top, um_live, um_exit>>

NoPtr == 0
FirstBreak == PAGE_SIZE    \* where sbrk(0) finds the heap: page-aligned, not 0

UmInit ==
    /\ um_heap = [a \in {} |-> 0]
    /\ um_base = 0 /\ um_top = 0
    /\ um_live = [p \in {} |-> 0]
    /\ um_exit = "none"

M_NEXT(h, mh) == mh + h[mh].next
M_PREV(h, mh) == mh - h[mh].prev
M_DATA(mh) == mh + MBLOCKSIZE
M_SIZE(h, mh) == h[mh].next - MBLOCKSIZE
M_OK(h, mh) == mh \in DOMAIN h

Header(prev, next, inuse) == [prev |-> prev, next |-> next, inuse |-> inuse]
Put(h, mh, hdr) == [a \in DOMAIN h \cup {mh} |-> IF a = mh THEN hdr ELSE h[a]]
RoundUp(n, m) == m * ((n + m - 1) \div m)

(* The free block left over becomes a block of its own if it can hold a    *)
(* header and a byte of data.                                              *)
__malloc_split(h, mh, size, top) ==
    LET mhnext == M_NEXT(h, mh)
        mhnew == mh + size + MBLOCKSIZE
        h1 == Put([h EXCEPT ![mh].next = size + MBLOCKSIZE], mhnew,
                  Header(size + MBLOCKSIZE, M_SIZE(h, mh) - size, FALSE))
    IN  IF M_SIZE(h, mh) - size < 2 * MBLOCKSIZE THEN h
        ELSE IF mhnext # top THEN [h1 EXCEPT ![mhnext].prev = h1[mhnew].next]
        ELSE h1

RECURSIVE Search(_, _, _, _, _, _)

(* The first-fit search from header i on, mh the header before it: the     *)
(* first that is free and large enough, or else the last one; bad when a   *)
(* header is wrong.                                                        *)
Search(h, i, top, size, mh, right) ==
    IF i >= top THEN [found |-> FALSE, bad |-> i # top, mh |-> mh, right |-> right]
    ELSE IF ~M_OK(h, i) \/ h[i].prev # right
    THEN [found |-> FALSE, bad |-> TRUE, mh |-> i, right |-> right]
    ELSE IF ~h[i].inuse /\ M_SIZE(h, i) >= size
    THEN [found |-> TRUE, bad |-> FALSE, mh |-> i, right |-> h[i].next]
    ELSE Search(h, M_NEXT(h, i), top, size, i, h[i].next)

Give(h, mh, top, asked) ==
    /\ um_heap' = h
    /\ um_top' = top
    /\ um_live' = [p \in DOMAIN um_live \cup {M_DATA(mh)} |->
                       IF p = M_DATA(mh) THEN asked ELSE um_live[p]]
    /\ UNCHANGED um_exit

(* malloc(asked); granted says whether sbrk, if called, finds memory. *)
malloc(asked, granted) ==
    LET base == IF um_base = 0 THEN FirstBreak ELSE um_base
        top == IF um_base = 0 THEN FirstBreak ELSE um_top
        size == RoundUp(asked, MBLOCKSIZE)
        s == Search(um_heap, base, top, size, NoPtr, 0)
        topfree == s.mh # NoPtr /\ ~um_heap[s.mh].inuse
        morespace == RoundUp(IF topfree THEN size - M_SIZE(um_heap, s.mh)
                             ELSE MBLOCKSIZE + size, PAGE_SIZE)
        grown == IF topfree
                 THEN [um_heap EXCEPT ![s.mh].next = @ + morespace, ![s.mh].inuse = TRUE]
                 ELSE Put(um_heap, top, Header(s.right, morespace, TRUE))
    IN  /\ um_exit = "none"
        /\ um_base' = base
        /\ \/ /\ s.bad
              /\ um_exit' = "heap corrupt"
              /\ UNCHANGED <<um_heap, um_top, um_live>>
           \/ /\ s.found
              /\ Give([__malloc_split(um_heap, s.mh, size, top)
                         EXCEPT ![s.mh].inuse = TRUE], s.mh, top, asked)
           \/ /\ ~s.bad /\ ~s.found
              /\ granted /\ top + morespace <= FirstBreak + HeapLimit
              /\ LET mh == IF topfree THEN s.mh ELSE top
                 IN  Give(__malloc_split(grown, mh, size, top + morespace), mh,
                          top + morespace, asked)
           \/ /\ ~s.bad /\ ~s.found
              /\ ~granted \/ top + morespace > FirstBreak + HeapLimit
              /\ um_top' = top
              /\ UNCHANGED <<um_heap, um_live, um_exit>>

(* Fault: the block above the merged pair keeps its old back offset. *)
FaultTrymerge(h, mh, mhnext, top) ==
    IF h[mh].inuse \/ h[mhnext].inuse THEN h
    ELSE [a \in DOMAIN h \ {mhnext} |->
            IF a = mh THEN [h[mh] EXCEPT !.next = @ + h[mhnext].next] ELSE h[a]]

(* mh and the block above it become one; the upper header is wiped.  The   *)
(* errx for offsets that disagree is the caller's case Agree.              *)
__malloc_trymerge(h, mh, mhnext, top) ==
    LET above == M_NEXT(h, mhnext)
        next == h[mh].next + h[mhnext].next
    IN  IF h[mh].inuse \/ h[mhnext].inuse THEN h
        ELSE [a \in DOMAIN h \ {mhnext} |->
                CASE a = mh -> [h[mh] EXCEPT !.next = next]
                  [] a = above /\ above # top -> [h[a] EXCEPT !.prev = next]
                  [] OTHER -> h[a]]

Agree(h, mh, mhnext) == h[mh].next = h[mhnext].prev

(* free(x) of NULL, of a pointer in use or of one freed before. *)
free(x) ==
    LET mh == x - MBLOCKSIZE
        h1 == [um_heap EXCEPT ![mh].inuse = FALSE]
        h2 == IF M_NEXT(h1, mh) # um_top
              THEN __malloc_trymerge(h1, mh, M_NEXT(h1, mh), um_top) ELSE h1
        h3 == IF mh # um_base
              THEN __malloc_trymerge(h2, M_PREV(h2, mh), mh, um_top) ELSE h2
        agree == /\ M_NEXT(h1, mh) # um_top => Agree(h1, mh, M_NEXT(h1, mh))
                 /\ mh # um_base => Agree(h2, M_PREV(h2, mh), mh)
        Stop(why) == um_exit' = why /\ UNCHANGED <<um_heap, um_live>>
    IN  /\ um_exit = "none"
        /\ UNCHANGED <<um_base, um_top>>
        /\ \/ /\ x = NoPtr
              /\ UNCHANGED <<um_heap, um_live, um_exit>>
           \/ /\ x # NoPtr /\ (x < um_base \/ x >= um_top)
              /\ Stop("out of range")
           \/ /\ x # NoPtr /\ x >= um_base /\ x < um_top
              /\ ~M_OK(um_heap, mh) \/ ~um_heap[mh].inuse
              /\ Stop("not allocated")
           \/ /\ x # NoPtr /\ x >= um_base /\ x < um_top
              /\ M_OK(um_heap, mh) /\ um_heap[mh].inuse
              /\ IF agree
                 THEN /\ um_heap' = h3
                      /\ um_live' = Restrict(um_live, DOMAIN um_live \ {x})
                      /\ UNCHANGED um_exit
                 ELSE Stop("heap corrupt")

UmNext ==
    \/ \E n \in MallocSizes, granted \in BOOLEAN : malloc(n, granted)
    \/ \E x \in DOMAIN um_live \cup {NoPtr} : free(x)

UmSpec == UmInit /\ [][UmNext]_um_vars

----------------------------------------------------------------------------
(* The headers met walking up from the base are all the headers there are; *)
(* offsets up and down agree; no two free blocks touch; every pointer the  *)
(* program holds is the data of a block in use that is as large as it      *)
(* asked for (so that no two overlap), and there is no other block in use. *)
(* The library never ends the program that frees what it was given, nor    *)
(* will it refuse to free any of it.                                       *)
UserHeapSound ==
    LET up == {M_NEXT(um_heap, a) : a \in DOMAIN um_heap}
    IN  /\ um_exit = "none"
        /\ DOMAIN um_heap = ({um_base} \cup up) \ {um_top}
        /\ \A a \in DOMAIN um_heap :
              /\ um_heap[a].next >= MBLOCKSIZE
              /\ IF a = um_base THEN um_heap[a].prev = 0
                 ELSE /\ M_OK(um_heap, M_PREV(um_heap, a))
                      /\ M_NEXT(um_heap, M_PREV(um_heap, a)) = a
                      /\ um_heap[a].inuse \/ um_heap[M_PREV(um_heap, a)].inuse
        /\ {M_DATA(a) : a \in {b \in DOMAIN um_heap : um_heap[b].inuse}}
              = DOMAIN um_live
        /\ \A p \in DOMAIN um_live :
              /\ um_live[p] <= M_SIZE(um_heap, p - MBLOCKSIZE)
              /\ p \in um_base .. um_top - 1

-----------------------------------------------------------------------------
(***************************************************************************)
(* The C library's random number generators                                *)
(* (userland/lib/libc/stdlib/random.c): additive feedback over a state     *)
(* array, or a linear congruential generator when the array is small.      *)
(* Programs may switch between state arrays; a pointer left behind is      *)
(* stored in word 0 of its array, multiplexed with the type.               *)
(*                                                                         *)
(* A long is kept modulo 2^WIDTH: sums and products of the low WIDTH bits  *)
(* are those of the full words.  rg_array[b] is the array b, indexed from  *)
(* 0; state[] is the part from 1 on.  The loop that warms a generator up   *)
(* is rg_warm rounds of one draw per word.  rg_seed, rg_draws and rg_ideal *)
(* are history: what array b was last seeded with, how often it was drawn  *)
(* from, and the last terms of the sequence it should produce; rg_rewound  *)
(* are the arrays a setstate has put back to an earlier place.             *)
(***************************************************************************)

CONSTANTS WIDTH,
          Arrays,       \* bytes of each state array a program has, by name
          Seeds,
          MaxDraws      \* calls of random on one array, fewer than any degree

ASSUME WidthAssumption == WIDTH \in Nat \ {0} /\ MaxDraws \in 1 .. 6

Word == 2^WIDTH
MAX_TYPES == 5
BREAK == <<32, 64, 128, 256>>
degrees == <<0, 7, 15, 31, 63>>
seps == <<0, 3, 1, 3, 1>>
deg(type) == degrees[type + 1]
sep(type) == seps[type + 1]
TYPE_3 == 3

LCG(x) == (((1103515245 % Word) * x) + 12345) % Word

(* The low bits of the table compiled in. *)
randtbl == [i \in 0 .. 31 |->
    (<<TYPE_3, 57, 36, 130, 66, 224, 181, 2, 251, 107, 176, 24, 253, 15, 159,
       183, 134, 42, 136, 93, 247, 214, 81, 150, 220, 147, 152, 184, 123, 14,
       11, 185>>[i + 1]) % Word]
Table == "randtbl"

(* The terms of the sequence seeded with x before any draw, oldest first:  *)
(* linear congruential, from place sep on.  A term is z(n) + z(n+deg-sep). *)
Start(type, x) ==
    LET lcg[i \in 0 .. 63] == IF i = 0 THEN x ELSE LCG(lcg[i - 1])
    IN  IF type = 0 THEN <<x>>
        ELSE [i \in 1 .. deg(type) |-> lcg[(i - 1 + sep(type)) % deg(type)]]

Advance(type, z) ==
    IF type = 0 THEN <<LCG(z[1])>>
    ELSE Append(Tail(z), (z[1] + z[1 + deg(type) - sep(type)]) % Word)

VARIABLES rg_array, rg_cur, rg_type, rg_fptr, rg_rptr, rg_warm, rg_out,
          rg_seed, rg_draws, rg_ideal, rg_rewound
rg_vars == <<rg_array, rg_cur, rg_type, rg_fptr, rg_rptr, rg_warm, rg_out,
             rg_seed, rg_draws, rg_ideal, rg_rewound>>

RgInit ==
    /\ rg_array = [b \in {Table} \cup DOMAIN Arrays |->
                     IF b = Table THEN randtbl ELSE [i \in 0 .. 31 |-> 0]]
    /\ rg_cur = Table /\ rg_type = TYPE_3
    /\ rg_fptr = sep(TYPE_3) /\ rg_rptr = 0
    /\ rg_warm = 0 /\ rg_out = -1 /\ rg_rewound = {}
    /\ rg_seed = [b \in {Table} |-> 1]
    /\ rg_draws = [b \in {Table} |-> 0]
    /\ rg_ideal = [b \in {Table} |->
         [i \in 1 .. 31 |-> randtbl[1 + ((i - 1 + sep(TYPE_3)) % 31)]]]

(* One number from the array g.a of the given type, the pointers at g.f    *)
(* and g.r: the generator after it, and the number.  state[i] is a[i + 1]. *)
random_unlocked(g, type) ==
    IF type = 0
    THEN LET x == LCG(g.a[1]) IN [g EXCEPT !.a[1] = x, !.out = x]
    ELSE LET x == (g.a[g.f + 1] + g.a[g.r + 1]) % Word
             wrapped == g.f + 1 >= deg(type)
         IN  [a |-> [g.a EXCEPT ![g.f + 1] = x],
              out |-> x \div 2,
              f |-> IF wrapped THEN 0 ELSE g.f + 1,
              r |-> IF ~wrapped /\ g.r + 1 >= deg(type) THEN 0 ELSE g.r + 1]

Current == [a |-> rg_array[rg_cur], f |-> rg_fptr, r |-> rg_rptr, out |-> -1]

Rounds(type) == IF type = 0 THEN 0 ELSE 10

(* The array a seeded with x, before the warming up. *)
Filled(a, type, x) ==
    LET fill[i \in 0 .. 63] == IF i = 0 THEN x ELSE LCG(fill[i - 1])
    IN  IF type = 0 THEN [a EXCEPT ![1] = x]
        ELSE [i \in DOMAIN a |-> IF i \in 1 .. deg(type) THEN fill[i - 1] ELSE a[i]]

(* The end of srandom_unlocked on array b: pointers, and the history. *)
Seeded(b, type, x) ==
    /\ IF type = 0 THEN UNCHANGED <<rg_fptr, rg_rptr>>
       ELSE rg_fptr' = sep(type) /\ rg_rptr' = 0
    /\ rg_warm' = Rounds(type) /\ rg_out' = -1
    /\ rg_seed' = [c \in DOMAIN rg_seed \cup {b} |-> IF c = b THEN x ELSE rg_seed[c]]
    /\ rg_draws' = [c \in DOMAIN rg_draws \cup {b} |-> IF c = b THEN 0 ELSE rg_draws[c]]
    /\ rg_ideal' = [c \in DOMAIN rg_ideal \cup {b} |->
                      IF c = b THEN Start(type, x) ELSE rg_ideal[c]]
    /\ rg_rewound' = rg_rewound \ {b}

(* One round of the warming up: as many draws as there are words. *)
WarmUp ==
    LET draw(g, i) == random_unlocked(g, rg_type)
        step(z, i) == Advance(rg_type, z)
        all == [i \in 1 .. deg(rg_type) |-> i]
        g == FoldLeft(draw, Current, all)
    IN  /\ rg_warm > 0
        /\ rg_warm' = rg_warm - 1
        /\ rg_array' = [rg_array EXCEPT ![rg_cur] = g.a]
        /\ rg_fptr' = g.f /\ rg_rptr' = g.r
        /\ rg_ideal' = [rg_ideal EXCEPT ![rg_cur] = FoldLeft(step, @, all)]
        /\ UNCHANGED <<rg_cur, rg_type, rg_out, rg_seed, rg_draws, rg_rewound>>

random ==
    LET g == random_unlocked(Current, rg_type)
    IN  /\ rg_warm = 0 /\ rg_draws[rg_cur] < MaxDraws
        /\ rg_array' = [rg_array EXCEPT ![rg_cur] = g.a]
        /\ rg_fptr' = g.f /\ rg_rptr' = g.r /\ rg_out' = g.out
        /\ rg_draws' = [rg_draws EXCEPT ![rg_cur] = @ + 1]
        /\ rg_ideal' = [rg_ideal EXCEPT ![rg_cur] = Advance(rg_type, @)]
        /\ UNCHANGED <<rg_cur, rg_type, rg_warm, rg_seed, rg_rewound>>

srandom(x) ==
    /\ rg_warm = 0
    /\ rg_array' = [rg_array EXCEPT ![rg_cur] = Filled(@, rg_type, x)]
    /\ Seeded(rg_cur, rg_type, x)
    /\ UNCHANGED <<rg_cur, rg_type>>

(* What the other calls store in word 0 of the array they leave. *)
Saved == IF rg_type = 0 THEN 0 ELSE MAX_TYPES * rg_rptr + rg_type

TypeFor(n) == Len(SelectSeq(BREAK, LAMBDA b : b <= n))

(* initstate on array b of n bytes: the old array is saved, the new one    *)
(* seeded.  Fewer than 8 bytes: only the save happens.  Warming up brings  *)
(* the rear pointer back to 0, which is what word 0 of b then says.        *)
initstate(x, b, n) ==
    LET left == [rg_array EXCEPT ![rg_cur][0] = Saved]
        type == TypeFor(n)
    IN  /\ rg_warm = 0
        /\ \/ /\ n < 8
              /\ rg_array' = left
              /\ UNCHANGED <<rg_cur, rg_type, rg_fptr, rg_rptr, rg_warm, rg_out,
                             rg_seed, rg_draws, rg_ideal, rg_rewound>>
           \/ /\ n >= 8
              /\ rg_array' = [left EXCEPT ![b] = [Filled(@, type, x) EXCEPT ![0] = type]]
              /\ rg_cur' = b /\ rg_type' = type
              /\ Seeded(b, type, x)

(* setstate reads the new array's word 0 before it writes the old one's:   *)
(* when they are one, it is the place of an earlier save that is restored. *)
setstate(b) ==
    LET new == rg_array[b][0]
        type == new % MAX_TYPES
        rear == new \div MAX_TYPES
    IN  /\ rg_warm = 0
        /\ rg_array' = [rg_array EXCEPT ![rg_cur][0] = Saved]
        /\ rg_cur' = b /\ rg_type' = type
        /\ IF type = 0 THEN UNCHANGED <<rg_fptr, rg_rptr>>
           ELSE rg_rptr' = rear /\ rg_fptr' = (rear + sep(type)) % deg(type)
        /\ rg_out' = -1
        /\ rg_rewound' = IF b = rg_cur /\ new # Saved THEN rg_rewound \cup {b} ELSE rg_rewound
        /\ UNCHANGED <<rg_warm, rg_seed, rg_draws, rg_ideal>>

(* Bound: a program that has put an array back changes to no other before  *)
(* it has seeded it again.                                                 *)
RgNext ==
    \/ random \/ WarmUp
    \/ \E x \in Seeds : srandom(x)
    \/ /\ rg_rewound = {}
       /\ \/ \E x \in Seeds, b \in DOMAIN Arrays : initstate(x, b, Arrays[b])
          \/ \E b \in DOMAIN rg_seed : setstate(b)

RgSpec == RgInit /\ [][RgNext]_rg_vars

----------------------------------------------------------------------------
(* Every array goes on with its own sequence, whatever other arrays the    *)
(* program used in between: a number drawn is the next term of the         *)
(* trinomial recurrence its array was seeded for.  The one exception is an *)
(* array selected while it was in use and drawn from: random.c says that   *)
(* "it is OK to call setstate() with the same state as the current state", *)
(* but the pointers then go back to where the array was last left, and     *)
(* only a new seed puts it right.  A generator of type 0 has no pointers   *)
(* and is never put back.  The two pointers stay sep apart, and the table  *)
(* compiled in is what seeding with 1 makes.                               *)
RandomExact ==
    /\ rg_out # -1 /\ rg_cur \notin rg_rewound => rg_out = (IF rg_type = 0 THEN Last(rg_ideal[rg_cur])
                                ELSE Last(rg_ideal[rg_cur]) \div 2)
    /\ rg_cur \in rg_rewound => rg_type # 0
    /\ rg_type # 0 => rg_fptr = (rg_rptr + sep(rg_type)) % deg(rg_type)
    /\ rg_cur = Table /\ rg_seed[Table] = 1 /\ rg_draws[Table] = 0 /\ rg_warm = 0
          => \A i \in 1 .. 31 : rg_array[Table][i] = randtbl[i]
=============================================================================

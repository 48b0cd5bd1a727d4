----------------------------- MODULE MCLibrary -----------------------------
(***************************************************************************)
(* The libraries on small instances.  lib_part says which of them the      *)
(* behaviour exercises.  The pure functions are asked one question,        *)
(* lib_q, and the properties compare the answer with its reference; the    *)
(* parts with a state of their own run.                                    *)
(***************************************************************************)
EXTENDS Libc, Stdlib, KernLib, Kmalloc, ContainerTests

CONSTANTS t1, t2, k1     \* threads and block types of Kmalloc

VARIABLES lib_part, lib_q
lib_vars == <<lib_part, lib_q, um_vars, rg_vars, tl_vars, kl_vars, vars, ct_vars, mt>>

(* Modifiers of a field: each of them at most once, but l. *)
Modifiers ==
    {s \in UNION {[1 .. n -> {"#", "-", "l", "0", "3"}] : n \in 0 .. 3} :
        \A ch \in {"#", "-", "0", "3"} : Len(SelectSeq(s, LAMBDA x : x = ch)) <= 1}
Conversions == {"d", "o", "u", "p", "x", "X", "s", "c", "%", "k"}
FieldValues == {0, 1, 7, 8, 9, 10, 31, 32, 63}
Memories == {m \in [0 .. 5 -> 0 .. 2] : m[5] = 0}
SortMax == 6
TwoBlocks == [t \in Types |-> 2]
Symmetry == Permutations(Threads)
StateArrays == [small |-> 32, tiny |-> 8, none |-> 7]

MCInit ==
    /\ \/ lib_part = "arithmetic" /\ lib_q \in LongLongs
       \/ lib_part = "printf" /\ lib_q \in Modifiers \X Conversions
       \/ lib_part = "strings" /\ lib_q \in Memories
       \/ lib_part = "qsort" /\ lib_q \in UNION {[0 .. n -> 0 .. 3] : n \in 0 .. SortMax - 1}
       \/ lib_part = "uio" /\ lib_q \in UNION {[1 .. n -> 0 .. 3] : n \in 1 .. 3}
       \/ lib_part = "bytes" /\ lib_q \in [0 .. 7 -> {{}, {1}}]
       \/ /\ lib_q = <<>>
          /\ lib_part \in {"malloc", "random", "threadlist", "array", "bitmap", "heap",
                           "container tests", "malloc tests"}
    /\ UmInit /\ RgInit /\ TlInit /\ KlInit /\ Init
    /\ IF lib_part = "container tests" THEN CtInit ELSE CtRest
    /\ IF lib_part = "malloc tests" THEN MtInit ELSE mt = <<>>

MCNext ==
    /\ UNCHANGED <<lib_part, lib_q>>
    /\ \/ /\ lib_part = "malloc" /\ UmNext
          /\ UNCHANGED <<rg_vars, tl_vars, kl_vars, vars, ct_vars, mt>>
       \/ /\ lib_part = "random" /\ RgNext
          /\ UNCHANGED <<um_vars, tl_vars, kl_vars, vars, ct_vars, mt>>
       \/ /\ lib_part = "threadlist" /\ TlNext
          /\ UNCHANGED <<um_vars, rg_vars, kl_vars, vars, ct_vars, mt>>
       \/ /\ lib_part = "array" /\ ArNext
          /\ UNCHANGED <<um_vars, rg_vars, tl_vars, vars, ct_vars, mt>>
       \/ /\ lib_part = "bitmap" /\ BmNext
          /\ UNCHANGED <<um_vars, rg_vars, tl_vars, vars, ct_vars, mt>>
       \/ /\ lib_part = "heap" /\ Next
          /\ UNCHANGED <<um_vars, rg_vars, tl_vars, kl_vars, ct_vars, mt>>
       \/ /\ lib_part = "container tests" /\ CtNext
          /\ UNCHANGED <<um_vars, rg_vars, tl_vars, kl_vars, vars, mt>>
       \/ /\ lib_part = "malloc tests" /\ MtNext
          /\ UNCHANGED <<um_vars, rg_vars, tl_vars, kl_vars, vars, ct_vars>>

MCSpec == MCInit /\ [][MCNext]_lib_vars

----------------------------------------------------------------------------
(* The out-of-line 64-bit operations (common/gcc-millicode) agree with the *)
(* integers modulo 2^w, for every pair of operands of the small width.     *)
ArithmeticExact ==
    lib_part = "arithmetic" =>
        /\ ShiftsExact(lib_q)
        /\ \A b \in LongLongs : RingExact(lib_q, b) /\ DivisionExact(lib_q, b)

(* printf prints what the manual says of every conversion but X, which it  *)
(* does not have; snprintf keeps to its buffer; atoi reads back what %d    *)
(* printed.                                                                *)
PrintfExact ==
    lib_part = "printf" =>
        LET mods == lib_q[1]  conv == lib_q[2]
        IN  /\ conv \in {"d", "o", "u", "p", "x"} =>
                  \A v \in FieldValues : FieldExact(mods, conv, v)
            /\ conv = "X" => \A v \in FieldValues : UppercaseHexUnknown(mods, v)
            /\ \A n \in {0, 1, 2, 4}, t \in {<<>>, <<"x">>, <<"NULL">>} :
                  (conv = "c" => t = <<"x">>) => CutExact(n, mods, conv, t, 5)
            /\ conv = "d" => \A v \in 0 .. 2^INT_SIZE - 1 : ReadsBack(mods, v)

(* Overlapping moves, tokens, searches, comparisons, copies and sorting    *)
(* agree with their definitions on sequences.                              *)
TextExact ==
    /\ lib_part = "strings" =>
          LET cells == [i \in 0 .. 5 |-> i]
          IN  /\ \A ds \in {{}, {1}, {1, 2}} : TokensExact(lib_q, 0, ds)
              /\ \A a, b \in 0 .. 5 : StringsExact(lib_q, a, b)
              /\ \A a, b \in 0 .. 5, n \in 0 .. 6 :
                    a + n <= 6 /\ b + n <= 6 => MoveExact(cells, a, b, n)
    /\ lib_part = "qsort" =>
          \A n \in 0 .. Cardinality(DOMAIN lib_q) :
              SortsExactly([i \in DOMAIN lib_q |-> <<lib_q[i], i>>], n)

(* The C library: the families of functions above, and the random-number   *)
(* generator across switches of its state.  Two promises of the manual and *)
(* the comments are not kept, and it says what happens instead: %X, and    *)
(* setstate of the array in use.                                           *)
LibcExact == ArithmeticExact /\ PrintfExact /\ TextExact /\ RandomExact

(* The kernel's own tests of its lists, arrays, bitmaps and heap pass.     *)
SelfTestsPass ==
    /\ ContainerTestsPass
    /\ lib_part = "malloc tests" => MallocTestsSound

(* The kernel's arrays, bitmaps, thread lists and I/O cursors hold what    *)
(* was put in them, the byte-order functions reverse the bytes of every    *)
(* value of 16 and 32 bits and of those of 64 bits whose bytes 4 and 5 are *)
(* zero (bswap64 is wrong for all others), and the kernel's tests of them  *)
(* pass.                                                                   *)
KernelLibraryExact ==
    /\ SelfTestsPass
    /\ ContainersExact
    /\ ListsExact
    /\ lib_part = "uio" =>
          \A user, zeros \in BOOLEAN, bad \in 0 .. 3, n1, n2 \in 0 .. 5 :
              UioExact(lib_q, user, bad, n1, n2, zeros)
    /\ lib_part = "bytes" => BytesExact(lib_q)

(* The kernel heap: no block is handed out twice or lost, the lists agree  *)
(* with the pages, and no page is lost or given back twice in the windows  *)
(* in which kmalloc_spinlock is dropped (subpage_kmalloc, subpage_kfree).  *)
KernelHeapSound ==
    lib_part = "heap" =>
        BlocksAccounted /\ ListsAgree /\ HeapPagesAccounted
=============================================================================

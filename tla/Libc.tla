-------------------------------- MODULE Libc --------------------------------
(***************************************************************************)
(* The pure functions of the C library: the 64-bit arithmetic that gcc     *)
(* calls, printf and its relatives, the string functions, and qsort.       *)
(***************************************************************************)
EXTENDS Integers, Sequences, SequencesExt, Bitwise, FiniteSets

(***************************************************************************)
(* The 64-bit arithmetic the compiler calls out of line on the 32-bit      *)
(* machine (common/gcc-millicode).  The library is written for an int of   *)
(* any even number of bits, and so is the model: a digit has HALF_BITS     *)
(* bits, an int two digits, a long long two ints.  A long long is its      *)
(* unsigned value, 0 .. ULL - 1; Signed reads it as two's complement.      *)
(***************************************************************************)

CONSTANT HALF_BITS

ASSUME HalfBitsAssumption == HALF_BITS \in Nat \ {0}

B == 2^HALF_BITS
INT_BITS == 2 * HALF_BITS
UINT == 2^INT_BITS
ULL == UINT * UINT

LongLongs == 0 .. ULL - 1
Signed(a) == IF a < ULL \div 2 THEN a ELSE a - ULL
SignedInt(x) == IF x < UINT \div 2 THEN x ELSE x - UINT

(* The union uu: the high and the low int of a long long, and the way back. *)
Hi(a) == a \div UINT
Lo(a) == a % UINT
Quad(h, l) == (h % UINT) * UINT + (l % UINT)

HHALF(x) == x \div B
LHALF(x) == x % B
LHUP(x) == (x * B) % UINT
COMBINE(a, b) == ((a * B) % UINT) + b

Carry(happened) == IF happened THEN 1 ELSE 0

----------------------------------------------------------------------------
(* Addition, subtraction, negation: the carry is read off the low sum. *)
__adddi3(a, b) ==
    LET l == (Lo(a) + Lo(b)) % UINT
    IN  Quad(Hi(a) + Hi(b) + Carry(l < Lo(b)), l)

__subdi3(a, b) ==
    LET l == (Lo(a) - Lo(b)) % UINT
    IN  Quad(Hi(a) - Hi(b) - Carry(l > Lo(a)), l)

__negdi2(a) ==
    LET l == (-Lo(a)) % UINT
    IN  Quad(-Hi(a) - Carry(l > 0), l)

(* A sign taken off, and put back. *)
WithSign(negative, a) == IF negative THEN __negdi2(a) ELSE a
Magnitude(a) == WithSign(Signed(a) < 0, a)

(* The bitwise operations, an int at a time. *)
__anddi3(a, b) == Quad(Hi(a) & Hi(b), Lo(a) & Lo(b))
__iordi3(a, b) == Quad(Hi(a) | Hi(b), Lo(a) | Lo(b))
__xordi3(a, b) == Quad(Hi(a) ^^ Hi(b), Lo(a) ^^ Lo(b))
__one_cmpldi2(a) == Quad(UINT - 1 - Hi(a), UINT - 1 - Lo(a))

(* Shifts by 0 .. 2 * INT_BITS - 1; the undefined shift by INT_BITS is     *)
(* never asked of an int.                                                  *)
__lshldi3(a, shift) ==
    IF shift = 0 THEN a
    ELSE IF shift >= INT_BITS THEN Quad(Lo(a) * 2^(shift - INT_BITS), 0)
    ELSE Quad(Hi(a) * 2^shift + Lo(a) \div 2^(INT_BITS - shift),
              Lo(a) * 2^shift)

__ashldi3(a, shift) == __lshldi3(a, shift)

__lshrdi3(a, shift) ==
    IF shift = 0 THEN a
    ELSE IF shift >= INT_BITS THEN Quad(0, Hi(a) \div 2^(shift - INT_BITS))
    ELSE Quad(Hi(a) \div 2^shift,
              Lo(a) \div 2^shift + Hi(a) * 2^(INT_BITS - shift))

(* Fault: the low word is filled from a logically shifted high word. *)
FaultAshr(a, shift) ==
    IF shift = 0 THEN a
    ELSE IF shift >= INT_BITS
    THEN Quad(SignedInt(Hi(a)) \div UINT, Hi(a) \div 2^(shift - INT_BITS))
    ELSE Quad(SignedInt(Hi(a)) \div 2^shift,
              Lo(a) \div 2^shift + Hi(a) * 2^(INT_BITS - shift))

(* \div rounds down, as the machine's arithmetic right shift does. *)
__ashrdi3(a, shift) ==
    IF shift = 0 THEN a
    ELSE IF shift >= INT_BITS
    THEN Quad((SignedInt(Hi(a)) \div 2^(INT_BITS - 1)) \div 2,
              SignedInt(Hi(a)) \div 2^(shift - INT_BITS))
    ELSE Quad(SignedInt(Hi(a)) \div 2^shift,
              Lo(a) \div 2^shift + Hi(a) * 2^(INT_BITS - shift))

(* 0, 1 or 2 as a is below, equal to or above b. *)
Compare(ah, al, bh, bl) ==
    CASE ah < bh -> 0 [] ah > bh -> 2
      [] ah = bh /\ al < bl -> 0 [] ah = bh /\ al > bl -> 2
      [] OTHER -> 1

__cmpdi2(a, b) == Compare(SignedInt(Hi(a)), Lo(a), SignedInt(Hi(b)), Lo(b))
__ucmpdi2(a, b) == Compare(Hi(a), Lo(a), Hi(b), Lo(b))

----------------------------------------------------------------------------
(* Knuth's three-multiplication product of two ints, exact. *)
__lmulq(u, v) ==
    LET u1 == HHALF(u)  u0 == LHALF(u)  v1 == HHALF(v)  v0 == LHALF(v)
        low == u0 * v0
        high == u1 * v1
        neg == (u1 < u0) # (v0 < v1)
        mid == (IF u1 >= u0 THEN u1 - u0 ELSE u0 - u1)
                 * (IF v0 >= v1 THEN v0 - v1 ELSE v1 - v0)
        l1 == LHUP(high)
        l2 == (IF neg THEN l1 - LHUP(mid) ELSE l1 + LHUP(mid)) % UINT
        h2 == IF neg THEN high + HHALF(high) - (HHALF(mid) + Carry(l2 > l1))
              ELSE high + HHALF(high) + HHALF(mid) + Carry(l2 < l1)
        l3 == (l2 + LHUP(low)) % UINT
        h3 == h2 + HHALF(low) + Carry(l3 < l2)
        l4 == (l3 + low) % UINT
    IN  IF u1 = 0 /\ v1 = 0 THEN low ELSE Quad(h3 + Carry(l4 < low), l4)

(* The product of two long longs: signs apart, then the same scheme, of    *)
(* which the upper half is dropped.                                        *)
__muldi3(a, b) ==
    LET Combined(u1, u0, v1, v0, low) ==
            LET negmid == (u1 < u0) # (v0 < v1)
                mid == (IF u1 >= u0 THEN u1 - u0 ELSE u0 - u1)
                         * (IF v0 >= v1 THEN v0 - v1 ELSE v1 - v0)
            IN  IF u1 = 0 /\ v1 = 0 THEN low
                ELSE Quad(u1 * v1 + (IF negmid THEN -mid ELSE mid)
                            + Lo(low) + Hi(low), Lo(low))
        Product(u, v) == Combined(Hi(u), Lo(u), Hi(v), Lo(v), __lmulq(Lo(u), Lo(v)))
    IN  WithSign((Signed(a) < 0) # (Signed(b) < 0), Product(Magnitude(a), Magnitude(b)))

----------------------------------------------------------------------------
(* Division: Knuth's algorithm D in base B.  Digit strings are functions   *)
(* from indices, as the arrays uspace, vspace and qspace are.              *)
Digits(a) == [i \in 0 .. 4 |->
    IF i = 0 THEN 0
    ELSE <<HHALF(Hi(a)), LHALF(Hi(a)), HHALF(Lo(a)), LHALF(Lo(a))>>[i]]

FromDigits(d) == Quad(COMBINE(d[1], d[2]), COMBINE(d[3], d[4]))

(* The zeros in front of d[1], skipped by u++ and v++. *)
LeadingZeros(d) ==
    CHOOSE k \in 0 .. 3 : d[k + 1] # 0 /\ \A i \in 1 .. k : d[i] = 0

(* p[first] .. p[first + len] shifted left by sh bits, in place. *)
shl(p, first, len, sh) == [i \in DOMAIN p |->
    IF i \in first .. first + len - 1
    THEN LHALF(p[i] * 2^sh) + p[i + 1] \div 2^(HALF_BITS - sh)
    ELSE IF i = first + len THEN LHALF(p[i] * 2^sh)
    ELSE p[i]]

(* A divisor of one digit t: four short divisions. *)
ShortDivision(u, t) ==
    LET step(s, i) == LET rbj == COMBINE(s.r, u[i])
                      IN  [q |-> Append(s.q, rbj \div t), r |-> rbj % t]
        s == FoldLeft(step, [q |-> <<>>, r |-> 0], <<1, 2, 3, 4>>)
    IN  [q |-> FromDigits(s.q), r |-> s.r]

(* D3: qhat is lowered while it is seen to be too big.  v1 >= B/2, so rhat *)
(* reaches B in two steps.                                                 *)
QHat(uj0, uj1, uj2, v1, v2) ==
    LET tooBig(q, r) == v2 * q > COMBINE(r, uj2)
        lower(s) == [q |-> s.q - 1, r |-> s.r + v1]
        again(s) == IF s.r < B /\ tooBig(s.q, s.r) THEN lower(s) ELSE s
        nn == COMBINE(uj0, uj1)
    IN  IF uj0 = v1 THEN again(again(lower([q |-> B, r |-> uj1]))).q
        ELSE again(again([q |-> nn \div v1, r |-> nn % v1])).q

(* Fault: the quotient digit is not corrected when D4 left a borrow. *)
FaultDStep(s, j, v, n) ==
    LET qhat == QHat(s.u[j], s.u[j + 1], s.u[j + 2], v[1], v[2])
        sub(x, i) ==
            LET t == (x.u[i + j] - v[i] * qhat - x.t) % UINT
            IN  [u |-> [x.u EXCEPT ![i + j] = LHALF(t)],
                 t |-> (B - HHALF(t)) % B]
        D4 == FoldLeft(sub, [u |-> s.u, t |-> 0], [k \in 1 .. n |-> n + 1 - k])
        t0 == (D4.u[j] - D4.t) % UINT
    IN  [u |-> [D4.u EXCEPT ![j] = LHALF(t0)], q |-> Append(s.q, qhat)]

(* D3 to D6 for one j: estimate, multiply and subtract, add back when the  *)
(* subtraction left a borrow.                                              *)
DStep(s, j, v, n) ==
    LET qhat == QHat(s.u[j], s.u[j + 1], s.u[j + 2], v[1], v[2])
        down == [k \in 1 .. n |-> n + 1 - k]
        sub(x, i) ==
            LET t == (x.u[i + j] - v[i] * qhat - x.t) % UINT
            IN  [u |-> [x.u EXCEPT ![i + j] = LHALF(t)],
                 t |-> (B - HHALF(t)) % B]
        D4 == FoldLeft(sub, [u |-> s.u, t |-> 0], down)
        t0 == (D4.u[j] - D4.t) % UINT
        u4 == [D4.u EXCEPT ![j] = LHALF(t0)]
        add(x, i) ==
            LET t == x.t + x.u[i + j] + v[i]
            IN  [u |-> [x.u EXCEPT ![i + j] = LHALF(t)], t |-> HHALF(t)]
        D6 == FoldLeft(add, [u |-> u4, t |-> 0], down)
    IN  IF HHALF(t0) # 0
        THEN [u |-> [D6.u EXCEPT ![j] = LHALF(@ + D6.t)],
              q |-> Append(s.q, qhat - 1)]
        ELSE [u |-> u4, q |-> Append(s.q, qhat)]

(* u / v and u % v.  Division by zero does not return. *)
__qdivrem(ull, vll) ==
    LET zu == LeadingZeros(Digits(ull))
        zv == LeadingZeros(Digits(vll))
        n == 4 - zv
        m == 4 - zu - n
        v0 == [i \in 1 .. n |-> Digits(vll)[i + zv]]
        u0 == [i \in 0 .. m + n |-> Digits(ull)[i + zu]]
        Remainder(u, d) ==
            [i \in 0 .. m + n |->
                CASE d = 0 -> u[i]
                  [] d > 0 /\ i > m -> u[i] \div 2^d + LHALF(u[i - 1] * 2^(HALF_BITS - d))
                  [] d > 0 /\ i = m -> 0
                  [] OTHER -> u[i]]
        Result(D, d) ==
            [q |-> FromDigits([i \in 1 .. 4 |->
                       IF i < 4 - m THEN 0 ELSE D.q[i - (4 - m) + 1]]),
             r |-> FromDigits([i \in 1 .. 4 |->
                       IF i < zu THEN 0 ELSE Remainder(D.u, d)[i - zu]])]
        Divide(u, v, d) ==
            Result(FoldLeft(LAMBDA s, j : DStep(s, j, v, n), [u |-> u, q |-> <<>>],
                            [k \in 1 .. m + 1 |-> k - 1]), d)
        Shifted(d) ==
            Divide(IF d > 0 THEN shl(u0, 0, m + n, d) ELSE u0,
                   IF d > 0 THEN shl(v0, 1, n - 1, d) ELSE v0, d)
    IN  IF ull < vll THEN [q |-> 0, r |-> ull]
        ELSE IF n = 1 THEN ShortDivision(Digits(ull), Digits(vll)[4])
        ELSE Shifted(CHOOSE k \in 0 .. HALF_BITS - 1 :
                         v0[1] * 2^k >= B \div 2 /\ v0[1] * 2^k < B)

__udivdi3(a, b) == __qdivrem(a, b).q
__umoddi3(a, b) == __qdivrem(a, b).r

__divdi3(a, b) ==
    WithSign((Signed(a) < 0) # (Signed(b) < 0), __qdivrem(Magnitude(a), Magnitude(b)).q)

__moddi3(a, b) ==
    WithSign(Signed(a) < 0, __qdivrem(Magnitude(a), Magnitude(b)).r)

----------------------------------------------------------------------------
Abs(x) == IF x < 0 THEN -x ELSE x
Truncated(x, y) ==
    LET q == Abs(x) \div Abs(y) IN IF (x < 0) # (y < 0) THEN -q ELSE q

(* Sums, products and comparisons agree with the integers modulo 2^w, and  *)
(* the bitwise operations with them.                                       *)
RingExact(a, b) ==
    /\ __anddi3(a, b) + __iordi3(a, b) = a + b
    /\ __xordi3(a, b) = __iordi3(a, b) - __anddi3(a, b)
    /\ __one_cmpldi2(a) = (-a - 1) % ULL
    /\ __adddi3(a, b) = (a + b) % ULL
    /\ __subdi3(a, b) = (a - b) % ULL
    /\ __muldi3(a, b) = (a * b) % ULL
    /\ __cmpdi2(a, b) = 1 + (IF Signed(a) < Signed(b) THEN -1
                             ELSE IF Signed(a) > Signed(b) THEN 1 ELSE 0)
    /\ __ucmpdi2(a, b) = 1 + (IF a < b THEN -1 ELSE IF a > b THEN 1 ELSE 0)

(* Quotients truncate towards zero, remainders have the dividend's sign.   *)
(* The most negative value divided by -1 wraps to itself.                  *)
DivisionExact(a, b) ==
    b # 0 =>
        /\ __udivdi3(a, b) = a \div b
        /\ __umoddi3(a, b) = a % b
        /\ __divdi3(a, b) = Truncated(Signed(a), Signed(b)) % ULL
        /\ __moddi3(a, b) =
              (Signed(a) - Signed(b) * Truncated(Signed(a), Signed(b))) % ULL

(* Shifts multiply and divide by powers of two. *)
ShiftsExact(a) ==
    \A s \in 0 .. 2 * INT_BITS - 1 :
        /\ __ashldi3(a, s) = (a * 2^s) % ULL
        /\ __lshldi3(a, s) = (a * 2^s) % ULL
        /\ __lshrdi3(a, s) = a \div 2^s
        /\ __ashrdi3(a, s) = (Signed(a) \div 2^s) % ULL

-----------------------------------------------------------------------------
(***************************************************************************)
(* Formatted output (common/libc/printf) and the parser of decimal         *)
(* integers (atoi).  A format and a text are sequences of characters; a    *)
(* character is its own one-letter string.  The state of one printf, the   *)
(* structure PF, is a record; the text sent so far is its field out, which *)
(* the code hands to the client's sendfunc piece by piece.  int, long and  *)
(* size_t have INT_SIZE bits, long long LL_SIZE bits.                      *)
(***************************************************************************)

CONSTANTS INT_SIZE, LL_SIZE

ASSUME SizeAssumption ==
    INT_SIZE \in Nat /\ LL_SIZE \in Nat /\ 0 < INT_SIZE /\ INT_SIZE <= LL_SIZE

Digit == <<"0", "1", "2", "3", "4", "5", "6", "7",
           "8", "9", "a", "b", "c", "d", "e", "f">>
IsDigit(ch) == \E i \in 1 .. 10 : Digit[i] = ch
Value(ch) == CHOOSE i \in 0 .. 9 : Digit[i + 1] = ch

(* The digits of a long long in octal, a NUL, and one for slop. *)
NUMBER_BUF_SIZE == LL_SIZE \div 3 + 2

Fresh == [in_pct |-> FALSE, size |-> "INTSZ", num |-> 0, sign |-> FALSE,
          spacing |-> 0, rightspc |-> FALSE, fillchar |-> " ", base |-> 0,
          baseprefix |-> FALSE, altformat |-> FALSE]

(* Fault: the alignment flag survives into the next field. *)
FaultEndfield(pf) ==
    [Fresh EXCEPT !.rightspc = pf.rightspc] @@
    [ap |-> pf.ap, out |-> pf.out, charcount |-> pf.charcount]

__pf_endfield(pf) ==
    Fresh @@ [ap |-> pf.ap, out |-> pf.out, charcount |-> pf.charcount]

__pf_print(pf, txt) ==
    [pf EXCEPT !.out = @ \o txt, !.charcount = @ + Len(txt)]

__pf_modifier(pf, ch) ==
    CASE ch = "#" -> [pf EXCEPT !.altformat = TRUE]
      [] ch = "-" -> [pf EXCEPT !.rightspc = TRUE]
      [] ch = "l" -> [pf EXCEPT !.size = IF @ = "LONGSZ" THEN "LLONGSZ" ELSE "LONGSZ"]
      [] ch = "z" -> [pf EXCEPT !.size = "SIZETSZ"]
      [] ch = "0" -> IF pf.spacing > 0 THEN [pf EXCEPT !.spacing = @ * 10]
                     ELSE [pf EXCEPT !.fillchar = "0"]
      [] OTHER -> [pf EXCEPT !.spacing = @ * 10 + Value(ch)]

(* The number of bits va_arg fetches for a conversion. *)
ArgBits(pf, ch) == IF ch # "p" /\ pf.size = "LLONGSZ" THEN LL_SIZE ELSE INT_SIZE

(* The next argument, as a signed or an unsigned integer of its size.  The *)
(* magnitude of a negative number is computed in a long long.              *)
__pf_getnum(pf, ch) ==
    LET w == 2^ArgBits(pf, ch)
        a == Head(pf.ap) % w
        s == IF a < w \div 2 THEN a ELSE a - w
    IN  IF ch = "d"
        THEN [pf EXCEPT !.ap = Tail(@), !.sign = s < 0,
                        !.num = (IF s < 0 THEN -s ELSE s) % 2^LL_SIZE]
        ELSE [pf EXCEPT !.ap = Tail(@), !.num = a]

__pf_setbase(pf, ch) ==
    [pf EXCEPT !.base = CASE ch \in {"d", "u"} -> 10
                          [] ch \in {"x", "p"} -> 16
                          [] ch = "o" -> 8,
               !.baseprefix = pf.altformat \/ ch = "p"]

__pf_fill(pf, spc) == __pf_print(pf, [i \in 1 .. spc |-> pf.fillchar])

(* The prefixes come after space padding and before zero padding. *)
__pf_printstuff(pf, prefix, prefix2, stuff) ==
    LET len == Len(prefix) + Len(prefix2) + Len(stuff)
        spc == IF pf.spacing > len THEN pf.spacing - len ELSE 0
        fill(s, here) == IF spc > 0 /\ here THEN __pf_fill(s, spc) ELSE s
        p1 == fill(pf, ~pf.rightspc /\ pf.fillchar # "0")
        p2 == __pf_print(__pf_print(p1, prefix), prefix2)
        p3 == fill(p2, ~pf.rightspc /\ pf.fillchar = "0")
    IN  fill(__pf_print(p3, stuff), pf.rightspc)

(* The digits of n, least significant first, at least one of them. *)
DigitsOf(n, base) ==
    LET f[x \in 0 .. n] == IF x < base THEN <<x>>
                           ELSE Append(f[x \div base], x % base)
    IN  [i \in DOMAIN f[n] |-> Digit[f[n][i] + 1]]

__pf_printnum(pf) ==
    __pf_printstuff(pf,
        IF pf.sign THEN <<"-">> ELSE <<>>,
        CASE pf.baseprefix /\ pf.base = 16 -> <<"0", "x">>
          [] pf.baseprefix /\ pf.base = 8 -> <<"0">>
          [] OTHER -> <<>>,
        DigitsOf(pf.num, pf.base))

NullText == <<"(", "n", "u", "l", "l", ")">>

__pf_send(pf, ch) ==
    CASE ~pf.in_pct /\ ch # "%" -> __pf_print(pf, <<ch>>)
      [] ~pf.in_pct /\ ch = "%" -> [pf EXCEPT !.in_pct = TRUE]
      [] pf.in_pct /\ (IsDigit(ch) \/ ch \in {"#", "-", "l", "z"}) ->
            __pf_modifier(pf, ch)
      [] pf.in_pct /\ ch \in {"d", "o", "u", "p", "x"} ->
            __pf_endfield(__pf_printnum(__pf_setbase(__pf_getnum(pf, ch), ch)))
      [] pf.in_pct /\ ch = "s" ->
            __pf_endfield(__pf_printstuff([pf EXCEPT !.ap = Tail(@)], <<>>, <<>>,
                IF Head(pf.ap) = <<"NULL">> THEN NullText ELSE Head(pf.ap)))
      [] pf.in_pct /\ ch = "c" ->
            __pf_endfield(__pf_printstuff([pf EXCEPT !.ap = Tail(@)],
                                          <<>>, <<>>, Head(pf.ap)))
      [] OTHER -> __pf_endfield(__pf_printstuff(pf, <<>>, <<>>, <<ch>>))

__vprintf(format, ap) ==
    FoldLeft(__pf_send, Fresh @@ [ap |-> ap, out |-> <<>>, charcount |-> 0], format)

(* What the len bytes at buf hold after vsnprintf: the text, cut to leave  *)
(* room for the NUL; nothing at all when len is 0.                         *)
__snprintf_send(snp, ch) ==
    IF snp.bufpos < snp.buflen
    THEN [snp EXCEPT !.buf = Append(@, ch), !.bufpos = @ + 1] ELSE snp

vsnprintf(len, format, ap) ==
    LET Sent(snp, pf) ==
            [buf |-> IF len > 0 THEN Append(snp.buf, "NUL") ELSE snp.buf,
             chars |-> pf.charcount]
        Send(pf) ==
            Sent(FoldLeft(__snprintf_send,
                     [buf |-> <<>>, bufpos |-> 0,
                      buflen |-> IF len = 0 THEN 0 ELSE len - 1], pf.out), pf)
    IN  Send(__vprintf(format, ap))

snprintf(len, format, ap) == vsnprintf(len, format, ap)

----------------------------------------------------------------------------
(* The decimal integer at the start of a text, modulo 2^INT_SIZE. *)
atoi(text) ==
    LET skip(t, P(_)) ==
            Cardinality({i \in DOMAIN t : \A j \in 1 .. i : P(t[j])})
        blank(ch) == ch = " "
        body == SubSeq(text, 1 + skip(text, blank), Len(text))
        signed == body # <<>> /\ Head(body) \in {"-", "+"}
        rest == IF signed THEN Tail(body) ELSE body
        shift(val, ch) == (val * 10 + Value(ch)) % 2^INT_SIZE
        val == FoldLeft(shift, 0, SubSeq(rest, 1, skip(rest, IsDigit)))
        res == (IF signed /\ Head(body) = "-" THEN -val ELSE val) % 2^INT_SIZE
    IN  IF res < 2^(INT_SIZE - 1) THEN res ELSE res - 2^INT_SIZE

----------------------------------------------------------------------------
(* What the manual says a field with modifiers mods prints. *)
Width(mods) ==
    LET add(n, ch) == IF IsDigit(ch) THEN n * 10 + Value(ch) ELSE n
    IN  FoldLeft(add, 0, mods)

Padded(mods, prefix, stuff) ==
    LET digits == SelectSeq(mods, IsDigit)
        zero == digits # <<>> /\ digits[1] = "0"
        len == Len(prefix) + Len(stuff)
        pad == [i \in 1 .. Width(mods) - len |-> IF zero THEN "0" ELSE " "]
    IN  CASE Contains(mods, "-") -> prefix \o stuff \o pad
          [] ~Contains(mods, "-") /\ zero -> prefix \o pad \o stuff
          [] OTHER -> pad \o prefix \o stuff

Modulus(mods, conv) ==
    LET ls == SelectSeq(mods, LAMBDA ch : ch = "l")
    IN  2^(IF conv # "p" /\ Len(ls) % 2 = 0 /\ ls # <<>> THEN LL_SIZE ELSE INT_SIZE)

NumberText(mods, conv, v) ==
    LET w == Modulus(mods, conv)
        u == v % w
        n == IF conv = "d" /\ u >= w \div 2 THEN w - u ELSE u
        alt == conv = "p" \/ Contains(mods, "#")
        prefix == CASE conv = "d" /\ u >= w \div 2 -> <<"-">>
                    [] alt /\ conv \in {"x", "p"} -> <<"0", "x">>
                    [] alt /\ conv = "o" -> <<"0">>
                    [] OTHER -> <<>>
        base == CASE conv \in {"d", "u"} -> 10 [] conv = "o" -> 8 [] OTHER -> 16
    IN  Padded(mods, prefix, DigitsOf(n, base))

(* A field prints what the manual says, whatever was printed before it and *)
(* without disturbing the field after it; the count is that of the text;   *)
(* and the digits, with their NUL, fit the buffer they are built in.       *)
FieldExact(mods, conv, v) ==
    LET Printed(pf) ==
            /\ pf.out = <<"a">> \o NumberText(mods, conv, v)
                          \o <<"b">> \o Padded(<<"3">>, <<>>, <<"1">>)
            /\ pf.charcount = Len(pf.out)
    IN  /\ Printed(__vprintf(<<"a", "%">> \o mods \o <<conv, "b", "%", "3", "d">>, <<v, 1>>))
        /\ Len(DigitsOf(v % 2^LL_SIZE, 8)) + 1 <= NUMBER_BUF_SIZE

(* The manual lists X, "Unsigned integer value printed in uppercase hex"   *)
(* (man/libc/printf.html), which __pf_send does not know: it prints the    *)
(* letter X in the field, and the argument goes to the field after it.     *)
UppercaseHexUnknown(mods, v) ==
    __vprintf(<<"%">> \o mods \o <<"X", "%", "d">>, <<v>>).out
        = Padded(mods, <<>>, <<"X">>) \o NumberText(<<>>, "d", v)

(* snprintf writes no more than len bytes, ends them with a NUL, keeps as  *)
(* much of the text as fits and returns the length of all of it.           *)
CutExact(len, mods, ch, text, value) ==
    LET Cut(res, all) ==
            /\ Len(res.buf) <= len
            /\ len > 0 => /\ Last(res.buf) = "NUL"
                          /\ Front(res.buf) = SubSeq(all, 1, Len(res.buf) - 1)
                          /\ Len(all) < len => Front(res.buf) = all
            /\ res.chars = Len(all)
        Of(fmt, ap) == Cut(snprintf(len, fmt, ap), __vprintf(fmt, ap).out)
    IN  Of(<<"%">> \o mods \o <<ch>>, IF ch \in {"s", "c"} THEN <<text>> ELSE <<value>>)

(* atoi reads back what %d printed, padded in any way but with zeros on    *)
(* the right.                                                              *)
ReadsBack(mods, v) ==
    LET zeros == SelectSeq(mods, IsDigit)
    IN  ~(Contains(mods, "-") /\ zeros # <<>> /\ zeros[1] = "0")
            => atoi(__vprintf(<<"%">> \o mods \o <<"d">>, <<v>>).out)
                 = IF v < 2^(INT_SIZE - 1) THEN v ELSE v - 2^INT_SIZE

-----------------------------------------------------------------------------
(***************************************************************************)
(* The string library of the kernel and of libc (common/libc/string).      *)
(* Memory is a function from addresses to characters, 0 the terminator; a  *)
(* pointer is an address, Null none.  A long is WORD characters wide.      *)
(* Reading outside the domain of the memory is an error TLC reports.       *)
(***************************************************************************)

CONSTANT WORD

ASSUME WordAssumption == WORD \in Nat \ {0}

Null == -1

UpTo(n) == [i \in 1 .. n |-> i - 1]
DownTo(n) == [i \in 1 .. n |-> n - i]
Aligned(S) == \A x \in S : x % WORD = 0

(* One store of w characters at dst, of those at src. *)
Move(mem, dst, src, w) ==
    [a \in DOMAIN mem |-> IF a \in dst .. dst + w - 1 THEN mem[src + (a - dst)]
                          ELSE mem[a]]

(* Word by word when everything is aligned, else character by character. *)
Unit(dst, src, len) == IF Aligned({dst, src, len}) THEN WORD ELSE 1

Copy(mem, dst, src, w, order) ==
    FoldLeft(LAMBDA m, i : Move(m, dst + i * w, src + i * w, w), mem, order)

CopyDown(mem, dst, src, len) ==
    Copy(mem, dst, src, Unit(dst, src, len), DownTo(len \div Unit(dst, src, len)))

memcpy(mem, dst, src, len) ==
    Copy(mem, dst, src, Unit(dst, src, len), UpTo(len \div Unit(dst, src, len)))

memmove(mem, dst, src, len) ==
    IF dst < src THEN memcpy(mem, dst, src, len) ELSE CopyDown(mem, dst, src, len)

memset(mem, ptr, ch, len) ==
    [a \in DOMAIN mem |-> IF a \in ptr .. ptr + len - 1 THEN ch ELSE mem[a]]

bzero(mem, block, len) ==
    LET w == IF Aligned({block, len}) THEN WORD ELSE 1
        step(m, i) == memset(m, block + i * w, 0, w)
    IN  FoldLeft(step, mem, UpTo(len \div w))

(* The sign of the first difference; the code returns the difference. *)
memcmp(mem, a, b, len) ==
    LET differ == {i \in 0 .. len - 1 : mem[a + i] # mem[b + i]}
        i == CHOOSE i \in differ : \A j \in differ : i <= j
    IN  IF differ = {} THEN 0 ELSE mem[a + i] - mem[b + i]

----------------------------------------------------------------------------
(* The first address at or after s where the character satisfies P. *)
Scan(mem, s, P(_)) ==
    LET f[n \in 0 .. Cardinality(DOMAIN mem)] ==
            IF P(mem[s + n]) THEN s + n ELSE f[n + 1]
    IN  f[0]

strlen(mem, str) == Scan(mem, str, LAMBDA c : c = 0) - str

strchr(mem, s, ch) ==
    LET at == Scan(mem, s, LAMBDA c : c \in {0, ch})
    IN  IF mem[at] = ch THEN at ELSE Null

strrchr(mem, s, ch) ==
    LET step(found, i) == IF found = Null /\ mem[s + i] = ch THEN s + i ELSE found
    IN  FoldLeft(step, Null, DownTo(strlen(mem, s) + 1))

strcpy(mem, dest, src) ==
    LET n == strlen(mem, src)
        step(m, i) == Move(m, dest + i, src + i, 1)
    IN  memset(FoldLeft(step, mem, UpTo(n)), dest + n, 0, 1)

strcat(mem, dest, src) == strcpy(mem, dest + strlen(mem, dest), src)

strcmp(mem, a, b) ==
    LET stop == CHOOSE i \in 0 .. strlen(mem, a) :
                    /\ mem[a + i] = 0 \/ mem[a + i] # mem[b + i]
                    /\ \A j \in 0 .. i - 1 : mem[a + j] # 0 /\ mem[a + j] = mem[b + j]
    IN  CASE mem[a + stop] > mem[b + stop] -> 1
          [] mem[a + stop] = mem[b + stop] -> 0
          [] OTHER -> -1

(* One call of strtok_r; seps is the set of separators.  It writes a NUL   *)
(* over the separator that ends the word and remembers the place after it. *)
strtok_r(mem, string, seps, context) ==
    LET start == IF string # Null THEN string ELSE context
        head == Scan(mem, start, LAMBDA c : c \notin seps)
        tail == Scan(mem, head, LAMBDA c : c = 0 \/ c \in seps)
    IN  CASE start = Null -> [mem |-> mem, word |-> Null, context |-> start]
          [] start # Null /\ mem[head] = 0 ->
                [mem |-> mem, word |-> Null, context |-> Null]
          [] start # Null /\ mem[head] # 0 /\ mem[tail] = 0 ->
                [mem |-> mem, word |-> head, context |-> Null]
          [] OTHER -> [mem |-> [mem EXCEPT ![tail] = 0], word |-> head,
                       context |-> tail + 1]

----------------------------------------------------------------------------
(* The text of the string at s. *)
Text(mem, s) == [i \in 1 .. strlen(mem, s) |-> mem[s + i - 1]]

(* memmove moves what was there before, overlap or not, and touches        *)
(* nothing else.                                                           *)
MoveExact(mem, dst, src, len) ==
    memmove(mem, dst, src, len) = Move(mem, dst, src, len)

(* Calling strtok_r until it answers Null gives the words in order, each   *)
(* terminated, and stays at Null afterwards.                               *)
TokensExact(mem, s, seps) ==
    LET next(x, i) ==
            LET t == strtok_r(x.mem, IF i = 0 THEN s ELSE Null, seps, x.context)
            IN  [mem |-> t.mem, context |-> t.context,
                 words |-> IF t.word = Null THEN x.words
                           ELSE Append(x.words, Text(t.mem, t.word)),
                 last |-> t.word]
        run == FoldLeft(next, [mem |-> mem, context |-> Null, words |-> <<>>,
                               last |-> Null], UpTo(strlen(mem, s) + 2))
        text == Text(mem, s)
        starts == {i \in DOMAIN text : /\ text[i] \notin seps
                                       /\ i = 1 \/ text[i - 1] \in seps}
        wordAt(i) == SubSeq(text, i,
            CHOOSE j \in i .. Len(text) :
                /\ \A k \in i .. j : text[k] \notin seps
                /\ j = Len(text) \/ text[j + 1] \in seps)
    IN  /\ run.last = Null
        /\ run.words = [k \in 1 .. Cardinality(starts) |->
              wordAt(CHOOSE i \in starts :
                         Cardinality({j \in starts : j <= i}) = k)]

(* Copying, joining, searching and comparing agree with sequences. *)
StringsExact(mem, a, b) ==
    LET ta == Text(mem, a)  tb == Text(mem, b)
        first == CHOOSE i \in 1 .. Len(ta) + 1 :
                    /\ i = Len(ta) + 1 \/ i = Len(tb) + 1 \/ ta[i] # tb[i]
                    /\ \A j \in 1 .. i - 1 : j <= Len(tb) /\ ta[j] = tb[j]
    IN  /\ strcmp(mem, a, b) = -strcmp(mem, b, a)
        /\ (strcmp(mem, a, b) = 0) <=> (ta = tb)
        /\ (strcmp(mem, a, b) = 0) <=> (Len(ta) = Len(tb) /\ memcmp(mem, a, b, Len(ta)) = 0)
        /\ (strcmp(mem, a, b) < 0) <=>
              (first = Len(ta) + 1 /\ first <= Len(tb))
              \/ (first <= Len(ta) /\ first <= Len(tb) /\ ta[first] < tb[first])
        /\ \A ch \in 0 .. 2 :
              LET here == {i \in 0 .. Len(ta) : mem[a + i] = ch}
              IN  IF here = {} THEN strchr(mem, a, ch) = Null /\ strrchr(mem, a, ch) = Null
                  ELSE /\ \A i \in here : strchr(mem, a, ch) <= a + i
                       /\ \A i \in here : strrchr(mem, a, ch) >= a + i
                       /\ {strchr(mem, a, ch) - a, strrchr(mem, a, ch) - a} \subseteq here
        /\ b = a + Len(ta) + 1 /\ b + Len(ta) + Len(tb) \in DOMAIN mem =>
              /\ Text(strcat(mem, b, a), b) = tb \o ta
              /\ Text(strcpy(mem, b, a), b) = ta
              /\ Len(tb) > 0 => Text(bzero(mem, b, Len(tb)), b) = <<>>

-----------------------------------------------------------------------------
(***************************************************************************)
(* qsort (userland/lib/libc/stdlib/qsort.c).  The array is a function from *)
(* 0 .. n - 1 to keyed elements, so that equal keys stay distinguishable;  *)
(* f compares keys.  head and tail are unsigned.                           *)
(***************************************************************************)

RECURSIVE Partition(_, _, _, _, _)
RECURSIVE qsort(_, _, _)

Key(e) == e[1]

EXCHANGE(data, i, j) == [data EXCEPT ![i] = data[j], ![j] = data[i]]

(* Fault: the pivot is not followed when the exchange moves it. *)
FaultPartition(data, base, head, tail, pivot) ==
    LET key(i) == Key(data[base + i])
    IN  IF head >= tail THEN [data |-> data, head |-> head, tail |-> tail, pivot |-> pivot]
        ELSE IF key(head) <= key(pivot)
        THEN Partition(data, base, head + 1, tail, pivot)
        ELSE IF key(tail) > key(pivot)
        THEN Partition(data, base, head, tail - 1, pivot)
        ELSE Partition(EXCHANGE(data, base + head, base + tail), base,
                       head + 1, tail - 1, pivot)

(* The loop of step 2 on the part of data that starts at base: values at   *)
(* most the pivot's to the front, following the pivot when it is moved.    *)
Partition(data, base, head, tail, pivot) ==
    LET key(i) == Key(data[base + i])
        moved == IF pivot = head THEN tail ELSE IF pivot = tail THEN head ELSE pivot
    IN  IF head >= tail THEN [data |-> data, head |-> head, tail |-> tail, pivot |-> pivot]
        ELSE IF key(head) <= key(pivot)
        THEN Partition(data, base, head + 1, tail, pivot)
        ELSE IF key(tail) > key(pivot)
        THEN Partition(data, base, head, tail - 1, pivot)
        ELSE Partition(EXCHANGE(data, base + head, base + tail), base,
                       head + 1, tail - 1, moved)

(* Step 4: the pivot was the largest.  It goes to the end unless its equal *)
(* is there, and what equals the last element is left alone.               *)
LargestPivot(data, base, num, pivot) ==
    IF pivot < num - 1 /\ Key(data[base + pivot]) > Key(data[base + num - 1])
    THEN EXCHANGE(data, base + pivot, base + num - 1) ELSE data

Lopped(data, base, num) ==
    CHOOSE t \in 0 .. num - 1 :
        /\ \A i \in t .. num - 1 : Key(data[base + i]) = Key(data[base + num - 1])
        /\ t > 0 => Key(data[base + t - 1]) # Key(data[base + t])

qsort(data, base, num) ==
    LET key(i) == Key(data[base + i])
        p == Partition(data, base, 0, num - 1, num \div 2)
        tail == IF p.head > p.tail
                   \/ Key(p.data[base + p.head]) <= Key(p.data[base + p.pivot])
                THEN p.tail + 1 ELSE p.tail
        d4 == LargestPivot(p.data, base, num, p.pivot)
        lop == Lopped(d4, base, num)
    IN  IF num <= 1 THEN data
        ELSE IF num = 2 /\ key(0) > key(1) THEN EXCHANGE(data, base, base + 1)
        ELSE IF tail = num THEN IF lop > 0 THEN qsort(d4, base, lop) ELSE d4
        ELSE qsort(qsort(p.data, base, tail), base + tail, num - tail)

----------------------------------------------------------------------------
(* qsort orders the keys, loses and invents no element, touches nothing    *)
(* outside its part of the array, and each half it recurses on is smaller  *)
(* (or it would not end).                                                  *)
SortsExactly(data, num) ==
    LET Sorted(out) ==
            /\ \A i \in 0 .. num - 2 : Key(out[i]) <= Key(out[i + 1])
            /\ {out[i] : i \in 0 .. num - 1} = {data[i] : i \in 0 .. num - 1}
            /\ \A i \in DOMAIN data \ (0 .. num - 1) : out[i] = data[i]
    IN  Sorted(qsort(data, 0, num))
=============================================================================

------------------------------ MODULE Longlong ------------------------------
(***************************************************************************)
(* Arithmetic on long long for a machine with ints half as wide            *)
(* (common/gcc-millicode), which the kernel and the C library are linked   *)
(* with.  The library is written for any width of int (longlong.h); here   *)
(* half an int has HALF_BITS bits, a `digit', and every value is a natural *)
(* number below the width's limit, signed ones in two's complement.        *)
(***************************************************************************)
EXTENDS Integers, Sequences, FiniteSets

CONSTANTS HALF_BITS,
          LlValues       \* the long longs tried

B == 2^HALF_BITS                       \* a digit
WordSize == B * B                      \* an unsigned int
LongSize == WordSize * WordSize        \* an unsigned long long
INT_BITS == 2 * HALF_BITS

HHALF(x) == x \div B
LHALF(x) == x % B
LHUP(x) == (x * B) % WordSize
COMBINE(a, b) == a * B + b
Hi(x) == x \div WordSize               \* ui[H]
Lo(x) == x % WordSize                  \* ui[L]
Long(h, l) == (h % WordSize) * WordSize + (l % WordSize)
Signed(x, size) == IF 2 * x >= size THEN x - size ELSE x
IsNeg(x) == 2 * x >= LongSize
Neg(x) == (LongSize - x) % LongSize
Bit(b) == IF b THEN 1 ELSE 0
Digits(x) == [i \in 0..4 |-> IF i = 0 THEN 0 ELSE (x \div B^(4 - i)) % B]
Value(d) == d[1] * B^3 + d[2] * B^2 + d[3] * B + d[4]
-----------------------------------------------------------------------------
\* __qdivrem for a divisor of one digit, `per exercise 16'.
OneDigit(u, t) ==
  LET R[j \in 0..4] == IF j = 0 THEN 0 ELSE COMBINE(R[j - 1], u[j]) % t
      q == [j \in 0..4 |-> IF j = 0 THEN 0 ELSE COMBINE(R[j - 1], u[j]) \div t] IN
  [q |-> Value(q), r |-> R[4]]

\* shl: p[from]..p[to] shifted left by sh bits.
shl(p, from, to, sh) ==
  [i \in DOMAIN p |->
     IF i < from \/ i > to THEN p[i]
     ELSE LHALF(p[i] * 2^sh) + (IF i < to THEN p[i + 1] \div 2^(HALF_BITS - sh) ELSE 0)]

\* D3: qhat, started too big when u[j] = v[1] and then lowered; r is its remainder.
Lowered(q0, r0, uj2, v1, v2, big) ==
  LET Down[k \in 0..B] ==                        \* lowered k times so far
        IF \/ r0 + k * v1 >= B
           \/ v2 * (q0 - k) <= COMBINE(r0 + k * v1, uj2) /\ ~(k = 0 /\ big)
        THEN q0 - k ELSE Down[k + 1] IN
  Down[0]
Qhat(uj0, uj1, uj2, v1, v2) ==
  IF uj0 = v1 THEN Lowered(B, uj1, uj2, v1, v2, TRUE)
  ELSE Lowered(COMBINE(uj0, uj1) \div v1, COMBINE(uj0, uj1) % v1, uj2, v1, v2, FALSE)

\* D4: subtract qhat * v from u[j..j+n]; t is the borrow.
SubDigit(u, i, t) == [u |-> [u EXCEPT ![i] = LHALF(t)], t |-> (B - HHALF(t)) % B]
SubProduct(s, i, prod) == SubDigit(s.u, i, (s.u[i] - prod - s.t) % WordSize)
MulSub(u, v, n, j, qhat) ==
  LET S[k \in 0..n] ==
        IF k = 0 THEN [u |-> u, t |-> 0]
        ELSE SubProduct(S[k - 1], n - k + 1 + j, v[n - k + 1] * qhat) IN
  SubProduct(S[n], j, 0)

\* D6: add v back.
AddDigit(u, i, t) == [u |-> [u EXCEPT ![i] = LHALF(t)], t |-> HHALF(t)]
AddTo(s, i, d) == AddDigit(s.u, i, s.t + s.u[i] + d)
AddBack(u, v, n, j) ==
  LET S[k \in 0..n] ==
        IF k = 0 THEN [u |-> u, t |-> 0]
        ELSE AddTo(S[k - 1], n - k + 1 + j, v[n - k + 1]) IN
  AddTo(S[n], j, 0).u

\* Mutant of Corrected: a borrow does not lower qhat.
CorrectedNoFix(q, sub, v, n, j, qhat) ==
  [u |-> IF sub.t # 0 THEN AddBack(sub.u, v, n, j) ELSE sub.u, q |-> [q EXCEPT ![j] = qhat]]

\* D5: qhat was one too large if the subtraction left a borrow.
Corrected(q, sub, v, n, j, qhat) ==
  IF sub.t # 0 THEN [u |-> AddBack(sub.u, v, n, j), q |-> [q EXCEPT ![j] = LHALF(qhat - 1)]]
  ELSE [u |-> sub.u, q |-> [q EXCEPT ![j] = LHALF(qhat)]]

\* D3 to D6 for one digit of the quotient.
DivDigit(s, v, n, j, qhat) == Corrected(s.q, MulSub(s.u, v, n, j, qhat), v, n, j, qhat)
DivStep(s, v, n, j) ==
  DivDigit(s, v, n, j, Qhat(s.u[j], s.u[j + 1], s.u[j + 2], v[1], v[2]))

\* D2 and D7: the digits of the quotient from the most significant down.
DivSteps(u, v, n, m) ==
  LET D[j \in -1..m] == IF j = -1 THEN [u |-> u, q |-> [i \in 0..m |-> 0]]
                        ELSE DivStep(D[j - 1], v, n, j) IN
  D[m]

\* D8: the remainder shifted back; quotient and remainder as long longs.
Wide(f, top) == [i \in 0..4 |-> IF i + top - 4 >= 0 /\ i > 0 THEN f[i + top - 4] ELSE 0]
Unshifted(u, n, m, d) ==
  [i \in 0..(m + n) |->
     IF d = 0 THEN u[i] ELSE IF i <= m THEN 0
     ELSE u[i] \div 2^d + LHALF(u[i - 1] * 2^(HALF_BITS - d))]
Result(x, n, m, d) == [q |-> Value(Wide(x.q, m)), r |-> Value(Wide(Unshifted(x.u, n, m, d), m + n))]

\* D1: the n digits of v and the m + n of u, shifted so that v[1] >= B/2.
Normalised(u, v, n, m, d) ==
  Result(DivSteps(IF d > 0 THEN shl(u, 0, m + n, d) ELSE u,
                  IF d > 0 THEN shl(v, 1, n, d) ELSE v, n, m), n, m, d)
DivDigits(us, vs, n, m) ==
  IF n = 1 THEN OneDigit(us, vs[4])
  ELSE Normalised([i \in 0..(m + n) |-> us[i + 4 - n - m]], [i \in 1..n |-> vs[i + 4 - n]], n, m,
                  CHOOSE k \in 0..(HALF_BITS - 1) : vs[5 - n] * 2^k \in (B \div 2)..(B - 1))

\* __qdivrem: skip the leading zero digits, normalise, divide digit by digit, and
\* shift the remainder back.
LeadingZeros(d) == CHOOSE k \in 0..3 : d[k + 1] # 0 /\ \A i \in 1..k : d[i] = 0
__qdivrem(ull, vll) ==
  IF ull < vll THEN [q |-> 0, r |-> ull]
  ELSE DivDigits(Digits(ull), Digits(vll), 4 - LeadingZeros(Digits(vll)),
                 LeadingZeros(Digits(vll)) - LeadingZeros(Digits(ull)))

Absolute(x) == IF IsNeg(x) THEN Neg(x) ELSE x
NegIf(neg, x) == IF neg THEN Neg(x) ELSE x
__divdi3(a, b) == NegIf(IsNeg(a) # IsNeg(b), __qdivrem(Absolute(a), Absolute(b)).q)
__moddi3(a, b) == NegIf(IsNeg(a), __qdivrem(Absolute(a), Absolute(b)).r)
-----------------------------------------------------------------------------
\* The words of the product of two ints, from the products of their halves: the
\* middle one, to be taken off if neg, and the carries found by comparison.
LmulqLow(h, l1, low, l2) == Long(h + HHALF(low) + Bit(l2 < l1) + Bit((l2 + low) % WordSize < low), l2 + low)

\* Mutant of LmulqMid: the borrow out of the low word is lost.
LmulqNoBorrow(neg, mid, high, low, l1) ==
  LmulqLow(high + HHALF(high) + (IF neg THEN -HHALF(mid) ELSE HHALF(mid) + Bit(l1 < LHUP(high))),
           l1, low, (l1 + LHUP(low)) % WordSize)
LmulqMid(neg, mid, high, low, l1) ==
  LmulqLow(high + HHALF(high) + (IF neg THEN -(HHALF(mid) + Bit(l1 > LHUP(high)))
                                 ELSE HHALF(mid) + Bit(l1 < LHUP(high))),
           l1, low, (l1 + LHUP(low)) % WordSize)
LmulqHalves(neg, mid, high, low) ==
  LmulqMid(neg, mid, high, low, (LHUP(high) + (IF neg THEN -LHUP(mid) ELSE LHUP(mid))) % WordSize)

\* __lmulq: two ints to a long long, with three half-width products.
Abs(x) == IF x < 0 THEN -x ELSE x
__lmulq(u, v) ==
  IF HHALF(u) = 0 /\ HHALF(v) = 0 THEN Long(0, LHALF(u) * LHALF(v))
  ELSE LmulqHalves((HHALF(u) >= LHALF(u)) # (LHALF(v) >= HHALF(v)),
                   Abs(HHALF(u) - LHALF(u)) * Abs(LHALF(v) - HHALF(v)),
                   HHALF(u) * HHALF(v), LHALF(u) * LHALF(v))

\* __muldi3: the same, modulo a long long.
MulWords(u, v, low) ==
  IF Hi(u) = 0 /\ Hi(v) = 0 THEN low
  ELSE Long(Hi(u) * Hi(v) + (((Hi(u) - Lo(u)) * (Lo(v) - Hi(v))) % WordSize) + Lo(low) + Hi(low),
            Lo(low))
MulAbs(u, v) == MulWords(u, v, __lmulq(Lo(u), Lo(v)))
__muldi3(a, b) == NegIf(IsNeg(a) # IsNeg(b), MulAbs(Absolute(a), Absolute(b)))

__adddi3(a, b) ==
  LET l == (Lo(a) + Lo(b)) % WordSize IN Long(Hi(a) + Hi(b) + Bit(l < Lo(b)), l)
__subdi3(a, b) ==
  LET l == (Lo(a) - Lo(b)) % WordSize IN Long(Hi(a) - Hi(b) - Bit(l > Lo(a)), l)
__negdi2(a) == LET l == (-Lo(a)) % WordSize IN Long(-Hi(a) - Bit(l > 0), l)
__cmpdi2(a, b) ==
  LET x == Signed(Hi(a), WordSize)
      y == Signed(Hi(b), WordSize) IN
  IF x < y THEN 0 ELSE IF x > y THEN 2 ELSE IF Lo(a) < Lo(b) THEN 0 ELSE IF Lo(a) > Lo(b) THEN 2 ELSE 1
__ucmpdi2(a, b) ==
  IF Hi(a) < Hi(b) THEN 0 ELSE IF Hi(a) > Hi(b) THEN 2
  ELSE IF Lo(a) < Lo(b) THEN 0 ELSE IF Lo(a) > Lo(b) THEN 2 ELSE 1

__ashldi3(a, shift) ==
  IF shift = 0 THEN a
  ELSE IF shift >= INT_BITS THEN Long(Lo(a) * 2^(shift - INT_BITS), 0)
  ELSE Long(((Hi(a) * 2^shift) % WordSize) + Lo(a) \div 2^(INT_BITS - shift), Lo(a) * 2^shift)
__lshrdi3(a, shift) ==
  IF shift = 0 THEN a
  ELSE IF shift >= INT_BITS THEN Long(0, Hi(a) \div 2^(shift - INT_BITS))
  ELSE Long(Hi(a) \div 2^shift, Lo(a) \div 2^shift + Hi(a) * 2^(INT_BITS - shift))

\* Mutant of __ashrdi3: the sign word is not smeared.
AshrZeroFill(a, shift) == __lshrdi3(a, shift)

__ashrdi3(a, shift) ==
  LET h == Signed(Hi(a), WordSize) IN
  IF shift = 0 THEN a
  ELSE IF shift >= INT_BITS THEN Long(h \div WordSize, h \div 2^(shift - INT_BITS))
  ELSE Long(h \div 2^shift, Lo(a) \div 2^shift + Hi(a) * 2^(INT_BITS - shift))
-----------------------------------------------------------------------------
VARIABLE ll_call
LongInit == ll_call = [done |-> FALSE]

\* A program does long long arithmetic on a and b.
LongCall ==
  /\ ~ll_call.done
  /\ \E a \in LlValues, b \in LlValues : ll_call' = [done |-> TRUE, a |-> a, b |-> b]
LongNext == LongCall

DividesAs(a, b, x) == a = x.q * b + x.r /\ x.r < b
TruncatesAs(a, b, q, r) ==
  /\ (q * b + r - a) % LongSize = 0
  /\ (r # 0 => ((r < 0) <=> (a < 0))) /\ r * r < b * b

\* Knuth's algorithm D as __qdivrem has it divides: for every dividend and
\* divisor the quotient and remainder fit, the estimate of a digit that is one
\* too large included; __divdi3 and __moddi3 truncate towards zero.
LongDivides ==
  (ll_call.done /\ ll_call.b # 0) =>
    /\ DividesAs(ll_call.a, ll_call.b, __qdivrem(ll_call.a, ll_call.b))
    /\ TruncatesAs(Signed(ll_call.a, LongSize), Signed(ll_call.b, LongSize),
                   Signed(__divdi3(ll_call.a, ll_call.b), LongSize),
                   Signed(__moddi3(ll_call.a, ll_call.b), LongSize))

\* The product, sum, difference and comparison put together from half-width
\* pieces are those of the whole values, whatever carries between the words.
LongMultiplies ==
  ll_call.done =>
    LET a == ll_call.a
        b == ll_call.b
        Order(x, y) == IF x < y THEN 0 ELSE IF x > y THEN 2 ELSE 1 IN
    /\ __muldi3(a, b) = (a * b) % LongSize
    /\ __adddi3(a, b) = (a + b) % LongSize /\ __subdi3(a, b) = (a - b) % LongSize
    /\ __negdi2(a) = Neg(a)
    /\ __ucmpdi2(a, b) = Order(a, b)
    /\ __cmpdi2(a, b) = Order(Signed(a, LongSize), Signed(b, LongSize))

\* Shifts by every amount below the width, those of a whole word or more
\* included, shift the two words as one number.
LongShifts ==
  ll_call.done =>
    LET a == ll_call.a
        s == ll_call.b % (2 * INT_BITS) IN
    /\ __ashldi3(a, s) = (a * 2^s) % LongSize
    /\ __lshrdi3(a, s) = a \div 2^s
    /\ Signed(__ashrdi3(a, s), LongSize) = Signed(a, LongSize) \div 2^s

\* The 64-bit operations put together from 32-bit ones are those of the
\* integers, modulo the width.
ArithmeticExact == LongDivides /\ LongMultiplies /\ LongShifts
=============================================================================

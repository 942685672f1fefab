---------------------------- MODULE ProofLemmas ----------------------------
(***************************************************************************)
(* What the proofs of several components need.  Arithmetic modulo m, for   *)
(* machine words, halves of words and alignments: the provers know of      *)
(* x % m that it is the remainder of a division, and no more; two numbers  *)
(* are congruent here when their remainders are equal.  The least-number   *)
(* principle, which stands in for induction.  Then lists: the functions of *)
(* Lists, and what joining, inserting, selecting and mapping make of a     *)
(* list.                                                                   *)
(***************************************************************************)
EXTENDS Lists, SequencesExt, SequenceTheorems, WellFoundedInduction, TLAPS

\* A remainder is a natural number below the modulus.
LEMMA ModRange ==
  ASSUME NEW x \in Int, NEW m \in Nat \ {0}
  PROVE  x % m \in 0 .. m - 1
BY SMT

LEMMA DivMod ==
  ASSUME NEW x \in Int, NEW m \in Nat \ {0}
  PROVE  x \div m \in Int /\ x = (x \div m) * m + (x % m)
BY SMT

LEMMA PositiveMultiple ==
  ASSUME NEW d \in Int, NEW m \in Nat \ {0}, d >= 1
  PROVE  d * m >= m
BY SMT

\* Quotient and remainder are unique.
LEMMA RemainderUnique ==
  ASSUME NEW m \in Nat \ {0}, NEW q \in Int, NEW p \in Int,
         NEW r \in 0 .. m - 1, NEW s \in 0 .. m - 1, q * m + r = p * m + s
  PROVE  r = s
<1>1. (q - p) * m = s - r
      OBVIOUS
<1>2. CASE q - p >= 1
      BY <1>1, <1>2, PositiveMultiple
<1>3. CASE p - q >= 1
  <2>1. (p - q) * m = r - s
        BY <1>1
  <2> QED
      BY <1>3, <2>1, PositiveMultiple
<1>4. CASE p = q
      BY <1>4
<1> QED
    BY <1>2, <1>3, <1>4

\* Numbers that differ by a multiple of the modulus are congruent.
LEMMA ModShift ==
  ASSUME NEW x \in Int, NEW y \in Int, NEW q \in Int, NEW m \in Nat \ {0}, x = y + q * m
  PROVE  x % m = y % m
<1> DEFINE a == x \div m
           b == y \div m
<1>1. a \in Int /\ x = a * m + (x % m) /\ x % m \in 0 .. m - 1
      BY DivMod, ModRange
<1>2. b \in Int /\ y = b * m + (y % m) /\ y % m \in 0 .. m - 1
      BY DivMod, ModRange
<1> HIDE DEF a, b
<1>3. b + q \in Int /\ (b + q) * m + (y % m) = a * m + (x % m)
      BY <1>1, <1>2
<1> QED
  <2> DEFINE c == b + q
             r == x % m
             s == y % m
  <2>1. c \in Int /\ r \in 0 .. m - 1 /\ s \in 0 .. m - 1 /\ c * m + s = a * m + r
        BY <1>1, <1>2, <1>3
  <2> HIDE DEF c, r, s
  <2>2. r = s
        BY <1>1, <2>1, RemainderUnique
  <2> QED
      BY <2>2 DEF r, s

\* Congruent numbers differ by a multiple of the modulus.
LEMMA ModDifference ==
  ASSUME NEW x \in Int, NEW y \in Int, NEW m \in Nat \ {0}, x % m = y % m
  PROVE  \E q \in Int : x = y + q * m
<1> DEFINE a == x \div m
           b == y \div m
<1>1. a \in Int /\ x = a * m + (x % m)
      BY DivMod
<1>2. b \in Int /\ y = b * m + (y % m)
      BY DivMod
<1> HIDE DEF a, b
<1>3. a - b \in Int /\ x = y + (a - b) * m
      BY <1>1, <1>2
<1> QED
    BY <1>3

\* A number below the modulus is its own remainder.
LEMMA ModSmall ==
  ASSUME NEW m \in Nat \ {0}, NEW x \in 0 .. m - 1
  PROVE  x % m = x
<1>1. x % m \in 0 .. m - 1 /\ x \div m \in Int /\ x = (x \div m) * m + (x % m)
      BY ModRange, DivMod
<1>2. 0 * m + x = (x \div m) * m + (x % m)
      BY <1>1
<1> QED
    BY <1>1, <1>2, RemainderUnique

\* Congruent numbers below the modulus are equal.
LEMMA ModEqual ==
  ASSUME NEW m \in Nat \ {0}, NEW x \in 0 .. m - 1, NEW y \in 0 .. m - 1, x % m = y % m
  PROVE  x = y
BY ModSmall

LEMMA ModIdempotent ==
  ASSUME NEW x \in Int, NEW m \in Nat \ {0}
  PROVE  (x % m) % m = x % m
BY ModRange, ModSmall

Congruent(x, y, m) == \E q \in Int : x = y + q * m

LEMMA CongruentMod ==
  ASSUME NEW x \in Int, NEW y \in Int, NEW m \in Nat \ {0}
  PROVE  Congruent(x, y, m) <=> x % m = y % m
<1>1. ASSUME Congruent(x, y, m)
      PROVE  x % m = y % m
  <2>1. PICK q \in Int : x = y + q * m
        BY <1>1 DEF Congruent
  <2> QED
      BY <2>1, ModShift, ZenonT(40)
<1>2. ASSUME x % m = y % m
      PROVE  Congruent(x, y, m)
      BY <1>2, ModDifference DEF Congruent
<1> QED
    BY <1>1, <1>2

\* Congruence is kept by sums and differences.
LEMMA ModAdd ==
  \A m \in Nat \ {0} : \A x, y, z, w \in Int :
     x % m = y % m /\ z % m = w % m => (x + z) % m = (y + w) % m
<1> TAKE m \in Nat \ {0}
<1> TAKE x, y, z, w \in Int
<1> HAVE x % m = y % m /\ z % m = w % m
<1>1. PICK q \in Int : x = y + q * m
      BY ModDifference
<1>2. PICK p \in Int : z = w + p * m
      BY ModDifference
<1>3. x + z = (y + w) + (q + p) * m /\ q + p \in Int
      BY <1>1, <1>2
<1>4. Congruent(x + z, y + w, m)
      BY <1>3 DEF Congruent
<1>5. x + z \in Int /\ y + w \in Int
      OBVIOUS
<1> QED
    BY <1>4, <1>5, CongruentMod

LEMMA ModSubtract ==
  \A m \in Nat \ {0} : \A x, y, z, w \in Int :
     x % m = y % m /\ z % m = w % m => (x - z) % m = (y - w) % m
<1> TAKE m \in Nat \ {0}
<1> TAKE x, y, z, w \in Int
<1> HAVE x % m = y % m /\ z % m = w % m
<1>1. PICK q \in Int : x = y + q * m
      BY ModDifference
<1>2. PICK p \in Int : z = w + p * m
      BY ModDifference
<1>3. x - z = (y - w) + (q - p) * m /\ q - p \in Int
      BY <1>1, <1>2
<1>4. Congruent(x - z, y - w, m)
      BY <1>3 DEF Congruent
<1>5. x - z \in Int /\ y - w \in Int
      OBVIOUS
<1> QED
    BY <1>4, <1>5, CongruentMod

\* Congruence modulo a multiple of d is congruence modulo d.
LEMMA ModDivisor ==
  ASSUME NEW x \in Int, NEW y \in Int, NEW c \in Nat \ {0}, NEW d \in Nat \ {0}, x % (c * d) = y % (c * d)
  PROVE  x % d = y % d
<1>1. c * d \in Nat \ {0}
      BY SMT
<1>2. PICK q \in Int : x = y + q * (c * d)
      BY <1>1, ModDifference
<1> DEFINE p == q * c
<1>3. x = y + p * d /\ p \in Int
      BY <1>2
<1> HIDE DEF p
<1>4. \A n \in Int : x = y + n * d => x % d = y % d
      BY ModShift, ZenonT(40)
<1> QED
    BY <1>3, <1>4, Zenon

\* A remainder keeps the residues of the divisors of its modulus.
LEMMA ModOfMod ==
  ASSUME NEW x \in Int, NEW c \in Nat \ {0}, NEW d \in Nat \ {0}
  PROVE  (x % (c * d)) % d = x % d
<1>1. c * d \in Nat \ {0}
  <2>1. c * d >= d
        BY PositiveMultiple
  <2> QED
      BY <2>1
<1>2. x % (c * d) \in Int
      BY <1>1, ModRange
<1>3. (x % (c * d)) % (c * d) = x % (c * d)
      BY <1>1, ModIdempotent
<1> QED
    BY <1>2, <1>3, ModDivisor, Zenon

\* The same with one congruent operand.
LEMMA ModAddLeft ==
  \A m \in Nat \ {0} : \A x, y, z \in Int : x % m = y % m => (x + z) % m = (y + z) % m
<1> TAKE m \in Nat \ {0}
<1> TAKE x, y, z \in Int
<1> HAVE x % m = y % m
<1>1. PICK q \in Int : x = y + q * m
      BY ModDifference
<1>2. x + z = (y + z) + q * m /\ q \in Int
      BY <1>1
<1>3. Congruent(x + z, y + z, m)
      BY <1>2 DEF Congruent
<1>4. x + z \in Int /\ y + z \in Int
      OBVIOUS
<1> QED
    BY <1>3, <1>4, CongruentMod

LEMMA ModAddRight ==
  \A m \in Nat \ {0} : \A x, y, z \in Int : x % m = y % m => (z + x) % m = (z + y) % m
<1> TAKE m \in Nat \ {0}
<1> TAKE x, y, z \in Int
<1> HAVE x % m = y % m
<1>1. PICK q \in Int : x = y + q * m
      BY ModDifference
<1>2. z + x = (z + y) + q * m /\ q \in Int
      BY <1>1
<1>3. Congruent(z + x, z + y, m)
      BY <1>2 DEF Congruent
<1>4. z + x \in Int /\ z + y \in Int
      OBVIOUS
<1> QED
    BY <1>3, <1>4, CongruentMod

LEMMA ModSubtractLeft ==
  \A m \in Nat \ {0} : \A x, y, z \in Int : x % m = y % m => (x - z) % m = (y - z) % m
<1> TAKE m \in Nat \ {0}
<1> TAKE x, y, z \in Int
<1> HAVE x % m = y % m
<1>1. PICK q \in Int : x = y + q * m
      BY ModDifference
<1>2. x - z = (y - z) + q * m /\ q \in Int
      BY <1>1
<1>3. Congruent(x - z, y - z, m)
      BY <1>2 DEF Congruent
<1>4. x - z \in Int /\ y - z \in Int
      OBVIOUS
<1> QED
    BY <1>3, <1>4, CongruentMod

LEMMA ModSubtractRight ==
  \A m \in Nat \ {0} : \A x, y, z \in Int : x % m = y % m => (z - x) % m = (z - y) % m
<1> TAKE m \in Nat \ {0}
<1> TAKE x, y, z \in Int
<1> HAVE x % m = y % m
<1>1. PICK q \in Int : x = y + q * m
      BY ModDifference
<1>2. z - x = (z - y) + (0 - q) * m /\ (0 - q) \in Int
      BY <1>1
<1>3. Congruent(z - x, z - y, m)
      BY <1>2 DEF Congruent
<1>4. z - x \in Int /\ z - y \in Int
      OBVIOUS
<1> QED
    BY <1>3, <1>4, CongruentMod

\* Taking the remainder of an operand changes neither a sum nor a difference.
LEMMA ModOperands ==
  \A m \in Nat \ {0} : \A x, y \in Int :
     /\ ((x % m) + y) % m = (x + y) % m
     /\ (x + (y % m)) % m = (x + y) % m
     /\ ((x % m) - y) % m = (x - y) % m
     /\ (x - (y % m)) % m = (x - y) % m
<1> TAKE m \in Nat \ {0}
<1> TAKE x, y \in Int
<1>1. x % m \in Int /\ y % m \in Int
      BY ModRange
<1>2. (x % m) % m = x % m
      BY ModIdempotent
<1>3. (y % m) % m = y % m
      BY ModIdempotent
<1>4. ((x % m) + y) % m = (x + y) % m
      BY <1>1, <1>2, ModAddLeft, Zenon
<1>5. (x + (y % m)) % m = (x + y) % m
      BY <1>1, <1>3, ModAddRight, ZenonT(40)
<1>6. ((x % m) - y) % m = (x - y) % m
      BY <1>1, <1>2, ModSubtractLeft, Zenon
<1>7. (x - (y % m)) % m = (x - y) % m
      BY <1>1, <1>3, ModSubtractRight, ZenonT(40)
<1> QED
    BY <1>4, <1>5, <1>6, <1>7

\* x - (x % d) is the multiple of d below x, and congruent to it modulo d.
LEMMA ModFloor ==
  ASSUME NEW x \in Int, NEW d \in Nat \ {0}
  PROVE  x - (x % d) \in Int /\ (x - (x % d)) % d = 0
<1>1. PICK q, y \in Int : q = x \div d /\ y = x - (x % d)
  <2>1. x \div d \in Int /\ x % d \in 0 .. d - 1
        BY ModRange, DivMod
  <2> QED
      BY <2>1
<1>2. y \in Int /\ 0 \in Int /\ q \in Int /\ y = 0 + q * d
      BY <1>1, DivMod
<1>3. y % d = 0 % d
      BY <1>2, ModShift, ZenonT(40)
<1> QED
    BY <1>1, <1>3, ModSmall

\* Rounding up to a multiple of a: the result is aligned and less than a above.
LEMMA RoundedUp ==
  ASSUME NEW x \in Int, NEW a \in Nat \ {0}
  PROVE  /\ x + ((0 - x) % a) \in Int
         /\ x + ((0 - x) % a) >= x /\ x + ((0 - x) % a) < x + a
         /\ (x + ((0 - x) % a)) % a = 0
<1> DEFINE r == (0 - x) % a
           y == x + r
<1>1. r \in 0 .. a - 1
      BY ModRange
<1>2. y % a = (x + (0 - x)) % a
  <2>1. \A z \in Int : (x + (z % a)) % a = (x + z) % a
        BY ModOperands
  <2>2. 0 - x \in Int
        OBVIOUS
  <2> QED
      BY <2>1, <2>2
<1>3. y % a = 0
  <2>1. x + (0 - x) = 0 /\ 0 % a = 0
        BY ModSmall
  <2> QED
      BY <1>2, <2>1
<1> QED
    BY <1>1, <1>3

\* A nonempty set of natural numbers has a least element.
LEMMA LeastNatural ==
  ASSUME NEW T \in SUBSET Nat, T # {}
  PROVE  \E m \in T : \A k \in T : m <= k
<1>1. PICK m \in T : \A k \in T : <<k, m>> \notin OpToRel(<, Nat)
      BY WFMin, NatLessThanWellFounded, Zenon
<1>2. ASSUME NEW k \in T, k < m
      PROVE  FALSE
  <2>1. <<k, m>> \in Nat \X Nat /\ <<k, m>>[1] < <<k, m>>[2]
        BY <1>2
  <2>2. <<k, m>> \in OpToRel(<, Nat)
        BY <2>1, Zenon DEF OpToRel
  <2> QED
      BY <1>1, <2>2
<1> QED
    BY <1>2

----------------------------------------------------------------------------
(* Sums, selections and joins: the functions of Lists.                      *)

\* A function computed place by place, as Select, SumOf and the like are.
Loops(N, S, base, step) ==
  \E h \in [0 .. N -> S] : h[0] = base /\ \A n \in 1 .. N : h[n] = step[<<n, h[n - 1]>>]

\* There is such a function.
LEMMA LoopExists ==
  ASSUME NEW N \in Nat, NEW S, NEW base \in S, NEW step \in [(1 .. N) \X S -> S]
  PROVE  Loops(N, S, base, step)
<1> DEFINE Runs(k) == \E h \in [0 .. k -> S] : h[0] = base /\ \A n \in 1 .. k : h[n] = step[<<n, h[n - 1]>>]
           T == {k \in Nat : k <= N /\ ~ Runs(k)}
<1>1. Runs(0)
  <2> DEFINE g == [n \in 0 .. 0 |-> base]
  <2>1. g \in [0 .. 0 -> S] /\ g[0] = base /\ \A n \in 1 .. 0 : FALSE
        OBVIOUS
  <2> HIDE DEF g
  <2> QED
      BY <2>1
<1>2. ASSUME NEW k \in Nat, k < N, Runs(k) PROVE Runs(k + 1)
  <2>1. PICK h \in [0 .. k -> S] : h[0] = base /\ \A n \in 1 .. k : h[n] = step[<<n, h[n - 1]>>]
        BY <1>2
  <2> DEFINE g == [n \in 0 .. k + 1 |-> IF n = k + 1 THEN step[<<k + 1, h[k]>>] ELSE h[n]]
  <2>2. step[<<k + 1, h[k]>>] \in S
    <3>1. <<k + 1, h[k]>> \in (1 .. N) \X S
          BY <1>2, <2>1
    <3> QED
        BY <3>1
  <2>3. g \in [0 .. k + 1 -> S] /\ g[0] = base /\ g[k + 1] = step[<<k + 1, h[k]>>] /\ \A n \in 0 .. k : g[n] = h[n]
        BY <2>1, <2>2
  <2>4. ASSUME NEW n \in 1 .. k + 1 PROVE g[n] = step[<<n, g[n - 1]>>]
    <3>1. CASE n = k + 1
      <4>1. n - 1 = k /\ k \in 0 .. k
            BY <3>1
      <4> QED
          BY <2>3, <3>1, <4>1
    <3>2. CASE n # k + 1
      <4>1. n \in 1 .. k /\ n - 1 \in 0 .. k /\ n \in 0 .. k
            BY <3>2
      <4> QED
          BY <2>1, <2>3, <4>1
    <3> QED
        BY <3>1, <3>2
  <2> HIDE DEF g
  <2> QED
      BY <2>3, <2>4
<1>3. SUFFICES ASSUME ~ Runs(N) PROVE FALSE
      BY DEF Loops
<1> HIDE DEF Runs
<1>4. PICK m \in T : \A k \in T : m <= k
  <2>1. T \in SUBSET Nat /\ N \in T
        BY <1>3
  <2> QED
      BY <2>1, LeastNatural
<1>5. m # 0 /\ m - 1 \in Nat /\ m - 1 < N /\ m - 1 \notin T
      BY <1>1, <1>4
<1>6. Runs(m - 1)
      BY <1>5
<1>7. Runs(m)
  <2>1. Runs((m - 1) + 1)
        BY <1>2, <1>5, <1>6
  <2> QED
      BY <2>1, <1>4
<1> QED
    BY <1>4, <1>7

\* Its values are where each step leaves them.
LEMMA LoopTyped ==
  ASSUME NEW N \in Nat, NEW S, NEW base \in S, NEW step \in [(1 .. N) \X S -> S],
         NEW h, h[0] = base, \A n \in 1 .. N : h[n] = step[<<n, h[n - 1]>>]
  PROVE  \A n \in 0 .. N : h[n] \in S
<1> DEFINE T == {n \in 0 .. N : h[n] \notin S}
<1> SUFFICES ASSUME NEW x \in T PROVE FALSE
    OBVIOUS
<1>1. PICK m \in T : \A k \in T : m <= k
  <2>1. T \in SUBSET Nat /\ x \in T
        OBVIOUS
  <2> QED
      BY <2>1, LeastNatural
<1>2. m \in 1 .. N /\ m - 1 \in 0 .. N /\ m - 1 \notin T
      BY <1>1
<1>3. h[m - 1] \in S /\ <<m, h[m - 1]>> \in (1 .. N) \X S
      BY <1>2
<1>4. step[<<m, h[m - 1]>>] \in S
      BY <1>3
<1> QED
    BY <1>1, <1>2, <1>4

\* The sum of a prefix, up to each place.
LEMMA SumFacts ==
  ASSUME NEW s, Len(s) \in Nat, \A n \in 1 .. Len(s) : s[n] \in Nat
  PROVE  \E h \in [0 .. Len(s) -> Nat] :
           h[0] = 0 /\ (\A n \in 1 .. Len(s) : h[n] = h[n - 1] + s[n]) /\ SumOf(s) = h[Len(s)]
<1> DEFINE N == Len(s)
           Is(h) == h = [n \in 0 .. N |-> IF n = 0 THEN 0 ELSE h[n - 1] + s[n]]
           step == [p \in (1 .. N) \X Nat |-> p[2] + s[p[1]]]
           c == CHOOSE h : Is(h)
<1>1. step \in [(1 .. N) \X Nat -> Nat] /\ \A n \in 1 .. N : \A x \in Nat : step[<<n, x>>] = x + s[n]
      OBVIOUS
<1>2. PICK h \in [0 .. N -> Nat] : h[0] = 0 /\ \A n \in 1 .. N : h[n] = step[<<n, h[n - 1]>>]
  <2>1. N \in Nat /\ 0 \in Nat
        OBVIOUS
  <2> HIDE DEF step, N
  <2>2. Loops(N, Nat, 0, step)
        BY <1>1, <2>1, LoopExists
  <2> QED
      BY <2>2 DEF Loops
<1>3. Is(h)
  <2>1. ASSUME NEW n \in 0 .. N PROVE h[n] = IF n = 0 THEN 0 ELSE h[n - 1] + s[n]
    <3>1. CASE n = 0
          BY <1>2, <3>1
    <3>2. CASE n # 0
      <4>1. n \in 1 .. N /\ n - 1 \in 0 .. N
            BY <3>2
      <4> QED
          BY <1>1, <1>2, <4>1
    <3> QED
        BY <3>1, <3>2
  <2> HIDE DEF step
  <2> QED
      BY <1>2, <2>1
<1>4. Is(c)
  <2> HIDE DEF Is
  <2> QED
      BY <1>3
<1>5. c[0] = 0 /\ DOMAIN c = 0 .. N /\ \A n \in 1 .. N : c[n] = c[n - 1] + s[n]
  <2> HIDE DEF c
  <2>1. DOMAIN c = 0 .. N /\ \A n \in 0 .. N : c[n] = IF n = 0 THEN 0 ELSE c[n - 1] + s[n]
        BY <1>4
  <2> QED
      BY <2>1
<1>6. \A n \in 0 .. N : c[n] \in Nat
  <2> DEFINE T == {n \in 0 .. N : c[n] \notin Nat}
  <2> HIDE DEF c
  <2> SUFFICES ASSUME NEW x \in T PROVE FALSE
      OBVIOUS
  <2>1. PICK m \in T : \A k \in T : m <= k
    <3>1. T \in SUBSET Nat /\ x \in T
          OBVIOUS
    <3> QED
        BY <3>1, LeastNatural
  <2>2. m \in 1 .. N /\ m - 1 \in 0 .. N /\ m - 1 \notin T
        BY <2>1, <1>5
  <2> QED
      BY <2>1, <2>2, <1>5
<1>7. SumOf(s) = c[N]
      BY DEF SumOf
<1>8. c = [n \in 0 .. N |-> c[n]]
  <2> HIDE DEF c
  <2> QED
      BY <1>4
<1> HIDE DEF c
<1>9. c \in [0 .. N -> Nat]
      BY <1>6, <1>8
<1> QED
    BY <1>5, <1>7, <1>9

\* The join has the fields of both functions.
LEMMA JoinFacts ==
  ASSUME NEW f, NEW g
  PROVE  /\ DOMAIN (f ++ g) = DOMAIN f \cup DOMAIN g
         /\ \A x \in DOMAIN f : (f ++ g)[x] = f[x]
         /\ \A x \in DOMAIN g : x \notin DOMAIN f => (f ++ g)[x] = g[x]
BY DEF ++

\* The elements at the indices, and selecting them one by one.
Chosen(s, I) == {s[n] : n \in I \cap (1 .. Len(s))}
Selects(s, I, c) ==
  /\ c[0] = <<>> /\ \A n \in 1 .. Len(s) : c[n] = IF n \in I THEN Append(c[n - 1], s[n]) ELSE c[n - 1]
  /\ \A n \in 0 .. Len(s) : c[n] \in Seq(Chosen(s, I))

\* What is selected are the elements at the places, in their order.
LEMMA SelectRuns ==
  ASSUME NEW s, Len(s) \in Nat, NEW I
  PROVE  \E c : Select(s, I) = c[Len(s)] /\ Selects(s, I, c)
<1> DEFINE N == Len(s)
           K == Chosen(s, I)
           S == Seq(K)
           Is(h) == h = [n \in 0 .. N |-> IF n = 0 THEN <<>> ELSE IF n \in I THEN Append(h[n - 1], s[n]) ELSE h[n - 1]]
           step == [p \in (1 .. N) \X S |-> IF p[1] \in I THEN Append(p[2], s[p[1]]) ELSE p[2]]
           c == CHOOSE h : Is(h)
<1>1. step \in [(1 .. N) \X S -> S]
  <2>1. ASSUME NEW p \in (1 .. N) \X S PROVE (IF p[1] \in I THEN Append(p[2], s[p[1]]) ELSE p[2]) \in S
    <3>1. p[2] \in Seq(K)
          OBVIOUS
    <3>2. CASE p[1] \in I
      <4>1. s[p[1]] \in K
            BY <3>2 DEF Chosen
      <4> HIDE DEF K
      <4>2. Append(p[2], s[p[1]]) \in Seq(K)
            BY <3>1, <4>1, AppendProperties
      <4> QED
          BY <3>2, <4>2
    <3> QED
        BY <3>1, <3>2
  <2> HIDE DEF S
  <2> QED
      BY <2>1
<1>2. \A n \in 1 .. N : \A x \in S : step[<<n, x>>] = IF n \in I THEN Append(x, s[n]) ELSE x
  <2> HIDE DEF S
  <2> QED
      OBVIOUS
<1>3. <<>> \in S /\ N \in Nat
      OBVIOUS
<1>4. Loops(N, S, <<>>, step)
  <2> HIDE DEF step, N, S
  <2> QED
      BY <1>1, <1>3, LoopExists
<1>5. PICK h \in [0 .. N -> S] : h[0] = <<>> /\ \A n \in 1 .. N : h[n] = step[<<n, h[n - 1]>>]
  <2> HIDE DEF step, S
  <2> QED
      BY <1>4 DEF Loops
<1>6. Is(h)
  <2> HIDE DEF step, S
  <2>1. ASSUME NEW n \in 0 .. N
        PROVE  h[n] = IF n = 0 THEN <<>> ELSE IF n \in I THEN Append(h[n - 1], s[n]) ELSE h[n - 1]
    <3>1. CASE n = 0
          BY <1>5, <3>1
    <3>2. CASE n # 0
      <4>1. n \in 1 .. N /\ n - 1 \in 0 .. N
            BY <3>2
      <4>2. h[n - 1] \in S
            BY <1>5, <4>1
      <4> QED
          BY <1>2, <1>5, <4>1, <4>2, <3>2
    <3> QED
        BY <3>1, <3>2
  <2>2. h = [n \in 0 .. N |-> h[n]]
        BY <1>5
  <2> QED
      BY <2>1, <2>2
<1>7. Is(c)
  <2> HIDE DEF Is
  <2> QED
      BY <1>6
<1>8. Select(s, I) = c[N]
      BY DEF Select
<1>9. c[0] = <<>> /\ \A n \in 1 .. N : c[n] = IF n \in I THEN Append(c[n - 1], s[n]) ELSE c[n - 1]
  <2> HIDE DEF c
  <2>1. \A n \in 0 .. N : c[n] = IF n = 0 THEN <<>> ELSE IF n \in I THEN Append(c[n - 1], s[n]) ELSE c[n - 1]
        BY <1>7
  <2> QED
      BY <2>1
<1> HIDE DEF c, Is
<1>10. \A n \in 0 .. N : c[n] \in S
  <2> DEFINE T == {n \in 0 .. N : c[n] \notin S}
  <2> HIDE DEF step, S
  <2> SUFFICES ASSUME NEW x \in T PROVE FALSE
      OBVIOUS
  <2>1. PICK m \in T : \A k \in T : m <= k
    <3>1. T \in SUBSET Nat /\ x \in T
          OBVIOUS
    <3> QED
        BY <3>1, LeastNatural
  <2>2. m \in 1 .. N /\ m - 1 \in 0 .. N /\ m - 1 \notin T
        BY <2>1, <1>3, <1>9
  <2>3. c[m - 1] \in S
        BY <2>2
  <2>4. step[<<m, c[m - 1]>>] \in S
    <3>1. <<m, c[m - 1]>> \in (1 .. N) \X S
          BY <2>2, <2>3
    <3> QED
        BY <3>1, <1>1
  <2> QED
      BY <2>1, <2>2, <2>3, <2>4, <1>2, <1>9
<1>11. Selects(s, I, c)
       BY <1>9, <1>10 DEF Selects
<1> QED
    BY <1>8, <1>11

\* What it selects are elements at those indices.
LEMMA SelectFacts ==
  ASSUME NEW s, Len(s) \in Nat, NEW I
  PROVE  Select(s, I) \in Seq({s[n] : n \in I \cap (1 .. Len(s))})
<1>1. Len(s) \in 0 .. Len(s)
      OBVIOUS
<1> QED
    BY <1>1, SelectRuns DEF Selects, Chosen

\* The parts of a sequence.
LEMMA SelectTyped ==
  ASSUME NEW S, NEW s \in Seq(S), NEW I
  PROVE  Select(s, I) \in Seq(S)
<1>1. Len(s) \in Nat /\ \A n \in 1 .. Len(s) : s[n] \in S
      OBVIOUS
<1> DEFINE K == {s[n] : n \in I \cap (1 .. Len(s))}
<1>2. K \subseteq S
      BY <1>1
<1>3. Select(s, I) \in Seq(K)
      BY <1>1, SelectFacts
<1> HIDE DEF K
<1> QED
    BY <1>2, <1>3, SeqMonotonic

\* Sequences are joined one by one.
Joins(s, c) == \A n \in 1 .. Len(s) : c[n] = IF n = 1 THEN s[n] ELSE c[n - 1] \o s[n]
LEMMA FlattenRuns ==
  ASSUME NEW S, NEW s \in Seq(Seq(S)), Len(s) # 0
  PROVE  \E c : FlattenSeq(s) = c[Len(s)] /\ Joins(s, c) /\ \A n \in 1 .. Len(s) : c[n] \in Seq(S)
<1> DEFINE N == Len(s)
           R == Seq(S)
           Is(h) == h = [n \in 1 .. N |-> IF n = 1 THEN s[n] ELSE h[n - 1] \o s[n]]
           step == [p \in (1 .. N) \X R |-> p[2] \o s[p[1]]]
           c == CHOOSE h : Is(h)
<1>0. N \in Nat /\ \A n \in 1 .. N : s[n] \in R
      OBVIOUS
<1>1. step \in [(1 .. N) \X R -> R]
  <2>1. ASSUME NEW p \in (1 .. N) \X R PROVE p[2] \o s[p[1]] \in R
    <3>1. p[2] \in R /\ s[p[1]] \in R
          BY <1>0
    <3> QED
        BY <3>1, ConcatProperties
  <2> HIDE DEF R
  <2> QED
      BY <2>1
<1>2. \A n \in 1 .. N : \A x \in R : step[<<n, x>>] = x \o s[n]
  <2> HIDE DEF R
  <2> QED
      OBVIOUS
<1>3. N # 0
      OBVIOUS
<1>4. <<>> \in R /\ N \in Nat
      OBVIOUS
<1>5. Loops(N, R, <<>>, step)
  <2> HIDE DEF step, N, R
  <2> QED
      BY <1>1, <1>4, LoopExists
<1>6. PICK h \in [0 .. N -> R] : h[0] = <<>> /\ \A n \in 1 .. N : h[n] = step[<<n, h[n - 1]>>]
  <2> HIDE DEF step, R
  <2> QED
      BY <1>5 DEF Loops
<1> DEFINE g == [n \in 1 .. N |-> h[n]]
<1>7. \A n \in 1 .. N : h[n] \in R /\ h[n - 1] \in R /\ h[n] = h[n - 1] \o s[n]
  <2> HIDE DEF step, R
  <2>1. ASSUME NEW n \in 1 .. N PROVE n - 1 \in 0 .. N /\ n \in 0 .. N
        BY <1>4
  <2> QED
      BY <2>1, <1>6, <1>2
<1>8. Is(g)
  <2>1. ASSUME NEW n \in 1 .. N PROVE g[n] = IF n = 1 THEN s[n] ELSE g[n - 1] \o s[n]
    <3>1. CASE n = 1
      <4>1. h[1] = <<>> \o s[1]
        <5>1. 1 \in 1 .. N /\ 1 - 1 = 0
              BY <3>1
        <5>2. h[1] = h[1 - 1] \o s[1]
              BY <1>7, <5>1
        <5> QED
            BY <1>6, <5>1, <5>2
      <4>2. <<>> \o s[1] = s[1]
            BY <1>0, <3>1, ConcatEmptySeq
      <4> QED
          BY <4>1, <4>2, <3>1
    <3>2. CASE n # 1
      <4>1. n - 1 \in 1 .. N
            BY <1>4, <3>2
      <4> HIDE DEF R
      <4> QED
          BY <1>7, <3>2, <4>1
    <3> QED
        BY <3>1, <3>2
  <2> HIDE DEF R
  <2> QED
      BY <2>1
<1>9. Is(c)
  <2> HIDE DEF Is
  <2> QED
      BY <1>8
<1>10. FlattenSeq(s) = c[N]
      BY <1>3 DEF FlattenSeq
<1>11. \A n \in 1 .. N : c[n] = IF n = 1 THEN s[n] ELSE c[n - 1] \o s[n]
  <2> HIDE DEF c
  <2> QED
      BY <1>9
<1> HIDE DEF c, Is
<1>12. \A n \in 1 .. N : c[n] \in R
  <2> DEFINE T == {n \in 1 .. N : c[n] \notin R}
  <2> HIDE DEF R
  <2> SUFFICES ASSUME NEW x \in T PROVE FALSE
      OBVIOUS
  <2>1. PICK m \in T : \A k \in T : m <= k
    <3>1. T \in SUBSET Nat /\ x \in T
          OBVIOUS
    <3> QED
        BY <3>1, LeastNatural
  <2>2. m # 1
        BY <2>1, <1>11, <1>0
  <2>3. m - 1 \in 1 .. N /\ m - 1 \notin T
        BY <2>1, <2>2
  <2>4. c[m - 1] \in R /\ s[m] \in R
        BY <2>1, <2>3, <1>0
  <2>5. c[m - 1] \o s[m] \in R
        BY <2>4, ConcatProperties DEF R
  <2> QED
      BY <2>1, <2>2, <2>5, <1>11
<1> QED
    BY <1>10, <1>11, <1>12 DEF Joins, R

\* All elements of a sequence of sequences, in order.
LEMMA FlattenTyped ==
  ASSUME NEW S, NEW s \in Seq(Seq(S))
  PROVE  FlattenSeq(s) \in Seq(S)
<1>1. CASE Len(s) = 0
  <2>1. FlattenSeq(s) = s
        BY <1>1 DEF FlattenSeq
  <2>2. s = <<>>
        BY <1>1, EmptySeq
  <2>3. <<>> \in Seq(S)
        BY EmptySeq
  <2> QED
      BY <2>1, <2>2, <2>3
<1>2. CASE Len(s) # 0
  <2>1. PICK c : FlattenSeq(s) = c[Len(s)] /\ \A n \in 1 .. Len(s) : c[n] \in Seq(S)
        BY <1>2, FlattenRuns
  <2>2. Len(s) \in 1 .. Len(s)
    <3>1. Len(s) \in Nat
          OBVIOUS
    <3> QED
        BY <1>2, <3>1
  <2> QED
      BY <2>1, <2>2
<1> QED
    BY <1>1, <1>2

----------------------------------------------------------------------------
(* Sequences.                                                               *)

\* A sequence of whatever.
IsList(s) == \E S : s \in Seq(S)

\* What the provers have to be told of a sequence.
LEMMA ListFacts ==
  ASSUME NEW s, IsList(s)
  PROVE  Len(s) \in Nat /\ DOMAIN s = 1 .. Len(s) /\ s = [n \in 1 .. Len(s) |-> s[n]]
<1>1. PICK S : s \in Seq(S)
      BY DEF IsList
<1> QED
    BY <1>1

\* A function of 1 .. n is a sequence of length n.
LEMMA FunctionList ==
  ASSUME NEW n \in Nat, NEW s, s = [k \in 1 .. n |-> s[k]]
  PROVE  IsList(s) /\ Len(s) = n
<1> DEFINE S == {s[k] : k \in 1 .. n}
<1>1. s \in [1 .. n -> S]
      OBVIOUS
<1>2. s \in Seq(S) /\ Len(s) = n
      BY <1>1
<1> QED
    BY <1>2 DEF IsList

\* The empty sequence is a list.
LEMMA EmptyList == IsList(<<>>) /\ Len(<<>>) = 0
<1>1. <<>> \in Seq({}) /\ Len(<<>>) = 0
      OBVIOUS
<1> QED
    BY <1>1 DEF IsList

\* Operators on sequences, of sequences that have no type.
LEMMA ListAppend ==
  ASSUME NEW s, IsList(s), NEW x
  PROVE  /\ IsList(Append(s, x)) /\ Len(Append(s, x)) = Len(s) + 1
         /\ \A n \in 1 .. Len(s) : Append(s, x)[n] = s[n]
         /\ Append(s, x)[Len(s) + 1] = x
<1>1. PICK S : s \in Seq(S)
      BY DEF IsList
<1> DEFINE T == S \cup {x}
<1>2. s \in Seq(T) /\ x \in T
  <2>1. S \subseteq T
        OBVIOUS
  <2> QED
      BY <1>1, <2>1, SeqMonotonic
<1> HIDE DEF T
<1>3. Append(s, x) \in Seq(T)
      BY <1>2, AppendProperties
<1>4. IsList(Append(s, x))
      BY <1>3 DEF IsList
<1> QED
    BY <1>2, <1>4, AppendProperties

\* Two lists, one after the other.
LEMMA ListConcat ==
  ASSUME NEW s, IsList(s), NEW t, IsList(t)
  PROVE  /\ IsList(s \o t) /\ Len(s \o t) = Len(s) + Len(t)
         /\ \A n \in 1 .. Len(s) + Len(t) : (s \o t)[n] = IF n <= Len(s) THEN s[n] ELSE t[n - Len(s)]
<1>1. PICK S : s \in Seq(S)
      BY DEF IsList
<1>2. PICK T : t \in Seq(T)
      BY DEF IsList
<1> DEFINE U == S \cup T
<1>3. s \in Seq(U) /\ t \in Seq(U)
  <2>1. S \subseteq U /\ T \subseteq U
        OBVIOUS
  <2> HIDE DEF U
  <2> QED
      BY <1>1, <1>2, <2>1, SeqMonotonic
<1> HIDE DEF U
<1>4. s \o t \in Seq(U)
      BY <1>3, ConcatProperties
<1>5. IsList(s \o t)
      BY <1>4 DEF IsList
<1> QED
    BY <1>3, <1>5, ConcatProperties

\* Each element of the one has the place of an element of the others.
LEMMA ConcatElements ==
  ASSUME NEW s, IsList(s), NEW t, IsList(t), NEW n \in 1 .. Len(s \o t)
  PROVE  \/ n \in 1 .. Len(s) /\ (s \o t)[n] = s[n]
         \/ n - Len(s) \in 1 .. Len(t) /\ (s \o t)[n] = t[n - Len(s)]
<1>1. Len(s) \in Nat /\ Len(t) \in Nat
      BY ListFacts
<1>2. n \in 1 .. Len(s) + Len(t)
      BY ListConcat
<1> QED
    BY <1>1, <1>2, ListConcat

\* The list of one element.
LEMMA OneList == ASSUME NEW x PROVE IsList(<<x>>) /\ Len(<<x>>) = 1 /\ <<x>>[1] = x
<1>1. <<x>> \in Seq({x}) /\ Len(<<x>>) = 1
      OBVIOUS
<1> QED
    BY <1>1 DEF IsList

\* A part of a list.
LEMMA ListSub ==
  ASSUME NEW s, IsList(s), NEW a \in Int, NEW b \in Int
  PROVE  /\ IsList(SubSeq(s, a, b)) /\ Len(SubSeq(s, a, b)) = IF a <= b THEN b - a + 1 ELSE 0
         /\ \A n \in 1 .. Len(SubSeq(s, a, b)) : SubSeq(s, a, b)[n] = s[n + a - 1]
<1> DEFINE N == IF a <= b THEN b - a + 1 ELSE 0
<1>1. SubSeq(s, a, b) = [n \in 1 .. N |-> s[n + a - 1]]
  <2>1. SubSeq(s, a, b) = [n \in 1 .. 1 + b - a |-> s[n + a - 1]]
        BY DEF SubSeq
  <2>2. 1 .. 1 + b - a = 1 .. N
        OBVIOUS
  <2> QED
      BY <2>1, <2>2
<1>2. N \in Nat
      OBVIOUS
<1> HIDE DEF N
<1>3. SubSeq(s, a, b) = [n \in 1 .. N |-> SubSeq(s, a, b)[n]]
      BY <1>1
<1>4. IsList(SubSeq(s, a, b)) /\ Len(SubSeq(s, a, b)) = N
      BY <1>2, <1>3, FunctionList
<1>5. \A n \in 1 .. N : SubSeq(s, a, b)[n] = s[n + a - 1]
      BY <1>1
<1> QED
    BY <1>4, <1>5 DEF N

\* InsertAt moves what is behind.
LEMMA ListInsert ==
  ASSUME NEW s, IsList(s), NEW k \in 1 .. Len(s) + 1, NEW e
  PROVE  /\ IsList(InsertAt(s, k, e)) /\ Len(InsertAt(s, k, e)) = Len(s) + 1
         /\ \A n \in 1 .. Len(s) + 1 :
              InsertAt(s, k, e)[n] = IF n < k THEN s[n] ELSE IF n = k THEN e ELSE s[n - 1]
<1> DEFINE l == SubSeq(s, 1, k - 1)
           r == SubSeq(s, k, Len(s))
<1>1. Len(s) \in Nat
      BY ListFacts
<1>2. IsList(l) /\ Len(l) = k - 1 /\ \A n \in 1 .. k - 1 : l[n] = s[n]
  <2>1. 1 \in Int /\ k - 1 \in Int
        BY <1>1
  <2>2. Len(l) = k - 1 /\ \A n \in 1 .. Len(l) : l[n] = s[n + 1 - 1]
        BY <2>1, <1>1, ListSub
  <2> QED
      BY <2>1, <2>2, ListSub
<1>3. IsList(r) /\ Len(r) = Len(s) + 1 - k /\ \A n \in 1 .. Len(s) + 1 - k : r[n] = s[n + k - 1]
  <2>1. k \in Int /\ Len(s) \in Int
        BY <1>1
  <2>2. Len(r) = IF k <= Len(s) THEN Len(s) - k + 1 ELSE 0
        BY <2>1, ListSub
  <2>3. Len(r) = Len(s) + 1 - k
        BY <2>2, <1>1
  <2> QED
      BY <2>1, <2>3, ListSub
<1>4. InsertAt(s, k, e) = (l \o <<e>>) \o r
      BY DEF InsertAt
<1> HIDE DEF l, r
<1> DEFINE le == l \o <<e>>
<1>5. IsList(le) /\ Len(le) = k /\ \A n \in 1 .. k : le[n] = IF n < k THEN s[n] ELSE e
  <2>1. IsList(<<e>>) /\ Len(<<e>>) = 1 /\ <<e>>[1] = e
        BY OneList
  <2>2. IsList(le) /\ Len(le) = Len(l) + 1 /\ \A n \in 1 .. Len(l) + 1 : le[n] = IF n <= Len(l) THEN l[n] ELSE <<e>>[n - Len(l)]
        BY <1>2, <2>1, ListConcat
  <2>3. Len(le) = k
        BY <2>2, <1>1, <1>2
  <2>4. ASSUME NEW n \in 1 .. k PROVE le[n] = IF n < k THEN s[n] ELSE e
    <3>1. n \in 1 .. Len(l) + 1
          BY <1>2, <1>1
    <3>2. CASE n < k
      <4>1. n <= Len(l) /\ n \in 1 .. k - 1
            BY <3>2, <1>2, <1>1
      <4> QED
          BY <3>1, <4>1, <2>2, <1>2, <3>2
    <3>3. CASE ~ n < k
      <4>1. ~ n <= Len(l) /\ n - Len(l) = 1
            BY <3>3, <1>2, <1>1
      <4> QED
          BY <3>1, <4>1, <2>2, <2>1, <3>3
    <3> QED
        BY <3>2, <3>3
  <2> QED
      BY <2>2, <2>3, <2>4
<1> HIDE DEF le
<1>6. IsList(le \o r) /\ Len(le \o r) = Len(le) + Len(r)
      /\ \A n \in 1 .. Len(le) + Len(r) : (le \o r)[n] = IF n <= Len(le) THEN le[n] ELSE r[n - Len(le)]
      BY <1>3, <1>5, ListConcat
<1>7. Len(le) + Len(r) = Len(s) + 1
      BY <1>1, <1>3, <1>5
<1>8. ASSUME NEW n \in 1 .. Len(s) + 1
      PROVE  (le \o r)[n] = IF n < k THEN s[n] ELSE IF n = k THEN e ELSE s[n - 1]
  <2>1. (le \o r)[n] = IF n <= k THEN le[n] ELSE r[n - k]
        BY <1>5, <1>6, <1>7
  <2>2. CASE n <= k
    <3>1. n \in 1 .. k
          BY <2>2, <1>1
    <3> QED
        BY <3>1, <2>1, <2>2, <1>5
  <2>3. CASE ~ n <= k
    <3>1. n - k \in 1 .. Len(s) + 1 - k /\ (n - k) + k - 1 = n - 1 /\ ~ n < k /\ n # k
          BY <2>3, <1>1
    <3> QED
        BY <3>1, <2>1, <2>3, <1>3
  <2> QED
      BY <2>2, <2>3
<1> QED
    BY <1>4, <1>6, <1>7, <1>8 DEF le

\* What is selected from a list is a list.
LEMMA SelectList ==
  ASSUME NEW s, IsList(s), NEW I
  PROVE  /\ IsList(Select(s, I))
         /\ \A n \in DOMAIN Select(s, I) : \E m \in I \cap DOMAIN s : Select(s, I)[n] = s[m]
<1>1. Len(s) \in Nat /\ DOMAIN s = 1 .. Len(s)
      BY ListFacts
<1> DEFINE K == {s[n] : n \in I \cap (1 .. Len(s))}
<1>2. Select(s, I) \in Seq(K)
      BY <1>1, SelectFacts
<1>3. \A n \in DOMAIN Select(s, I) : Select(s, I)[n] \in K
  <2> HIDE DEF K
  <2> QED
      BY <1>2
<1>4. IsList(Select(s, I))
  <2> HIDE DEF K
  <2> QED
      BY <1>2 DEF IsList
<1> QED
    BY <1>1, <1>3, <1>4

\* Each of those indices has its place in what is selected, and each place one of them.
LEMMA SelectPlaces ==
  ASSUME NEW s, IsList(s), NEW I
  PROVE  \E p : /\ \A j \in I \cap DOMAIN s : p[j] \in DOMAIN Select(s, I) /\ Select(s, I)[p[j]] = s[j]
                /\ \A n \in DOMAIN Select(s, I) : \E j \in I \cap DOMAIN s : p[j] = n
<1> DEFINE N == Len(s)
           K == Chosen(s, I)
<1>1. N \in Nat /\ DOMAIN s = 1 .. N
      BY ListFacts
<1>2. PICK c : /\ Select(s, I) = c[N] /\ c[0] = <<>>
               /\ \A n \in 1 .. N : c[n] = IF n \in I THEN Append(c[n - 1], s[n]) ELSE c[n - 1]
               /\ \A n \in 0 .. N : c[n] \in Seq(K)
      BY <1>1, SelectRuns DEF Selects
<1> HIDE DEF K
<1> DEFINE Placed(k) == /\ \A j \in I \cap (1 .. k) : Len(c[j]) \in 1 .. Len(c[k]) /\ c[k][Len(c[j])] = s[j]
                        /\ \A n \in 1 .. Len(c[k]) : \E j \in I \cap (1 .. k) : Len(c[j]) = n
           T == {k \in 0 .. N : ~ Placed(k)}
<1>3. T = {}
  <2> SUFFICES ASSUME NEW x \in T PROVE FALSE
      OBVIOUS
  <2>1. PICK m \in T : \A k \in T : m <= k
    <3>1. T \in SUBSET Nat /\ x \in T
          BY <1>1
    <3> QED
        BY <3>1, LeastNatural
  <2>2. Placed(0)
    <3>1. Len(c[0]) = 0
          BY <1>2
    <3> QED
        BY <3>1
  <2>3. m \in 1 .. N /\ m - 1 \in 0 .. N /\ m - 1 \notin T
    <3> HIDE DEF Placed
    <3>1. m # 0
          BY <2>1, <2>2
    <3> QED
        BY <1>1, <2>1, <3>1
  <2>4. /\ \A j \in I \cap (1 .. m - 1) : Len(c[j]) \in 1 .. Len(c[m - 1]) /\ c[m - 1][Len(c[j])] = s[j]
        /\ \A n \in 1 .. Len(c[m - 1]) : \E j \in I \cap (1 .. m - 1) : Len(c[j]) = n
        BY <2>3
  <2>5. c[m - 1] \in Seq(K) /\ Len(c[m - 1]) \in Nat
        BY <1>2, <2>3, LenProperties
  <2>6. CASE m \in I
    <3>1. c[m] = Append(c[m - 1], s[m])
          BY <1>2, <2>3, <2>6
    <3>2. IsList(c[m - 1])
          BY <2>5 DEF IsList
    <3>3. /\ Len(c[m]) = Len(c[m - 1]) + 1 /\ c[m][Len(c[m])] = s[m]
          /\ \A n \in 1 .. Len(c[m - 1]) : c[m][n] = c[m - 1][n]
          BY <3>1, <3>2, ListAppend
    <3>4. \A j \in I \cap (1 .. m) : j = m \/ j \in I \cap (1 .. m - 1)
          BY <2>3
    <3>5. \A n \in 1 .. Len(c[m]) : n = Len(c[m]) \/ n \in 1 .. Len(c[m - 1])
          BY <2>5, <3>3
    <3>6. m \in I \cap (1 .. m) /\ I \cap (1 .. m - 1) \subseteq I \cap (1 .. m)
          BY <2>3, <2>6
    <3>7. Len(c[m]) \in 1 .. Len(c[m]) /\ 1 .. Len(c[m - 1]) \subseteq 1 .. Len(c[m])
          BY <2>5, <3>3
    <3>8. \A j \in I \cap (1 .. m) : Len(c[j]) \in 1 .. Len(c[m]) /\ c[m][Len(c[j])] = s[j]
          BY <2>4, <3>3, <3>4, <3>7
    <3>9. \A n \in 1 .. Len(c[m]) : \E j \in I \cap (1 .. m) : Len(c[j]) = n
          BY <2>4, <3>5, <3>6
    <3> QED
        BY <2>1, <3>8, <3>9
  <2>7. CASE m \notin I
    <3>1. c[m] = c[m - 1] /\ I \cap (1 .. m) = I \cap (1 .. m - 1)
          BY <1>2, <2>3, <2>7
    <3> QED
        BY <2>1, <2>4, <3>1
  <2> QED
      BY <2>6, <2>7
<1>4. Placed(N) /\ DOMAIN c[N] = 1 .. Len(c[N])
  <2>1. N \in 0 .. N
        BY <1>1
  <2>2. c[N] \in Seq(K)
        BY <1>2, <2>1
  <2> QED
      BY <1>3, <2>1, <2>2, LenProperties
<1> DEFINE p == [j \in 1 .. N |-> Len(c[j])]
<1>5. \A j \in I \cap (1 .. N) : p[j] = Len(c[j])
      OBVIOUS
<1> HIDE DEF p, N
<1>6. Select(s, I) = c[N] /\ DOMAIN s = 1 .. N
      BY <1>1, <1>2
<1>7. \A j \in I \cap DOMAIN s : p[j] \in DOMAIN Select(s, I) /\ Select(s, I)[p[j]] = s[j]
      BY <1>4, <1>5, <1>6
<1>8. \A n \in DOMAIN Select(s, I) : \E j \in I \cap DOMAIN s : p[j] = n
      BY <1>4, <1>5, <1>6
<1> QED
    BY <1>7, <1>8

\* Lists that are joined are one.
LEMMA FlattenList ==
  ASSUME NEW s, IsList(s), \A n \in DOMAIN s : IsList(s[n])
  PROVE  IsList(FlattenSeq(s))
<1>1. Len(s) \in Nat /\ DOMAIN s = 1 .. Len(s) /\ s = [n \in 1 .. Len(s) |-> s[n]]
      BY ListFacts
<1> DEFINE S == UNION {{s[n][m] : m \in DOMAIN s[n]} : n \in DOMAIN s}
<1>2. ASSUME NEW n \in DOMAIN s PROVE s[n] \in Seq(S)
  <2>1. Len(s[n]) \in Nat /\ DOMAIN s[n] = 1 .. Len(s[n]) /\ s[n] = [m \in 1 .. Len(s[n]) |-> s[n][m]]
        BY ListFacts
  <2>2. \A m \in 1 .. Len(s[n]) : s[n][m] \in S
        BY <2>1
  <2> HIDE DEF S
  <2>3. s[n] \in [1 .. Len(s[n]) -> S]
        BY <2>1, <2>2
  <2> QED
      BY <2>1, <2>3
<1> HIDE DEF S
<1>3. s \in [1 .. Len(s) -> Seq(S)]
      BY <1>1, <1>2
<1>4. s \in Seq(Seq(S))
      BY <1>1, <1>3
<1>5. FlattenSeq(s) \in Seq(S)
      BY <1>4, FlattenTyped
<1> QED
    BY <1>5 DEF IsList

\* A sum of natural numbers is one.
LEMMA SumNat ==
  ASSUME NEW s, IsList(s), \A n \in DOMAIN s : s[n] \in Nat
  PROVE  SumOf(s) \in Nat
<1>1. Len(s) \in Nat /\ DOMAIN s = 1 .. Len(s)
      BY ListFacts
<1>2. PICK h \in [0 .. Len(s) -> Nat] :
        h[0] = 0 /\ (\A n \in 1 .. Len(s) : h[n] = h[n - 1] + s[n]) /\ SumOf(s) = h[Len(s)]
      BY <1>1, SumFacts
<1>3. Len(s) \in 0 .. Len(s)
      BY <1>1
<1> QED
    BY <1>2, <1>3

\* A function of the places of a list is one.
LEMMA MapList ==
  ASSUME NEW s, IsList(s), NEW f, f = [n \in DOMAIN s |-> f[n]]
  PROVE  IsList(f) /\ Len(f) = Len(s) /\ DOMAIN f = DOMAIN s
<1>1. Len(s) \in Nat /\ DOMAIN s = 1 .. Len(s)
      BY ListFacts
<1>2. f = [n \in 1 .. Len(s) |-> f[n]]
      BY <1>1
<1> QED
    BY <1>1, <1>2, FunctionList

\* The first of some natural numbers is one of them.
LEMMA FirstIn ==
  ASSUME NEW S \in SUBSET Nat, S # {}
  PROVE  First(S) \in S /\ \A m \in S : First(S) <= m
<1>1. PICK x \in S : TRUE
      OBVIOUS
<1>2. \E n \in S : \A m \in S : n <= m
      BY LeastNatural
<1> QED
    BY <1>2 DEF First

\* Sequences that are written down.
LEMMA List2 == ASSUME NEW a, NEW b PROVE IsList(<<a, b>>)
<1>1. <<a, b>> \in Seq({a, b})
      OBVIOUS
<1> QED
    BY <1>1 DEF IsList

\* Lists by their elements.
LEMMA List3 == ASSUME NEW a, NEW b, NEW c PROVE IsList(<<a, b, c>>)
<1>1. <<a, b, c>> \in Seq({a, b, c})
      OBVIOUS
<1> QED
    BY <1>1 DEF IsList

LEMMA List4 == ASSUME NEW a, NEW b, NEW c, NEW d PROVE IsList(<<a, b, c, d>>)
<1>1. <<a, b, c, d>> \in Seq({a, b, c, d})
      OBVIOUS
<1> QED
    BY <1>1 DEF IsList

LEMMA List8 == ASSUME NEW a, NEW b, NEW c, NEW d, NEW e, NEW f, NEW g, NEW h PROVE IsList(<<a, b, c, d, e, f, g, h>>)
<1>1. <<a, b, c, d, e, f, g, h>> \in Seq({a, b, c, d, e, f, g, h})
      OBVIOUS
<1> QED
    BY <1>1 DEF IsList

LEMMA List11 == ASSUME NEW a, NEW b, NEW c, NEW d, NEW e, NEW f, NEW g, NEW h, NEW l, NEW m, NEW n
                PROVE IsList(<<a, b, c, d, e, f, g, h, l, m, n>>)
<1>1. <<a, b, c, d, e, f, g, h, l, m, n>> \in Seq({a, b, c, d, e, f, g, h, l, m, n})
      OBVIOUS
<1> QED
    BY <1>1 DEF IsList

\* Replacing an element.
LEMMA ListReplace ==
  ASSUME NEW s, IsList(s), NEW k, NEW x
  PROVE  /\ IsList([s EXCEPT ![k] = x]) /\ DOMAIN [s EXCEPT ![k] = x] = DOMAIN s /\ Len([s EXCEPT ![k] = x]) = Len(s)
         /\ \A n \in DOMAIN s : [s EXCEPT ![k] = x][n] = IF n = k THEN x ELSE s[n]
<1> DEFINE t == [s EXCEPT ![k] = x]
<1>1. t = [n \in DOMAIN s |-> t[n]] /\ DOMAIN t = DOMAIN s /\ \A n \in DOMAIN s : t[n] = IF n = k THEN x ELSE s[n]
      OBVIOUS
<1> HIDE DEF t
<1>2. IsList(t) /\ Len(t) = Len(s)
      BY <1>1, MapList
<1> QED
    BY <1>1, <1>2 DEF t

\* An element of joined lists is one of a list.
LEMMA FlattenElements ==
  ASSUME NEW s, IsList(s), \A n \in DOMAIN s : IsList(s[n])
  PROVE  /\ IsList(FlattenSeq(s))
         /\ \A k \in DOMAIN FlattenSeq(s) : \E n \in DOMAIN s : \E m \in DOMAIN s[n] : FlattenSeq(s)[k] = s[n][m]
<1>1. Len(s) \in Nat /\ DOMAIN s = 1 .. Len(s) /\ s = [n \in 1 .. Len(s) |-> s[n]]
      BY ListFacts
<1> DEFINE S == UNION {{s[n][m] : m \in DOMAIN s[n]} : n \in DOMAIN s}
<1>2. ASSUME NEW n \in DOMAIN s PROVE s[n] \in Seq(S)
  <2>1. Len(s[n]) \in Nat /\ DOMAIN s[n] = 1 .. Len(s[n]) /\ s[n] = [m \in 1 .. Len(s[n]) |-> s[n][m]]
        BY ListFacts
  <2>2. \A m \in 1 .. Len(s[n]) : s[n][m] \in S
        BY <2>1
  <2> HIDE DEF S
  <2>3. s[n] \in [1 .. Len(s[n]) -> S]
        BY <2>1, <2>2
  <2> QED
      BY <2>1, <2>3
<1>0. \A x \in S : \E n \in DOMAIN s : \E m \in DOMAIN s[n] : x = s[n][m]
      OBVIOUS
<1> HIDE DEF S
<1>3. s \in [1 .. Len(s) -> Seq(S)]
      BY <1>1, <1>2
<1>4. s \in Seq(Seq(S))
      BY <1>1, <1>3
<1>5. FlattenSeq(s) \in Seq(S)
      BY <1>4, FlattenTyped
<1>6. \A k \in DOMAIN FlattenSeq(s) : FlattenSeq(s)[k] \in S
      BY <1>5
<1> QED
    BY <1>0, <1>5, <1>6 DEF IsList

\* The elements of a sequence over a set.
LEMMA ElementIn == ASSUME NEW S, NEW s \in Seq(S), NEW i \in DOMAIN s PROVE s[i] \in S
OBVIOUS

\* All lists of a list are over one set.
LEMMA OneSet ==
  ASSUME NEW s, IsList(s), \A n \in DOMAIN s : IsList(s[n])
  PROVE  \E S : s \in Seq(Seq(S))
<1>1. Len(s) \in Nat /\ DOMAIN s = 1 .. Len(s) /\ s = [n \in 1 .. Len(s) |-> s[n]]
      BY ListFacts
<1> DEFINE S == UNION {{s[n][m] : m \in DOMAIN s[n]} : n \in DOMAIN s}
<1>2. ASSUME NEW n \in DOMAIN s PROVE s[n] \in Seq(S)
  <2>1. Len(s[n]) \in Nat /\ DOMAIN s[n] = 1 .. Len(s[n]) /\ s[n] = [m \in 1 .. Len(s[n]) |-> s[n][m]]
        BY ListFacts
  <2>2. \A m \in 1 .. Len(s[n]) : s[n][m] \in S
        BY <2>1
  <2> HIDE DEF S
  <2>3. s[n] \in [1 .. Len(s[n]) -> S]
        BY <2>1, <2>2
  <2> QED
      BY <2>1, <2>3
<1> HIDE DEF S
<1>3. s \in [1 .. Len(s) -> Seq(S)]
      BY <1>1, <1>2
<1>4. s \in Seq(Seq(S))
      BY <1>1, <1>3
<1> QED
    BY <1>4

\* Every element of the lists is one of the joined list.
LEMMA FlattenHas ==
  ASSUME NEW s, IsList(s), \A n \in DOMAIN s : IsList(s[n]), NEW n \in DOMAIN s, NEW m \in DOMAIN s[n]
  PROVE  \E k \in DOMAIN FlattenSeq(s) : FlattenSeq(s)[k] = s[n][m]
<1>1. PICK N \in Nat : N = Len(s) /\ DOMAIN s = 1 .. N
      BY ListFacts
<1>2. PICK S : s \in Seq(Seq(S))
      BY OneSet
<1>3. N # 0 /\ n \in 1 .. N /\ n \in Nat
      BY <1>1
<1>4. PICK c : FlattenSeq(s) = c[N] /\ Joins(s, c) /\ \A k \in 1 .. N : c[k] \in Seq(S)
      BY <1>1, <1>2, <1>3, FlattenRuns
<1>5. \A k \in 1 .. N : IsList(c[k]) /\ IsList(s[k])
      BY <1>1, <1>4 DEF IsList
<1>6. \A k \in 1 .. N : c[k] = IF k = 1 THEN s[k] ELSE c[k - 1] \o s[k]
      BY <1>1, <1>4 DEF Joins
<1> DEFINE Has(k) == \E p \in DOMAIN c[k] : c[k][p] = s[n][m]
           T == {k \in n .. N : ~ Has(k)}
<1>7. Has(n)
  <2>1. CASE n = 1
        BY <1>3, <1>6, <2>1
  <2>2. CASE n # 1
    <3>1. PICK q \in 1 .. N : q = n - 1
          BY <1>3, <2>2
    <3>2. c[n] = c[q] \o s[n] /\ IsList(c[q]) /\ IsList(s[n])
          BY <1>3, <1>5, <1>6, <2>2, <3>1
    <3>3. /\ Len(c[q]) \in Nat /\ Len(s[n]) \in Nat /\ DOMAIN s[n] = 1 .. Len(s[n])
          BY <3>2, ListFacts
    <3>4. /\ IsList(c[n]) /\ Len(c[n]) = Len(c[q]) + Len(s[n])
          /\ \A p \in 1 .. Len(c[q]) + Len(s[n]) : c[n][p] = IF p <= Len(c[q]) THEN c[q][p] ELSE s[n][p - Len(c[q])]
          BY <3>2, ListConcat
    <3>5. DOMAIN c[n] = 1 .. Len(c[q]) + Len(s[n])
          BY <3>4, ListFacts
    <3>6. m \in 1 .. Len(s[n]) /\ Len(c[q]) + m \in 1 .. Len(c[q]) + Len(s[n]) /\ ~ (Len(c[q]) + m <= Len(c[q]))
          /\ (Len(c[q]) + m) - Len(c[q]) = m
          BY <3>3
    <3>7. c[n][Len(c[q]) + m] = s[n][m]
          BY <3>4, <3>6
    <3> QED
        BY <3>5, <3>6, <3>7
  <2> QED
      BY <2>1, <2>2
<1> HIDE DEF Has
<1>8. ASSUME NEW k \in 1 .. N, NEW q \in 1 .. N, q = k - 1, Has(q)
      PROVE  Has(k)
  <2>1. k # 1
        BY <1>8
  <2>2. PICK x : x = c[q] /\ IsList(x)
        BY <1>5
  <2>3. PICK y : y = s[k] /\ IsList(y)
        BY <1>5
  <2>4. c[k] = x \o y
    <3>1. c[k] = c[k - 1] \o s[k]
          BY <1>6, <2>1
    <3> QED
        BY <1>8, <2>2, <2>3, <3>1
  <2>5. /\ IsList(x \o y) /\ Len(x \o y) = Len(x) + Len(y)
        /\ \A p \in 1 .. Len(x) + Len(y) : (x \o y)[p] = IF p <= Len(x) THEN x[p] ELSE y[p - Len(x)]
        BY <2>2, <2>3, ListConcat
  <2>6. DOMAIN (x \o y) = 1 .. Len(x) + Len(y) /\ DOMAIN x = 1 .. Len(x) /\ Len(x) \in Nat /\ Len(y) \in Nat
        BY <2>2, <2>3, <2>5, ListFacts
  <2>7. PICK p \in DOMAIN x : x[p] = s[n][m]
        BY <1>8, <2>2 DEF Has
  <2>8. p \in 1 .. Len(x) + Len(y) /\ p <= Len(x)
        BY <2>6, <2>7
  <2> QED
      BY <2>4, <2>5, <2>6, <2>7, <2>8 DEF Has
<1>9. T = {}
  <2>1. SUFFICES ASSUME T # {} PROVE FALSE
        OBVIOUS
  <2>2. T \in SUBSET Nat
        BY <1>3
  <2>3. PICK k \in T : \A j \in T : k <= j
        BY <2>1, <2>2, LeastNatural
  <2>4. k \in 1 .. N /\ k # n /\ k \in n .. N
        BY <1>3, <1>7, <2>3
  <2>5. PICK q \in 1 .. N : q = k - 1
        BY <1>3, <2>4
  <2>6. q \in n .. N /\ ~ (k <= q)
        BY <1>3, <2>4, <2>5
  <2> QED
      BY <1>8, <2>3, <2>4, <2>5, <2>6
<1>10. Has(N)
       BY <1>1, <1>3, <1>9
<1> QED
    BY <1>4, <1>10 DEF Has

\* Some natural numbers below a bound have a greatest.
LEMMA GreatestNatural ==
  ASSUME NEW b \in Nat, NEW S \in SUBSET (0 .. b), S # {}
  PROVE  \E i \in S : \A j \in S : j <= i
<1> DEFINE T == {b - i : i \in S}
<1>1. T \in SUBSET Nat /\ T # {}
  <2>1. \A i \in S : i \in 0 .. b
        OBVIOUS
  <2>2. \A i \in S : b - i \in Nat
        BY <2>1
  <2> QED
      BY <2>2
<1>2. PICK m \in T : \A k \in T : m <= k
      BY <1>1, LeastNatural
<1>3. PICK i \in S : m = b - i
      BY <1>2
<1>4. ASSUME NEW j \in S PROVE j <= i
  <2>1. b - j \in T /\ j \in Nat /\ i \in Nat
        OBVIOUS
  <2>2. b - i <= b - j
        BY <1>2, <1>3, <2>1
  <2> QED
      BY <2>1, <2>2
<1> QED
    BY <1>4

===========================================================================

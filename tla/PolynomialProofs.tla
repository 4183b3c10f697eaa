-------------------------- MODULE PolynomialProofs --------------------------
(***************************************************************************)
(* Proofs about the polynomials over Z_p, for every prime p and every      *)
(* degree: the laws of addition and multiplication, what egcd, divmod,     *)
(* poly_gcd and pow compute, the polynomials modulo another one and their  *)
(* numbers.                                                                *)
(*                                                                         *)
(* The first sections hold what the rest and LdpcProofs keep needing:      *)
(* induction, remainders, primes, common divisors, sums and products, Gcd  *)
(* and ProductFunction of NonBinaryLdpc among them.  Induction takes the   *)
(* form of a least counterexample, LeastNumber, as in CascadeProofs, or of *)
(* a set of numbers that Counting shows to be Nat.                         *)
(***************************************************************************)
EXTENDS NonBinaryLdpc, FiniteSetTheorems, WellFoundedInduction, TLAPS

-----------------------------------------------------------------------------
(* Induction and loops                                                     *)

LEMMA LeastNumber ==
  ASSUME NEW S \in SUBSET Nat, S # {}
  PROVE  \E m \in S : \A k \in S : m <= k
<1> DEFINE R == {ss \in Nat \X Nat : ss[1] < ss[2]}
<1>1. IsWellFoundedOn(R, Nat)
  BY NatLessThanWellFounded DEF OpToRel
<1>2. PICK x \in S : \A y \in S : <<y, x>> \notin R
  <2> HIDE DEF R
  <2> QED
    BY <1>1, WFMin
<1>3. \A y \in S : ~ (y < x)
  BY <1>2
<1> QED
  BY <1>2, <1>3

\* The numbers are reached one after the other.
LEMMA Counting ==
  ASSUME NEW G \in SUBSET Nat, 0 \in G, \A k \in G : k + 1 \in G
  PROVE  G = Nat
<1> DEFINE Bad == Nat \ G
<1>1. CASE Bad # {}
  <2>1. PICK n \in Bad : \A k \in Bad : n <= k
    BY <1>1, LeastNumber
  <2>2. n \in Nat /\ n # 0 /\ n - 1 \in Nat
    BY <2>1
  <2>3. n - 1 \in G
    <3> HIDE DEF Bad
    <3>1. n - 1 \notin Bad
      BY <2>1, <2>2
    <3> QED
      BY <2>2, <3>1 DEF Bad
  <2>4. (n - 1) + 1 \in G
    BY <2>3
  <2> QED
    BY <2>1, <2>2, <2>4
<1>2. CASE Bad = {}
  BY <1>2
<1> QED
  BY <1>1, <1>2

\* f is what a step on S makes of start, again and again.
Repeats(f, S, start, step) ==
  /\ f \in [Nat -> S] /\ f[0] = start
  /\ \A k \in Nat : f[k + 1] = step[f[k]]

LEMMA Iterates ==
  ASSUME NEW S, NEW start \in S, NEW step \in [S -> S]
  PROVE  \E f : Repeats(f, S, start, step)
<1> DEFINE Upto(f, n) == /\ f \in [0 .. n -> S] /\ f[0] = start
                         /\ \A k \in 0 .. n - 1 : f[k + 1] = step[f[k]]
           G == {n \in Nat : \E f : Upto(f, n)}
<1>1. G = Nat
  <2>1. 0 \in G
    <3>1. Upto([k \in 0 .. 0 |-> start], 0)
      OBVIOUS
    <3> QED
      <4> HIDE DEF Upto
      <4> QED
        BY <3>1
  <2>2. ASSUME NEW n \in G PROVE n + 1 \in G
    <3>1. PICK f : Upto(f, n)
      <4> HIDE DEF Upto
      <4> QED
        BY <2>2
    <3> DEFINE g == [k \in 0 .. n + 1 |-> IF k = n + 1 THEN step[f[n]] ELSE f[k]]
    <3>2. n \in Nat /\ f[n] \in S
      BY <3>1
    <3>3. g \in [0 .. n + 1 -> S] /\ g[0] = start
      BY <3>1, <3>2
    <3>4. ASSUME NEW k \in 0 .. n PROVE g[k + 1] = step[g[k]]
      BY <3>1, <3>2
    <3>5. Upto(g, n + 1)
      <4> HIDE DEF g
      <4> QED
        BY <3>2, <3>3, <3>4
    <3> QED
      <4> HIDE DEF Upto, g
      <4> QED
        BY <3>2, <3>5
  <2> QED
    <3> HIDE DEF G
    <3>1. G \in SUBSET Nat
      BY DEF G
    <3> QED
      BY <2>1, <2>2, <3>1, Counting
<1>2. ASSUME NEW n \in Nat, NEW m \in Nat, NEW f, NEW g, Upto(f, n), Upto(g, m), n <= m
      PROVE  \A k \in 0 .. n : f[k] = g[k]
  <2> DEFINE H == {k \in Nat : k <= n => f[k] = g[k]}
  <2>1. 0 \in H
    BY <1>2
  <2>2. ASSUME NEW k \in H PROVE k + 1 \in H
    <3> SUFFICES ASSUME k + 1 <= n PROVE f[k + 1] = g[k + 1]
      OBVIOUS
    <3>1. k \in 0 .. n - 1 /\ k \in 0 .. m - 1 /\ f[k] = g[k]
      BY <1>2
    <3> QED
      BY <1>2, <3>1
  <2>3. H = Nat
    <3> HIDE DEF H
    <3>1. H \in SUBSET Nat
      BY DEF H
    <3> QED
      BY <2>1, <2>2, <3>1, Counting
  <2> QED
    BY <2>3
<1> DEFINE at(n) == CHOOSE f : Upto(f, n)
           f == [n \in Nat |-> at(n)[n]]
<1>3. \A n \in Nat : Upto(at(n), n)
  <2> HIDE DEF Upto
  <2> QED
    BY <1>1
<1>4. f \in [Nat -> S] /\ f[0] = start
  <2> HIDE DEF at
  <2> QED
    BY <1>3
<1>5. ASSUME NEW k \in Nat PROVE f[k + 1] = step[f[k]]
  <2> HIDE DEF at, Upto
  <2>1. Upto(at(k), k) /\ Upto(at(k + 1), k + 1)
    BY <1>3
  <2> USE DEF Upto
  <2>2. at(k)[k] = at(k + 1)[k]
    <3> HIDE DEF Upto
    <3>1. k + 1 \in Nat /\ k <= k + 1 /\ k \in 0 .. k
      OBVIOUS
    <3>2. \A j \in 0 .. k : at(k)[j] = at(k + 1)[j]
      BY <1>2, <2>1, <3>1
    <3> QED
      BY <3>1, <3>2
  <2>3. at(k + 1)[k + 1] = step[at(k + 1)[k]]
    BY <2>1
  <2> QED
    BY <2>2, <2>3
<1>6. Repeats(f, S, start, step)
  <2> HIDE DEF f
  <2> QED
    BY <1>4, <1>5 DEF Repeats
<1> HIDE DEF f
<1> QED
  BY <1>6

-----------------------------------------------------------------------------
(* Arithmetic modulo p                                                     *)

Congruent(p, a, b) == \E z \in Int : a - b = z * p

LEMMA Remainder ==
  ASSUME NEW p \in Nat \ {0}, NEW a \in Int
  PROVE  /\ a % p \in 0 .. p - 1
         /\ \E z \in Int : a = z * p + (a % p)
<1>1. a = p * (a \div p) + (a % p) /\ a % p \in 0 .. p - 1 /\ a \div p \in Int
  OBVIOUS
<1>2. p * (a \div p) = (a \div p) * p
  BY <1>1
<1> QED
  BY <1>1, <1>2

LEMMA SmallMultiple ==
  ASSUME NEW p \in Nat \ {0}, NEW z \in Int, -p < z * p, z * p < p
  PROVE  z = 0
<1>1. CASE z >= 1
  <2>1. (z - 1) * p >= 0
    BY <1>1
  <2>2. (z - 1) * p = z * p - p
    OBVIOUS
  <2> QED
    BY <2>1, <2>2
<1>2. CASE z <= -1
  <2>1. (-1 - z) * p >= 0
    BY <1>2
  <2>2. (-1 - z) * p = -p - z * p
    OBVIOUS
  <2> QED
    BY <2>1, <2>2
<1> QED
  BY <1>1, <1>2

LEMMA SameRemainder ==
  ASSUME NEW p \in Nat \ {0}, NEW a \in Int, NEW b \in Int
  PROVE  a % p = b % p <=> Congruent(p, a, b)
<1>1. PICK x \in Int : a = x * p + (a % p)
  BY Remainder
<1>2. PICK y \in Int : b = y * p + (b % p)
  BY Remainder
<1>3. a % p \in 0 .. p - 1 /\ b % p \in 0 .. p - 1
  BY Remainder
<1>4. ASSUME a % p = b % p PROVE Congruent(p, a, b)
  <2>1. a - b = x * p - y * p
    BY <1>1, <1>2, <1>3, <1>4
  <2>2. x * p - y * p = (x - y) * p /\ x - y \in Int
    OBVIOUS
  <2> QED
    BY <2>1, <2>2 DEF Congruent
<1>5. ASSUME Congruent(p, a, b) PROVE a % p = b % p
  <2>1. PICK z \in Int : a - b = z * p
    BY <1>5 DEF Congruent
  <2>2. (a % p) - (b % p) = z * p - x * p + y * p
    <3>1. PICK u \in Int, v \in Int : u = a % p /\ v = b % p
      BY <1>3
    <3>2. PICK k \in Int, l \in Int, m \in Int : k = x * p /\ l = y * p /\ m = z * p
      OBVIOUS
    <3>3. a = k + u /\ b = l + v /\ a - b = m
      BY <1>1, <1>2, <2>1, <3>1, <3>2
    <3>4. u - v = m - k + l
      BY <3>3
    <3> QED
      BY <3>1, <3>2, <3>4
  <2>3. z * p - x * p + y * p = (z - x + y) * p
    OBVIOUS
  <2>4. -p < (a % p) - (b % p) /\ (a % p) - (b % p) < p
    BY <1>3
  <2>5. z - x + y = 0
    BY <2>2, <2>3, <2>4, SmallMultiple
  <2>6. (a % p) - (b % p) = 0
    BY <2>2, <2>3, <2>5
  <2> QED
    BY <1>3, <2>6
<1> QED
  BY <1>4, <1>5

LEMMA CongruentSums ==
  ASSUME NEW p \in Nat \ {0}, NEW a \in Int, NEW b \in Int, NEW c \in Int, NEW d \in Int,
         Congruent(p, a, b), Congruent(p, c, d)
  PROVE  Congruent(p, a + c, b + d) /\ Congruent(p, a - c, b - d)
<1>1. PICK x \in Int : a - b = x * p
  BY DEF Congruent
<1>2. PICK y \in Int : c - d = y * p
  BY DEF Congruent
<1>3. (a + c) - (b + d) = x * p + y * p /\ (a - c) - (b - d) = x * p - y * p
  BY <1>1, <1>2
<1>4. x * p + y * p = (x + y) * p /\ x * p - y * p = (x - y) * p
  OBVIOUS
<1>5. x + y \in Int /\ x - y \in Int
  OBVIOUS
<1> QED
  BY <1>3, <1>4, <1>5 DEF Congruent

LEMMA CongruentProducts ==
  ASSUME NEW p \in Nat \ {0}, NEW a \in Int, NEW b \in Int, NEW c \in Int,
         Congruent(p, a, b)
  PROVE  Congruent(p, c * a, c * b) /\ Congruent(p, a * c, b * c)
<1>1. PICK x \in Int : a - b = x * p
  BY DEF Congruent
<1>2. c * a - c * b = c * (a - b) /\ a * c - b * c = c * (a - b)
  OBVIOUS
<1>3. c * (a - b) = (c * x) * p /\ c * x \in Int
  BY <1>1
<1> QED
  BY <1>2, <1>3 DEF Congruent

LEMMA CongruentTransitive ==
  ASSUME NEW p \in Nat \ {0}, NEW a \in Int, NEW b \in Int
  PROVE  /\ Congruent(p, a % p, a) /\ Congruent(p, a, a)
         /\ Congruent(p, a, b) => Congruent(p, b, a)
         /\ \A c \in Int : Congruent(p, a, b) /\ Congruent(p, b, c) => Congruent(p, a, c)
<1>1. Congruent(p, a, a)
  <2>1. a - a = 0 * p
    OBVIOUS
  <2> QED
    BY <2>1 DEF Congruent
<1>2. Congruent(p, a % p, a)
  <2>1. PICK x \in Int : a = x * p + (a % p)
    BY Remainder
  <2>2. (a % p) \in Int
    BY Remainder
  <2>3. PICK u \in Int, k \in Int : u = a % p /\ k = x * p
    BY <2>2
  <2>4. u - a = -k
    <3>1. a = k + u
      BY <2>1, <2>3
    <3> QED
      BY <3>1
  <2>5. -k = (-x) * p /\ -x \in Int
    BY <2>3
  <2> QED
    BY <2>3, <2>4, <2>5 DEF Congruent
<1>3. ASSUME Congruent(p, a, b) PROVE Congruent(p, b, a)
  <2>1. PICK x \in Int : a - b = x * p
    BY <1>3 DEF Congruent
  <2>2. b - a = (-x) * p /\ -x \in Int
    BY <2>1
  <2> QED
    BY <2>2 DEF Congruent
<1>4. ASSUME NEW c \in Int, Congruent(p, a, b), Congruent(p, b, c) PROVE Congruent(p, a, c)
  <2>1. PICK x \in Int : a - b = x * p
    BY <1>4 DEF Congruent
  <2>2. PICK y \in Int : b - c = y * p
    BY <1>4 DEF Congruent
  <2>3. a - c = x * p + y * p
    BY <2>1, <2>2
  <2>4. x * p + y * p = (x + y) * p /\ x + y \in Int
    OBVIOUS
  <2> QED
    BY <2>3, <2>4 DEF Congruent
<1> QED
  BY <1>1, <1>2, <1>3, <1>4

LEMMA Modulo ==
  ASSUME NEW p \in Nat \ {0}, NEW a \in Int
  PROVE  /\ a % p \in Int /\ Congruent(p, a % p, a) /\ Congruent(p, a, a)
<1>1. a % p \in Int
  BY Remainder
<1> QED
  BY <1>1, CongruentTransitive

-----------------------------------------------------------------------------
(* Primes                                                                  *)

Divides(d, n) == \E k \in Int : n = k * d

\* is_prime tries the divisors up to the square root; no other is left.
LEMMA PrimeHasNoDivisor ==
  ASSUME NEW p \in Nat \ {0, 1}, IsPrime(p), NEW d \in Nat, Divides(d, p)
  PROVE  d = 1 \/ d = p
<1>1. PICK k \in Int : p = k * d
  BY DEF Divides
<1>2. d > 0 /\ k > 0
  <2>1. d # 0
    BY <1>1
  <2>2. k <= 0 => k * d <= 0
    BY <2>1
  <2> QED
    BY <1>1, <2>1, <2>2
<1>3. d <= p /\ k <= p
  <2>1. (k - 1) * d >= 0 /\ (d - 1) * k >= 0
    BY <1>2
  <2>2. (k - 1) * d = k * d - d /\ (d - 1) * k = k * d - k
    OBVIOUS
  <2> QED
    BY <1>1, <2>1, <2>2
<1>4. \A i \in 2 .. p : i * i <= p => p % i # 0
  BY DEF IsPrime
<1>5. ASSUME NEW i \in 2 .. p, NEW j \in Int, p = j * i PROVE p % i = 0
  <2>1. i \in Nat \ {0} /\ p \in Int /\ 0 \in Int
    OBVIOUS
  <2>2. p - 0 = j * i
    BY <1>5
  <2>3. Congruent(i, p, 0)
    BY <2>2 DEF Congruent
  <2>4. p % i = 0 % i
    BY <2>1, <2>3, SameRemainder
  <2>5. 0 % i = 0
    BY <2>1
  <2> QED
    BY <2>4, <2>5
<1>6. CASE d = 1
  BY <1>6
<1>7. CASE k = 1
  BY <1>1, <1>7
<1>8. CASE d > 1 /\ k > 1
  <2>1. d \in 2 .. p /\ k \in 2 .. p
    BY <1>3, <1>8
  <2>2. p % d = 0 /\ p % k = 0
    <3>1. p = d * k /\ d \in Int
      BY <1>1
    <3> QED
      BY <1>1, <1>5, <2>1, <3>1
  <2>3. ~ (d * d <= p) /\ ~ (k * k <= p)
    BY <1>4, <2>1, <2>2
  <2>4. d <= k => d * d <= k * d
    <3>1. d <= k => (k - d) * d >= 0
      BY <1>2
    <3>2. (k - d) * d = k * d - d * d
      OBVIOUS
    <3> QED
      BY <3>1, <3>2
  <2>5. k <= d => k * k <= k * d
    <3>1. k <= d => (d - k) * k >= 0
      BY <1>2
    <3>2. (d - k) * k = k * d - k * k
      OBVIOUS
    <3> QED
      BY <3>1, <3>2
  <2> QED
    BY <1>1, <2>3, <2>4, <2>5
<1> QED
  BY <1>2, <1>6, <1>7, <1>8

-----------------------------------------------------------------------------
(* The extended Euclidean algorithm                                        *)

EgcdStates == [r : Nat \X Nat, s : Int \X Int, t : Int \X Int]

EgcdStart(a, b) == [r |-> <<a, b>>, s |-> <<1, 0>>, t |-> <<0, 1>>]

LEMMA EgcdTurns ==
  ASSUME NEW e \in EgcdStates, e.r[2] # 0
  PROVE  \E q \in Nat : /\ e.r[1] - q * e.r[2] \in 0 .. e.r[2] - 1
                        /\ EgcdTurn(e) = [r |-> <<e.r[2], e.r[1] - q * e.r[2]>>,
                                          s |-> <<e.s[2], e.s[1] - q * e.s[2]>>,
                                          t |-> <<e.t[2], e.t[1] - q * e.t[2]>>]
                        /\ EgcdTurn(e) \in EgcdStates
<1>1. /\ e.r[1] \in Nat /\ e.r[2] \in Nat \ {0}
      /\ e.s[1] \in Int /\ e.s[2] \in Int /\ e.t[1] \in Int /\ e.t[2] \in Int
  BY DEF EgcdStates
<1>2. PICK m \in Nat, n \in Nat \ {0} : m = e.r[1] /\ n = e.r[2]
  BY <1>1
<1>3. m \div n \in Nat /\ m - (m \div n) * n \in 0 .. n - 1
  OBVIOUS
<1>4. PICK q \in Nat : q = m \div n
  BY <1>3
<1>5. e.r[1] - q * e.r[2] \in 0 .. e.r[2] - 1
  BY <1>2, <1>3, <1>4
<1>6. EgcdTurn(e) = [r |-> <<e.r[2], e.r[1] - q * e.r[2]>>,
                     s |-> <<e.s[2], e.s[1] - q * e.s[2]>>,
                     t |-> <<e.t[2], e.t[1] - q * e.t[2]>>]
  BY <1>2, <1>4 DEF EgcdTurn
<1>7. /\ e.r[1] - q * e.r[2] \in Nat
      /\ e.s[1] - q * e.s[2] \in Int /\ e.t[1] - q * e.t[2] \in Int
  BY <1>1, <1>5
<1>8. EgcdTurn(e) \in EgcdStates
  BY <1>1, <1>6, <1>7 DEF EgcdStates
<1> QED
  BY <1>5, <1>6, <1>8

LEMMA EgcdRuns ==
  ASSUME NEW a \in Nat, NEW b \in Nat
  PROVE  \E f \in [Nat -> EgcdStates] :
           /\ f[0] = EgcdStart(a, b)
           /\ \A k \in Nat : f[k + 1] = IF f[k].r[2] = 0 THEN f[k] ELSE EgcdTurn(f[k])
           /\ Egcd(a, b) = <<f[b].s[1], f[b].t[1], f[b].r[1]>>
<1> DEFINE Runs(f) == f = [k \in Nat |->
                             IF k = 0 THEN EgcdStart(a, b)
                             ELSE IF f[k - 1].r[2] = 0 THEN f[k - 1] ELSE EgcdTurn(f[k - 1])]
<1>1. PICK step \in [EgcdStates -> EgcdStates] :
        step = [e \in EgcdStates |-> IF e.r[2] = 0 THEN e ELSE EgcdTurn(e)]
  BY EgcdTurns
<1>2. EgcdStart(a, b) \in EgcdStates
  BY DEF EgcdStart, EgcdStates
<1>3. PICK g : Repeats(g, EgcdStates, EgcdStart(a, b), step)
  BY <1>2, Iterates
<1>4. ASSUME NEW k \in Nat, k # 0
      PROVE  g[k] = IF g[k - 1].r[2] = 0 THEN g[k - 1] ELSE EgcdTurn(g[k - 1])
  <2>1. k - 1 \in Nat /\ (k - 1) + 1 = k /\ g[k - 1] \in EgcdStates
    BY <1>3, <1>4 DEF Repeats
  <2>2. g[(k - 1) + 1] = step[g[k - 1]]
    BY <1>3, <2>1 DEF Repeats
  <2> QED
    BY <1>1, <2>1, <2>2
<1>5. Runs(g)
  BY <1>3, <1>4 DEF Repeats
<1> DEFINE f == CHOOSE h : Runs(h)
<1>6. Runs(f)
  <2> HIDE DEF Runs
  <2> QED
    BY <1>5
<1>7. Egcd(a, b) = <<f[b].s[1], f[b].t[1], f[b].r[1]>>
  BY DEF Egcd, Loop, EgcdStart
<1> HIDE DEF f
<1>8. f[0] = EgcdStart(a, b)
  BY <1>6
<1>9. ASSUME NEW k \in Nat
      PROVE  f[k + 1] = IF f[k].r[2] = 0 THEN f[k] ELSE EgcdTurn(f[k])
  <2>1. k + 1 \in Nat /\ k + 1 # 0 /\ (k + 1) - 1 = k
    OBVIOUS
  <2> QED
    BY <1>6, <2>1
<1>10. f \in [Nat -> EgcdStates]
  <2> DEFINE G == {k \in Nat : f[k] \in EgcdStates}
  <2>1. 0 \in G
    BY <1>2, <1>8
  <2>2. ASSUME NEW k \in G PROVE k + 1 \in G
    BY <1>9, EgcdTurns
  <2>3. G = Nat
    <3> HIDE DEF G
    <3>1. G \in SUBSET Nat
      BY DEF G
    <3> QED
      BY <2>1, <2>2, <3>1, Counting
  <2>4. \A k \in Nat : f[k] \in EgcdStates
    BY <2>3
  <2>5. f = [k \in Nat |-> f[k]]
    BY <1>6
  <2> QED
    BY <2>4, <2>5
<1> QED
  BY <1>7, <1>8, <1>9, <1>10

LEMMA DivisorOfSum ==
  ASSUME NEW d \in Int, NEW m \in Int, NEW n \in Int, NEW q \in Int,
         Divides(d, m - q * n), Divides(d, n)
  PROVE  Divides(d, m)
<1>1. PICK k \in Int : m - q * n = k * d
  BY DEF Divides
<1>2. PICK l \in Int : n = l * d
  BY DEF Divides
<1>3. m = k * d + q * (l * d)
  BY <1>1, <1>2
<1>4. k * d + q * (l * d) = (k + q * l) * d /\ k + q * l \in Int
  OBVIOUS
<1> QED
  BY <1>3, <1>4 DEF Divides

\* What the loop of egcd keeps: the new and the old r are combinations of a and
\* b, and what divides both divides a and b.
EgcdInv(a, b, e) ==
  /\ e.s[1] * a + e.t[1] * b = e.r[1]
  /\ e.s[2] * a + e.t[2] * b = e.r[2]
  /\ \A d \in Nat : Divides(d, e.r[1]) /\ Divides(d, e.r[2]) => Divides(d, a) /\ Divides(d, b)

LEMMA EgcdKeeps ==
  ASSUME NEW a \in Nat, NEW b \in Nat, NEW e \in EgcdStates, EgcdInv(a, b, e), e.r[2] # 0
  PROVE  EgcdInv(a, b, EgcdTurn(e)) /\ EgcdTurn(e).r[2] < e.r[2]
<1>1. PICK q \in Nat : /\ e.r[1] - q * e.r[2] \in 0 .. e.r[2] - 1
                       /\ EgcdTurn(e) = [r |-> <<e.r[2], e.r[1] - q * e.r[2]>>,
                                         s |-> <<e.s[2], e.s[1] - q * e.s[2]>>,
                                         t |-> <<e.t[2], e.t[1] - q * e.t[2]>>]
  BY EgcdTurns
<1>2. /\ e.r[1] \in Nat /\ e.r[2] \in Nat
      /\ e.s[1] \in Int /\ e.s[2] \in Int /\ e.t[1] \in Int /\ e.t[2] \in Int
  BY DEF EgcdStates
<1>3. PICK g \in EgcdStates : g = EgcdTurn(e)
  BY EgcdTurns
<1>4. /\ g.r[1] = e.r[2] /\ g.r[2] = e.r[1] - q * e.r[2]
      /\ g.s[1] = e.s[2] /\ g.s[2] = e.s[1] - q * e.s[2]
      /\ g.t[1] = e.t[2] /\ g.t[2] = e.t[1] - q * e.t[2]
  BY <1>1, <1>3
<1>5. g.s[1] * a + g.t[1] * b = g.r[1]
  BY <1>4 DEF EgcdInv
<1>6. g.s[2] * a + g.t[2] * b = g.r[2]
  <2>1. PICK s0 \in Int, s1 \in Int, t0 \in Int, t1 \in Int, r0 \in Nat, r1 \in Nat :
          /\ s0 = e.s[1] /\ s1 = e.s[2] /\ t0 = e.t[1] /\ t1 = e.t[2]
          /\ r0 = e.r[1] /\ r1 = e.r[2]
    BY <1>2
  <2>2. s0 * a + t0 * b = r0 /\ s1 * a + t1 * b = r1
    BY <2>1 DEF EgcdInv
  <2>3. (s0 - q * s1) * a + (t0 - q * t1) * b = (s0 * a + t0 * b) - q * (s1 * a + t1 * b)
    OBVIOUS
  <2>4. (s0 - q * s1) * a + (t0 - q * t1) * b = r0 - q * r1
    BY <2>2, <2>3
  <2> QED
    BY <1>4, <2>1, <2>4
<1>7. ASSUME NEW d \in Nat, Divides(d, g.r[1]), Divides(d, g.r[2])
      PROVE  Divides(d, a) /\ Divides(d, b)
  <2>1. Divides(d, e.r[2]) /\ Divides(d, e.r[1] - q * e.r[2])
    BY <1>4, <1>7
  <2>2. Divides(d, e.r[1])
    BY <1>2, <2>1, DivisorOfSum
  <2> QED
    BY <2>1, <2>2 DEF EgcdInv
<1>8. EgcdInv(a, b, g)
  BY <1>5, <1>6, <1>7 DEF EgcdInv
<1>9. g.r[2] < e.r[2]
  <2>1. PICK n \in Nat : n = e.r[2]
    BY <1>2
  <2>2. e.r[1] - q * e.r[2] \in 0 .. n - 1
    BY <1>1, <2>1
  <2> QED
    BY <1>4, <2>1, <2>2
<1> QED
  BY <1>3, <1>8, <1>9

\* egcd gives a combination of its arguments that divides them both.
THEOREM EgcdExact ==
  ASSUME NEW a \in Nat, NEW b \in Nat
  PROVE  /\ Egcd(a, b)[1] \in Int /\ Egcd(a, b)[2] \in Int /\ Egcd(a, b)[3] \in Nat
         /\ Egcd(a, b)[1] * a + Egcd(a, b)[2] * b = Egcd(a, b)[3]
         /\ Divides(Egcd(a, b)[3], a) /\ Divides(Egcd(a, b)[3], b)
<1>1. PICK f \in [Nat -> EgcdStates] :
        /\ f[0] = EgcdStart(a, b)
        /\ \A k \in Nat : f[k + 1] = IF f[k].r[2] = 0 THEN f[k] ELSE EgcdTurn(f[k])
        /\ Egcd(a, b) = <<f[b].s[1], f[b].t[1], f[b].r[1]>>
  BY EgcdRuns
<1> DEFINE G == {k \in Nat : EgcdInv(a, b, f[k]) /\ (f[k].r[2] = 0 \/ f[k].r[2] + k <= b)}
<1>2. 0 \in G
  <2>1. /\ f[0].r[1] = a /\ f[0].r[2] = b /\ f[0].s[1] = 1 /\ f[0].s[2] = 0
        /\ f[0].t[1] = 0 /\ f[0].t[2] = 1
    BY <1>1 DEF EgcdStart
  <2>2. 1 * a + 0 * b = a /\ 0 * a + 1 * b = b
    OBVIOUS
  <2>3. EgcdInv(a, b, f[0])
    BY <2>1, <2>2 DEF EgcdInv
  <2> QED
    BY <2>1, <2>3
<1>3. ASSUME NEW k \in G PROVE k + 1 \in G
  <2>1. k \in Nat /\ f[k] \in EgcdStates /\ f[k + 1] \in EgcdStates /\ EgcdInv(a, b, f[k])
    BY <1>1
  <2>2. CASE f[k].r[2] = 0
    <3>1. f[k + 1] = f[k]
      BY <1>1, <2>1, <2>2
    <3> QED
      BY <2>1, <2>2, <3>1
  <2>3. CASE f[k].r[2] # 0
    <3>1. f[k + 1] = EgcdTurn(f[k])
      BY <1>1, <2>1, <2>3
    <3>2. EgcdInv(a, b, f[k + 1]) /\ f[k + 1].r[2] < f[k].r[2]
      BY <2>1, <2>3, <3>1, EgcdKeeps
    <3>3. f[k].r[2] \in Nat /\ f[k + 1].r[2] \in Nat
      BY <2>1 DEF EgcdStates
    <3>4. f[k].r[2] + k <= b
      BY <2>3
    <3>5. f[k + 1].r[2] + (k + 1) <= b
      BY <2>1, <3>2, <3>3, <3>4
    <3> QED
      BY <2>1, <3>2, <3>5
  <2> QED
    BY <2>2, <2>3
<1>4. G = Nat
  <2> HIDE DEF G
  <2>1. G \in SUBSET Nat
    BY DEF G
  <2> QED
    BY <1>2, <1>3, <2>1, Counting
<1>5. EgcdInv(a, b, f[b]) /\ (f[b].r[2] = 0 \/ f[b].r[2] + b <= b)
  BY <1>4
<1>6. /\ f[b].s[1] \in Int /\ f[b].t[1] \in Int /\ f[b].r[1] \in Nat /\ f[b].r[2] \in Nat
  BY <1>1 DEF EgcdStates
<1>7. f[b].r[2] = 0
  BY <1>5, <1>6
<1>8. Divides(f[b].r[1], f[b].r[1]) /\ Divides(f[b].r[1], 0)
  <2>1. f[b].r[1] = 1 * f[b].r[1] /\ 0 = 0 * f[b].r[1]
    BY <1>6
  <2> QED
    BY <2>1 DEF Divides
<1>9. Divides(f[b].r[1], a) /\ Divides(f[b].r[1], b)
  BY <1>5, <1>6, <1>7, <1>8 DEF EgcdInv
<1> QED
  BY <1>1, <1>5, <1>6, <1>9 DEF EgcdInv

\* Modulo a prime, egcd inverts every number that is not zero.
LEMMA EgcdInverts ==
  ASSUME NEW p \in Nat \ {0, 1}, IsPrime(p), NEW a \in 1 .. p - 1
  PROVE  Egcd(a, p)[1] \in Int /\ Congruent(p, Egcd(a, p)[1] * a, 1)
<1> DEFINE s == Egcd(a, p)[1]
           t == Egcd(a, p)[2]
           r == Egcd(a, p)[3]
<1>1. s \in Int /\ t \in Int /\ r \in Nat /\ s * a + t * p = r /\ Divides(r, a) /\ Divides(r, p)
  BY EgcdExact
<1> HIDE DEF s, t, r
<1>2. r # p
  <2> SUFFICES ASSUME r = p PROVE FALSE
    OBVIOUS
  <2>1. PICK k \in Int : a = k * p
    BY <1>1 DEF Divides
  <2>2. k = 0
    <3>1. -p < k * p /\ k * p < p
      BY <2>1
    <3> QED
      BY <3>1, SmallMultiple
  <2> QED
    BY <2>1, <2>2
<1>3. r = 1
  BY <1>1, <1>2, PrimeHasNoDivisor
<1>4. s * a - 1 = (-t) * p /\ -t \in Int
  <2>1. PICK x \in Int, y \in Int : x = s * a /\ y = t * p
    BY <1>1
  <2>2. x + y = 1
    BY <1>1, <1>3, <2>1
  <2>3. x - 1 = -y
    BY <2>2
  <2>4. (-t) * p = -(t * p) /\ -t \in Int
    BY <1>1
  <2> QED
    BY <2>1, <2>3, <2>4
<1> QED
  BY <1>1, <1>4 DEF Congruent, s

-----------------------------------------------------------------------------
(* Greatest common divisors                                                *)

Rest(a, b) == a % b

LEMMA RestBelow ==
  ASSUME NEW a \in Nat, NEW b \in Nat, b # 0
  PROVE  Rest(a, b) \in Nat /\ Rest(a, b) < b
BY DEF Rest

\* g takes greatest common divisors, of second numbers up to n.
Euclid(g, n) ==
  /\ g = [e \in Nat \X Nat |-> g[e]]
  /\ \A a, b \in Nat : b <= n =>
       g[<<a, b>>] \in Nat /\ g[<<a, b>>] = IF b = 0 THEN a ELSE g[<<b, Rest(a, b)>>]

LEMMA EuclidAt ==
  ASSUME NEW n \in Nat, NEW g, Euclid(g, n), NEW a \in Nat, NEW b \in Nat, b <= n
  PROVE  g[<<a, b>>] \in Nat /\ g[<<a, b>>] = IF b = 0 THEN a ELSE g[<<b, Rest(a, b)>>]
BY DEF Euclid

LEMMA EuclidAtZero ==
  ASSUME NEW n \in Nat, NEW g, Euclid(g, n), NEW a \in Nat
  PROVE  g[<<a, 0>>] = a
<1>1. 0 \in Nat /\ 0 <= n
  OBVIOUS
<1>2. \A x, b \in Nat : (b <= n /\ b = 0) => g[<<x, b>>] = x
  BY DEF Euclid
<1> QED
  BY <1>1, <1>2

LEMMA EuclidExists ==
  ASSUME NEW n \in Nat
  PROVE  \E g : Euclid(g, n)
<1> DEFINE G == {k \in Nat : \E g : Euclid(g, k)}
<1>1. 0 \in G
  <2> DEFINE g == [e \in Nat \X Nat |-> e[1]]
  <2>1. Euclid(g, 0)
    BY DEF Euclid
  <2> QED
    BY <2>1
<1>2. ASSUME NEW k \in G PROVE k + 1 \in G
  <2>1. k \in Nat /\ k + 1 \in Nat
    OBVIOUS
  <2>2. PICK f : Euclid(f, k)
    OBVIOUS
  <2> DEFINE g == [e \in Nat \X Nat |-> IF e[2] = 0 THEN e[1] ELSE f[<<e[2], Rest(e[1], e[2])>>]]
  <2>3. g = [e \in Nat \X Nat |-> g[e]]
    OBVIOUS
  <2>4. ASSUME NEW a \in Nat, NEW b \in Nat, b <= k + 1
        PROVE  g[<<a, b>>] \in Nat /\ g[<<a, b>>] = IF b = 0 THEN a ELSE g[<<b, Rest(a, b)>>]
    <3>1. CASE b = 0
      BY <3>1
    <3>2. CASE b # 0
      <4>1. PICK c \in Nat : c = Rest(a, b) /\ c <= k
        <5>1. Rest(a, b) \in Nat /\ Rest(a, b) < b
          BY <3>2, RestBelow
        <5> QED
          BY <2>1, <2>4, <5>1
      <4>2. f[<<b, c>>] \in Nat /\ f[<<b, c>>] = IF c = 0 THEN b ELSE f[<<c, Rest(b, c)>>]
        BY <2>1, <2>2, <4>1, EuclidAt
      <4>3. g[<<a, b>>] = f[<<b, c>>] /\ g[<<b, c>>] = IF c = 0 THEN b ELSE f[<<c, Rest(b, c)>>]
        BY <3>2, <4>1
      <4> HIDE DEF g
      <4> QED
        BY <3>2, <4>1, <4>2, <4>3
    <3> QED
      BY <3>1, <3>2
  <2>5. Euclid(g, k + 1)
    <3> HIDE DEF g
    <3> QED
      BY <2>3, <2>4 DEF Euclid
  <2> QED
    <3> HIDE DEF g
    <3> QED
      BY <2>1, <2>5
<1>3. G = Nat
  <2> HIDE DEF G
  <2>1. G \in SUBSET Nat
    BY DEF G
  <2> QED
    BY <1>1, <1>2, <2>1, Counting
<1> QED
  BY <1>3

\* Two such functions agree as far as both reach.
LEMMA EuclidsAgree ==
  ASSUME NEW n \in Nat, NEW m \in Nat, n <= m,
         NEW f, Euclid(f, n), NEW g, Euclid(g, m)
  PROVE  \A a \in Nat, b \in Nat : b <= n => f[<<a, b>>] = g[<<a, b>>]
<1> DEFINE G == {k \in Nat : \A a, b \in Nat : (b <= k /\ b <= n) => f[<<a, b>>] = g[<<a, b>>]}
<1>1. 0 \in G
  <2>1. ASSUME NEW a \in Nat, NEW b \in Nat, b <= 0 PROVE f[<<a, b>>] = g[<<a, b>>]
    <3>1. b = 0
      BY <2>1
    <3>2. f[<<a, 0>>] = a /\ g[<<a, 0>>] = a
      BY EuclidAtZero
    <3> QED
      BY <3>1, <3>2
  <2> QED
    BY <2>1
<1>2. ASSUME NEW k \in G PROVE k + 1 \in G
  <2>0. k \in Nat /\ k + 1 \in Nat
    OBVIOUS
  <2>1. ASSUME NEW a \in Nat, NEW b \in Nat, b <= k + 1, b <= n PROVE f[<<a, b>>] = g[<<a, b>>]
    <3>0. b <= m
      BY <2>1
    <3>1. CASE b = 0
      BY <2>1, <3>0, <3>1, EuclidAt
    <3>2. CASE b # 0
      <4>1. PICK c \in Nat : c = Rest(a, b) /\ c <= k /\ c <= n
        <5>1. Rest(a, b) \in Nat /\ Rest(a, b) < b
          BY <3>2, RestBelow
        <5> QED
          BY <2>0, <2>1, <5>1
      <4>2. f[<<a, b>>] = f[<<b, c>>] /\ g[<<a, b>>] = g[<<b, c>>]
        BY <2>1, <3>0, <3>2, <4>1, EuclidAt
      <4>3. f[<<b, c>>] = g[<<b, c>>]
        BY <4>1
      <4> QED
        BY <4>2, <4>3
    <3> QED
      BY <3>1, <3>2
  <2> QED
    BY <2>0, <2>1
<1>3. G = Nat
  <2> HIDE DEF G
  <2>1. G \in SUBSET Nat
    BY DEF G
  <2> QED
    BY <1>1, <1>2, <2>1, Counting
<1> QED
  BY <1>3

LEMMA GcdType ==
  ASSUME NEW a \in Nat, NEW b \in Nat
  PROVE  Gcd[<<a, b>>] \in Nat
<1> DEFINE upTo(n) == CHOOSE g : Euclid(g, n)
           g == [e \in Nat \X Nat |-> upTo(e[2])[e]]
           Is(h) == h = [e \in Nat \X Nat |->
                          IF e[2] = 0 THEN e[1] ELSE h[<<e[2], Rest(e[1], e[2])>>]]
<1>1. \A n \in Nat : Euclid(upTo(n), n)
  BY EuclidExists
<1> HIDE DEF upTo
<1>2. ASSUME NEW x \in Nat, NEW y \in Nat
      PROVE  g[<<x, y>>] = IF y = 0 THEN x ELSE g[<<y, Rest(x, y)>>]
  <2>0. g[<<x, y>>] = upTo(y)[<<x, y>>]
    OBVIOUS
  <2>1. CASE y = 0
    <3>1. upTo(0)[<<x, 0>>] = x
      BY <1>1, EuclidAtZero
    <3> QED
      BY <2>0, <2>1, <3>1
  <2>2. CASE y # 0
    <3>1. PICK c \in Nat : c = Rest(x, y) /\ c < y
      BY <2>2, RestBelow
    <3>2. upTo(y)[<<x, y>>] = upTo(y)[<<y, c>>]
      BY <1>1, <2>2, <3>1, EuclidAt
    <3>3. upTo(y)[<<y, c>>] = upTo(c)[<<y, c>>]
      <4>1. c <= y /\ c <= c
        BY <3>1
      <4> QED
        BY <1>1, <4>1, EuclidsAgree
    <3>4. g[<<y, c>>] = upTo(c)[<<y, c>>]
      OBVIOUS
    <3> HIDE DEF g
    <3> QED
      BY <2>0, <2>2, <3>1, <3>2, <3>3, <3>4
  <2> QED
    BY <2>1, <2>2
<1>3. Is(g)
  <2>1. g = [e \in Nat \X Nat |-> g[e]]
    OBVIOUS
  <2> HIDE DEF g
  <2> QED
    BY <1>2, <2>1
<1>4. Is(Gcd)
  <2> HIDE DEF Is, g
  <2>1. \E h : Is(h)
    BY <1>3
  <2>2. Gcd = CHOOSE h : Is(h)
    BY DEF Gcd, Is, Rest
  <2> QED
    BY <2>1, <2>2
<1>5. \A x, y \in Nat : Gcd[<<x, y>>] = IF y = 0 THEN x ELSE Gcd[<<y, Rest(x, y)>>]
  BY <1>4
<1> DEFINE G == {k \in Nat : \A x, y \in Nat : y <= k => Gcd[<<x, y>>] \in Nat}
<1> HIDE DEF Is, g
<1>6. 0 \in G
  <2>1. ASSUME NEW x \in Nat, NEW y \in Nat, y <= 0 PROVE Gcd[<<x, y>>] \in Nat
    <3>1. y = 0
      BY <2>1
    <3> QED
      BY <1>5, <3>1
  <2> QED
    BY <2>1
<1>7. ASSUME NEW k \in G PROVE k + 1 \in G
  <2>0. k \in Nat /\ k + 1 \in Nat
    OBVIOUS
  <2>1. ASSUME NEW x \in Nat, NEW y \in Nat, y <= k + 1 PROVE Gcd[<<x, y>>] \in Nat
    <3>1. CASE y = 0
      BY <1>5, <3>1
    <3>2. CASE y # 0
      <4>1. PICK c \in Nat : c = Rest(x, y) /\ c <= k
        <5>1. Rest(x, y) \in Nat /\ Rest(x, y) < y
          BY <3>2, RestBelow
        <5> QED
          BY <2>0, <2>1, <5>1
      <4>2. Gcd[<<x, y>>] = Gcd[<<y, c>>]
        BY <1>5, <3>2, <4>1
      <4> QED
        BY <4>1, <4>2
    <3> QED
      BY <3>1, <3>2
  <2> QED
    BY <2>0, <2>1
<1>8. G = Nat
  <2> HIDE DEF G
  <2>1. G \in SUBSET Nat
    BY DEF G
  <2> QED
    BY <1>6, <1>7, <2>1, Counting
<1> QED
  BY <1>8

-----------------------------------------------------------------------------
(* Sums and products.  The folds of the community modules take the         *)
(* elements of a set in the order in which CHOOSE gives them; what they    *)
(* come to does not depend on it.                                          *)

Some(s) == CHOOSE x \in s : TRUE

\* The operations that sums, products and common divisors repeat.
Unit(op) == IF op = "*" THEN 1 ELSE 0
Combine(op, a, b) ==
  IF op = "+" THEN a + b ELSE IF op = "*" THEN a * b ELSE Gcd[<<a, b>>]

\* V is closed under the operation.
ClosedUnder(op, V) == Unit(op) \in V /\ \A a, b \in V : Combine(op, a, b) \in V

LEMMA IntClosed ==
  ASSUME NEW op \in {"+", "*"} PROVE ClosedUnder(op, Int)
BY DEF ClosedUnder, Unit, Combine

LEMMA NatClosed ==
  ASSUME NEW op \in {"+", "*", "gcd"} PROVE ClosedUnder(op, Nat)
<1>1. ASSUME NEW a \in Nat, NEW b \in Nat PROVE Combine(op, a, b) \in Nat
  <2>1. CASE op = "gcd"
    BY <2>1, GcdType DEF Combine
  <2>2. CASE op # "gcd"
    <3>1. a + b \in Nat /\ a * b \in Nat
      OBVIOUS
    <3> QED
      BY <2>2, <3>1 DEF Combine
  <2> QED
    BY <2>1, <2>2
<1>2. Unit(op) \in Nat
  BY DEF Unit
<1> QED
  BY <1>1, <1>2 DEF ClosedUnder

LEMMA CombineTurns ==
  ASSUME NEW op \in {"+", "*"}, NEW a \in Int, NEW b \in Int, NEW c \in Int
  PROVE  Combine(op, a, Combine(op, b, c)) = Combine(op, b, Combine(op, a, c))
<1>1. a * (b * c) = b * (a * c) /\ a + (b + c) = b + (a + c)
  OBVIOUS
<1> QED
  BY <1>1 DEF Combine

\* g is the sum, or the product, of the values of w over every subset of S.
Folds(op, g, w, S) ==
  g = [s \in SUBSET S |->
        IF s = {} THEN Unit(op) ELSE Combine(op, w[Some(s)], g[s \ {Some(s)}])]

LEMMA SomeIsMember ==
  ASSUME NEW s, s # {} PROVE Some(s) \in s
BY DEF Some

LEMMA OneFewer ==
  ASSUME NEW S, IsFiniteSet(S), NEW s \in SUBSET S, s # {}
  PROVE  /\ s \ {Some(s)} \in SUBSET S
         /\ IsFiniteSet(s) /\ Cardinality(s) \in Nat \ {0}
         /\ Cardinality(s \ {Some(s)}) = Cardinality(s) - 1
<1>1. Some(s) \in s
  BY SomeIsMember
<1>2. IsFiniteSet(s)
  BY FS_Subset
<1>3. Cardinality(s) \in Nat /\ Cardinality(s) # 0
  BY <1>2, FS_CardinalityType, FS_EmptySet
<1>4. Cardinality(s \ {Some(s)}) = Cardinality(s) - 1
  BY <1>1, <1>2, FS_RemoveElement
<1> QED
  BY <1>2, <1>3, <1>4

LEMMA FoldExists ==
  ASSUME NEW op, NEW S, IsFiniteSet(S), NEW w
  PROVE  \E g : Folds(op, g, w, S)
<1> DEFINE Value(g, s) == IF s = {} THEN Unit(op) ELSE Combine(op, w[Some(s)], g[s \ {Some(s)}])
           Upto(g, n) == /\ g = [s \in SUBSET S |-> g[s]]
                         /\ \A s \in SUBSET S : Cardinality(s) <= n => g[s] = Value(g, s)
           Bad == {n \in Nat : ~ \E g : Upto(g, n)}
<1>1. Bad = {}
  <2> SUFFICES ASSUME Bad # {} PROVE FALSE
    OBVIOUS
  <2>1. PICK n \in Bad : \A k \in Bad : n <= k
    <3> HIDE DEF Bad
    <3>1. Bad \in SUBSET Nat
      BY DEF Bad
    <3> QED
      BY <3>1, LeastNumber
  <2>2. CASE n = 0
    <3> DEFINE g == [s \in SUBSET S |-> Unit(op)]
    <3>1. ASSUME NEW s \in SUBSET S, Cardinality(s) <= 0 PROVE s = {}
      <4>1. s # {} => Cardinality(s) \in Nat \ {0}
        BY OneFewer
      <4> QED
        BY <3>1, <4>1
    <3>2. Upto(g, n)
      BY <2>2, <3>1
    <3>3. \E f : Upto(f, n)
      <4> HIDE DEF g, Upto
      <4> QED
        BY <3>2
    <3> QED
      <4> HIDE DEF Upto
      <4> QED
        BY <2>1, <3>3
  <2>3. CASE n # 0
    <3>1. n - 1 \in Nat /\ n - 1 \notin Bad
      <4>1. n \in Nat
        OBVIOUS
      <4> HIDE DEF Bad
      <4> QED
        BY <2>1, <2>3, <4>1
    <3>2. PICK f : Upto(f, n - 1)
      BY <3>1
    <3> DEFINE g == [s \in SUBSET S |-> Value(f, s)]
    <3>3. ASSUME NEW s \in SUBSET S, Cardinality(s) <= n PROVE g[s] = Value(g, s)
      <4>1. CASE s = {}
        BY <4>1
      <4>2. CASE s # {}
        <5>1. s \ {Some(s)} \in SUBSET S /\ Cardinality(s \ {Some(s)}) <= n - 1
          BY <3>3, <4>2, OneFewer
        <5>2. f[s \ {Some(s)}] = Value(f, s \ {Some(s)})
          BY <3>2, <5>1
        <5>3. g[s \ {Some(s)}] = f[s \ {Some(s)}]
          BY <5>1, <5>2
        <5> QED
          BY <4>2, <5>3
      <4> QED
        BY <4>1, <4>2
    <3>4. g = [s \in SUBSET S |-> g[s]]
      OBVIOUS
    <3>5. Upto(g, n)
      <4> HIDE DEF g, Value
      <4> QED
        BY <3>3, <3>4
    <3>6. \E h : Upto(h, n)
      <4> HIDE DEF g, Upto
      <4> QED
        BY <3>5
    <3> QED
      <4> HIDE DEF Upto
      <4> QED
        BY <2>1, <3>6
  <2> QED
    BY <2>2, <2>3
<1>2. Cardinality(S) \in Nat
  BY FS_CardinalityType
<1>3. PICK g : Upto(g, Cardinality(S))
  <2> HIDE DEF Upto
  <2> QED
    BY <1>1, <1>2
<1>4. \A s \in SUBSET S : Cardinality(s) <= Cardinality(S)
  BY FS_Subset
<1>5. g = [s \in SUBSET S |-> g[s]] /\ \A s \in SUBSET S : g[s] = Value(g, s)
  BY <1>3, <1>4
<1>6. g = [s \in SUBSET S |-> Value(g, s)]
  BY <1>5
<1> QED
  BY <1>6 DEF Folds

Integral(w, S) == \A x \in S : w[x] \in Int

LEMMA FoldsType ==
  ASSUME NEW op, NEW V, ClosedUnder(op, V), NEW S, IsFiniteSet(S), NEW w, \A x \in S : w[x] \in V,
         NEW g, Folds(op, g, w, S)
  PROVE  \A s \in SUBSET S : g[s] \in V
<1> DEFINE G == {n \in Nat : \A s \in SUBSET S : Cardinality(s) = n => g[s] \in V}
<1>1. 0 \in G
  <2>1. ASSUME NEW s \in SUBSET S, Cardinality(s) = 0 PROVE g[s] \in V
    <3>1. s = {}
      BY <2>1, OneFewer
    <3>2. Unit(op) \in V
      BY DEF ClosedUnder
    <3> QED
      BY <3>1, <3>2 DEF Folds
  <2> QED
    BY <2>1
<1>2. ASSUME NEW n \in G PROVE n + 1 \in G
  <2>1. ASSUME NEW s \in SUBSET S, Cardinality(s) = n + 1 PROVE g[s] \in V
    <3>1. s # {}
      <4>1. n \in Nat
        OBVIOUS
      <4> HIDE DEF G
      <4> QED
        BY <2>1, <4>1, FS_EmptySet
    <3>2. /\ s \ {Some(s)} \in SUBSET S /\ Cardinality(s \ {Some(s)}) = n
          /\ Some(s) \in S
      BY <2>1, <3>1, OneFewer, SomeIsMember
    <3>3. g[s] = Combine(op, w[Some(s)], g[s \ {Some(s)}])
      BY <3>1 DEF Folds
    <3>4. g[s \ {Some(s)}] \in V /\ w[Some(s)] \in V
      BY <3>2
    <3> QED
      BY <3>3, <3>4 DEF ClosedUnder
  <2> QED
    BY <2>1
<1>3. G = Nat
  <2> HIDE DEF G
  <2>1. G \in SUBSET Nat
    BY DEF G
  <2> QED
    BY <1>1, <1>2, <2>1, Counting
<1>4. ASSUME NEW s \in SUBSET S PROVE g[s] \in V
  <2>1. Cardinality(s) \in Nat
    BY FS_Subset, FS_CardinalityType
  <2> QED
    BY <1>3, <2>1
<1> QED
  BY <1>4

\* Two folds over the same elements are the same.
LEMMA FoldsAgree ==
  ASSUME NEW op, NEW S, IsFiniteSet(S), NEW w, NEW g, Folds(op, g, w, S),
         NEW T \in SUBSET S, NEW v, NEW h, Folds(op, h, v, T),
         \A x \in T : w[x] = v[x]
  PROVE  g[T] = h[T]
<1> DEFINE G == {n \in Nat : \A s \in SUBSET T : Cardinality(s) = n => g[s] = h[s]}
<1>1. 0 \in G
  <2>1. ASSUME NEW s \in SUBSET T, Cardinality(s) = 0 PROVE g[s] = h[s]
    <3>1. s = {} /\ s \in SUBSET S
      BY <2>1, OneFewer
    <3> QED
      BY <3>1 DEF Folds
  <2> QED
    BY <2>1
<1>2. ASSUME NEW n \in G PROVE n + 1 \in G
  <2>1. ASSUME NEW s \in SUBSET T, Cardinality(s) = n + 1 PROVE g[s] = h[s]
    <3>1. s # {} /\ s \in SUBSET S
      BY <2>1, FS_EmptySet
    <3>2. /\ s \ {Some(s)} \in SUBSET T /\ Cardinality(s \ {Some(s)}) = n
          /\ Some(s) \in T
      BY <2>1, <3>1, OneFewer, SomeIsMember
    <3>3. g[s] = Combine(op, w[Some(s)], g[s \ {Some(s)}]) /\ h[s] = Combine(op, v[Some(s)], h[s \ {Some(s)}])
      BY <3>1 DEF Folds
    <3>4. g[s \ {Some(s)}] = h[s \ {Some(s)}]
      BY <3>2
    <3> QED
      BY <3>2, <3>3, <3>4
  <2> QED
    BY <2>1
<1>3. G = Nat
  <2> HIDE DEF G
  <2>1. G \in SUBSET Nat
    BY DEF G
  <2> QED
    BY <1>1, <1>2, <2>1, Counting
<1>4. ASSUME NEW s \in SUBSET T PROVE g[s] = h[s]
  <2>1. Cardinality(s) \in Nat
    BY FS_Subset, FS_CardinalityType
  <2> QED
    BY <1>3, <2>1
<1> QED
  BY <1>4

\* Any element may be the first.
LEMMA AnyFirst ==
  ASSUME NEW op \in {"+", "*"}, NEW S, IsFiniteSet(S), NEW w, Integral(w, S),
         NEW g, Folds(op, g, w, S), NEW t \in SUBSET S, NEW x \in t
  PROVE  g[t] = Combine(op, w[x], g[t \ {x}])
<1> USE DEF Integral
<1> DEFINE G == {n \in Nat : \A s \in SUBSET S : Cardinality(s) = n =>
                               \A y \in s : g[s] = Combine(op, w[y], g[s \ {y}])}
<1>0. \A s \in SUBSET S : g[s] \in Int
  BY IntClosed, FoldsType
<1>1. 0 \in G
  <2>1. ASSUME NEW s \in SUBSET S, Cardinality(s) = 0 PROVE s = {}
    BY <2>1, OneFewer
  <2> QED
    BY <2>1
<1>2. ASSUME NEW n \in G PROVE n + 1 \in G
  <2>1. ASSUME NEW s \in SUBSET S, Cardinality(s) = n + 1, NEW y \in s
        PROVE  g[s] = Combine(op, w[y], g[s \ {y}])
    <3>1. s # {}
      OBVIOUS
    <3>2. PICK c \in s : c = Some(s)
      BY <3>1, SomeIsMember
    <3>3. /\ s \ {c} \in SUBSET S /\ Cardinality(s \ {c}) = n
          /\ g[s] = Combine(op, w[c], g[s \ {c}])
      <4>1. n \in Nat
        OBVIOUS
      <4> HIDE DEF G
      <4>2. Cardinality(s \ {c}) = n
        BY <2>1, <3>1, <3>2, <4>1, OneFewer
      <4>3. g[s] = Combine(op, w[c], g[s \ {c}])
        BY <3>1, <3>2 DEF Folds
      <4> QED
        BY <4>2, <4>3
    <3>4. CASE y = c
      BY <3>3, <3>4
    <3>5. CASE y # c
      <4>1. IsFiniteSet(s) /\ s \ {y} \in SUBSET S
        BY FS_Subset
      <4>2. Cardinality(s \ {y}) = n
        <5>1. n \in Nat
          OBVIOUS
        <5> HIDE DEF G
        <5>2. Cardinality(s \ {y}) = Cardinality(s) - 1
          BY <4>1, FS_RemoveElement
        <5> QED
          BY <2>1, <5>1, <5>2
      <4>3. g[s \ {c}] = Combine(op, w[y], g[(s \ {c}) \ {y}])
        BY <3>3, <3>5
      <4>4. g[s \ {y}] = Combine(op, w[c], g[(s \ {y}) \ {c}])
        BY <3>5, <4>1, <4>2
      <4>5. (s \ {y}) \ {c} = (s \ {c}) \ {y}
        OBVIOUS
      <4>6. PICK a \in Int, b \in Int, r \in Int :
              a = w[c] /\ b = w[y] /\ r = g[(s \ {c}) \ {y}]
        <5>1. (s \ {c}) \ {y} \in SUBSET S /\ c \in S /\ y \in S
          OBVIOUS
        <5> QED
          BY <1>0, <5>1
      <4>7. g[s] = Combine(op, a, Combine(op, b, r)) /\ g[s \ {y}] = Combine(op, a, r)
        BY <3>3, <4>3, <4>4, <4>5, <4>6
      <4> QED
        BY <4>6, <4>7, CombineTurns
    <3> QED
      BY <3>4, <3>5
  <2> QED
    BY <2>1
<1>3. G = Nat
  <2> HIDE DEF G
  <2>1. G \in SUBSET Nat
    BY DEF G
  <2> QED
    BY <1>1, <1>2, <2>1, Counting
<1>4. ASSUME NEW s \in SUBSET S, NEW y \in s PROVE g[s] = Combine(op, w[y], g[s \ {y}])
  <2>1. Cardinality(s) \in Nat
    BY FS_Subset, FS_CardinalityType
  <2> QED
    BY <1>3, <2>1
<1> QED
  BY <1>4

FoldOf(op, w, S) == (CHOOSE g : Folds(op, g, w, S))[S]

LEMMA FoldIs ==
  ASSUME NEW op, NEW S, IsFiniteSet(S), NEW w
  PROVE  \E g : Folds(op, g, w, S) /\ FoldOf(op, w, S) = g[S]
BY FoldExists DEF FoldOf

LEMMA FoldOfNone ==
  ASSUME NEW op, NEW w PROVE FoldOf(op, w, {}) = Unit(op)
<1>1. IsFiniteSet({})
  BY FS_EmptySet
<1>2. PICK g : Folds(op, g, w, {}) /\ FoldOf(op, w, {}) = g[{}]
  BY <1>1, FoldIs
<1> QED
  BY <1>2 DEF Folds

LEMMA FoldType ==
  ASSUME NEW op \in {"+", "*"}, NEW S, IsFiniteSet(S), NEW w, Integral(w, S)
  PROVE  FoldOf(op, w, S) \in Int
<1>1. PICK g : Folds(op, g, w, S) /\ FoldOf(op, w, S) = g[S]
  BY FoldIs
<1> QED
  BY <1>1, IntClosed, FoldsType DEF Integral

LEMMA FoldNatural ==
  ASSUME NEW op \in {"+", "*", "gcd"}, NEW S, IsFiniteSet(S), NEW w, \A x \in S : w[x] \in Nat
  PROVE  FoldOf(op, w, S) \in Nat
<1>1. PICK g : Folds(op, g, w, S) /\ FoldOf(op, w, S) = g[S]
  BY FoldIs
<1> QED
  BY <1>1, NatClosed, FoldsType

LEMMA SameFolds ==
  ASSUME NEW op, NEW S, IsFiniteSet(S), NEW w, NEW v, \A x \in S : w[x] = v[x]
  PROVE  FoldOf(op, w, S) = FoldOf(op, v, S)
<1>1. PICK g : Folds(op, g, w, S) /\ FoldOf(op, w, S) = g[S]
  BY FoldIs
<1>2. PICK h : Folds(op, h, v, S) /\ FoldOf(op, v, S) = h[S]
  BY FoldIs
<1> QED
  BY <1>1, <1>2, FoldsAgree

LEMMA FoldOfOneMore ==
  ASSUME NEW op \in {"+", "*"}, NEW S, IsFiniteSet(S), NEW y, y \notin S, NEW w, Integral(w, S \cup {y})
  PROVE  FoldOf(op, w, S \cup {y}) = Combine(op, w[y], FoldOf(op, w, S))
<1>1. IsFiniteSet(S \cup {y})
  BY FS_AddElement
<1>2. PICK g : Folds(op, g, w, S \cup {y}) /\ FoldOf(op, w, S \cup {y}) = g[S \cup {y}]
  BY <1>1, FoldIs
<1>3. PICK h : Folds(op, h, w, S) /\ FoldOf(op, w, S) = h[S]
  BY FoldIs
<1>4. g[S \cup {y}] = Combine(op, w[y], g[(S \cup {y}) \ {y}])
  <2>1. PICK T : T = S \cup {y}
    OBVIOUS
  <2>2. T \in SUBSET T /\ y \in T
    BY <2>1
  <2>3. IsFiniteSet(T) /\ Folds(op, g, w, T) /\ Integral(w, T)
    BY <1>1, <1>2, <2>1
  <2>4. g[T] = Combine(op, w[y], g[T \ {y}])
    BY <2>2, <2>3, AnyFirst
  <2> QED
    BY <2>1, <2>4
<1>5. (S \cup {y}) \ {y} = S
  OBVIOUS
<1>6. g[S] = h[S]
  <2>1. PICK T : T = S \cup {y}
    OBVIOUS
  <2>2. IsFiniteSet(T) /\ Folds(op, g, w, T) /\ S \in SUBSET T
    BY <1>1, <1>2, <2>1
  <2> QED
    BY <1>3, <2>2, FoldsAgree
<1> QED
  BY <1>2, <1>3, <1>4, <1>5, <1>6

\* The sum of the values of w over S, and their product.
Total(w, S) == FoldOf("+", w, S)
ProductOf(w, S) == FoldOf("*", w, S)

LEMMA TotalOfNone ==
  ASSUME NEW w PROVE Total(w, {}) = 0
BY FoldOfNone DEF Total, Unit

LEMMA TotalType ==
  ASSUME NEW S, IsFiniteSet(S), NEW w, Integral(w, S)
  PROVE  Total(w, S) \in Int
BY FoldType DEF Total

LEMMA TotalsAgree ==
  ASSUME NEW S, IsFiniteSet(S), NEW w, NEW v, \A x \in S : w[x] = v[x]
  PROVE  Total(w, S) = Total(v, S)
BY SameFolds DEF Total

LEMMA TotalOfOneMore ==
  ASSUME NEW S, IsFiniteSet(S), NEW y, y \notin S, NEW w, Integral(w, S \cup {y})
  PROVE  Total(w, S \cup {y}) = w[y] + Total(w, S)
BY FoldOfOneMore DEF Total, Combine

LEMMA ProductOfNone ==
  ASSUME NEW w PROVE ProductOf(w, {}) = 1
BY FoldOfNone DEF ProductOf, Unit

LEMMA ProductType ==
  ASSUME NEW S, IsFiniteSet(S), NEW w, Integral(w, S)
  PROVE  ProductOf(w, S) \in Int
BY FoldType DEF ProductOf

LEMMA ProductsAgree ==
  ASSUME NEW S, IsFiniteSet(S), NEW w, NEW v, \A x \in S : w[x] = v[x]
  PROVE  ProductOf(w, S) = ProductOf(v, S)
BY SameFolds DEF ProductOf

LEMMA ProductOfOneMore ==
  ASSUME NEW S, IsFiniteSet(S), NEW y, y \notin S, NEW w, Integral(w, S \cup {y})
  PROVE  ProductOf(w, S \cup {y}) = w[y] * ProductOf(w, S)
BY FoldOfOneMore DEF ProductOf, Combine

\* What holds of the empty set and is kept when an element is added holds of S.
LEMMA Growing ==
  ASSUME NEW S, IsFiniteSet(S), NEW G \in SUBSET (SUBSET S), {} \in G,
         \A T \in G : \A y \in S \ T : T \cup {y} \in G
  PROVE  S \in G
<1> DEFINE K == {n \in Nat : \A T \in SUBSET S : Cardinality(T) = n => T \in G}
<1>1. 0 \in K
  <2>1. ASSUME NEW T \in SUBSET S, Cardinality(T) = 0 PROVE T = {}
    BY <2>1, OneFewer
  <2> QED
    BY <2>1
<1>2. ASSUME NEW n \in K PROVE n + 1 \in K
  <2>1. ASSUME NEW T \in SUBSET S, Cardinality(T) = n + 1 PROVE T \in G
    <3>1. n \in Nat
      OBVIOUS
    <3>2. T # {}
      <4>1. Cardinality({}) = 0
        BY FS_EmptySet
      <4> HIDE DEF K
      <4>2. Cardinality(T) # 0
        BY <2>1, <3>1
      <4> QED
        BY <4>1, <4>2
    <3>3. PICK y \in T : y = Some(T)
      BY <3>2, SomeIsMember
    <3>4. T \ {y} \in SUBSET S /\ Cardinality(T \ {y}) = n
      <4> HIDE DEF K
      <4> QED
        BY <2>1, <3>1, <3>2, <3>3, OneFewer
    <3>5. T \ {y} \in G
      BY <3>4
    <3>6. y \in S \ (T \ {y}) /\ (T \ {y}) \cup {y} = T
      OBVIOUS
    <3> QED
      BY <3>5, <3>6
  <2> QED
    BY <2>1
<1>3. K = Nat
  <2> HIDE DEF K
  <2>1. K \in SUBSET Nat
    BY DEF K
  <2> QED
    BY <1>1, <1>2, <2>1, Counting
<1>4. Cardinality(S) \in Nat
  BY FS_CardinalityType
<1> QED
  BY <1>3, <1>4

LEMMA TotalOfZeros ==
  ASSUME NEW S, IsFiniteSet(S), NEW w, \A x \in S : w[x] = 0
  PROVE  Total(w, S) = 0
<1> DEFINE G == {T \in SUBSET S : Total(w, T) = 0}
<1>1. {} \in G
  BY TotalOfNone
<1>2. ASSUME NEW T \in G, NEW y \in S \ T PROVE T \cup {y} \in G
  <2>1. IsFiniteSet(T) /\ y \notin T /\ Integral(w, T \cup {y})
    BY FS_Subset DEF Integral
  <2>2. Total(w, T \cup {y}) = w[y] + Total(w, T)
    BY <2>1, TotalOfOneMore
  <2>3. w[y] = 0 /\ Total(w, T) = 0
    OBVIOUS
  <2>4. w[y] + Total(w, T) = 0
    BY <2>3
  <2> QED
    BY <2>2, <2>4
<1>3. S \in G
  <2> HIDE DEF G
  <2>1. G \in SUBSET (SUBSET S)
    BY DEF G
  <2> QED
    BY <1>1, <1>2, <2>1, Growing
<1> QED
  BY <1>3

-----------------------------------------------------------------------------
(* Polynomials                                                             *)

Powers == UNION {SUBSET (0 .. n) : n \in Nat}

Polys(p) == UNION {[D -> 1 .. p - 1] : D \in Powers}

LEMMA PolyIs ==
  ASSUME NEW p \in Nat \ {0}, NEW f
  PROVE  f \in Polys(p) <=> DOMAIN f \in Powers /\ f \in [DOMAIN f -> 1 .. p - 1]
BY DEF Polys

LEMMA PowersAre ==
  ASSUME NEW D \in Powers
  PROVE  IsFiniteSet(D) /\ D \subseteq Nat /\ \E n \in Nat : D \subseteq 0 .. n
<1>1. PICK n \in Nat : D \subseteq 0 .. n
  BY DEF Powers
<1>2. PICK I : I = 0 .. n /\ IsFiniteSet(I)
  BY FS_Interval
<1>3. D \in SUBSET I
  BY <1>1, <1>2
<1>4. IsFiniteSet(D)
  BY <1>2, <1>3, FS_Subset
<1> QED
  BY <1>1, <1>4

LEMMA NormalIs ==
  ASSUME NEW p \in Nat \ {0}, NEW D \in Powers, NEW c \in [D -> Int], NEW k
  PROVE  /\ Normal(p, c) \in Polys(p)
         /\ Coeff(Normal(p, c), k) = Coeff(c, k) % p
<1> DEFINE E == {j \in D : c[j] % p # 0}
<1>1. \A j \in D : c[j] % p \in 0 .. p - 1
  BY Remainder
<1>2. Normal(p, c) = [j \in E |-> c[j] % p]
  BY DEF Normal, RestrictValues, Restrict
<1>3. E \in Powers
  BY DEF Powers
<1>4. [j \in E |-> c[j] % p] \in [E -> 1 .. p - 1]
  BY <1>1
<1>5. Normal(p, c) \in Polys(p)
  BY <1>2, <1>3, <1>4 DEF Polys
<1>6. 0 % p = 0
  OBVIOUS
<1> QED
  BY <1>2, <1>5, <1>6 DEF Coeff

LEMMA PolyCoefficients ==
  ASSUME NEW p \in Nat \ {0}, NEW f \in Polys(p)
  PROVE  \A k : Coeff(f, k) \in 0 .. p - 1 /\ (Coeff(f, k) = 0 <=> k \notin DOMAIN f)
BY PolyIs DEF Coeff

LEMMA SamePoly ==
  ASSUME NEW p \in Nat \ {0}, NEW f \in Polys(p), NEW g \in Polys(p),
         \A k \in Nat : Coeff(f, k) = Coeff(g, k)
  PROVE  f = g
<1>1. DOMAIN f \subseteq Nat /\ DOMAIN g \subseteq Nat
  BY PolyIs, PowersAre
<1>2. DOMAIN f = DOMAIN g
  BY <1>1, PolyCoefficients
<1>3. \A k \in DOMAIN f : f[k] = g[k]
  BY <1>1, <1>2 DEF Coeff
<1> QED
  BY <1>2, <1>3, PolyIs

LEMMA ZeroIs ==
  ASSUME NEW p \in Nat \ {0}
  PROVE  /\ Zero \in Polys(p) /\ DOMAIN Zero = {}
         /\ \A k : Coeff(Zero, k) = 0
         /\ \A f \in Polys(p) : f = Zero <=> DOMAIN f = {}
<1>1. DOMAIN Zero = {} /\ Zero = [k \in {} |-> 1]
  BY DEF Zero
<1>2. {} \in Powers
  BY DEF Powers
<1>3. [k \in {} |-> 1] \in [{} -> 1 .. p - 1]
  OBVIOUS
<1>4. Zero \in Polys(p)
  BY <1>1, <1>2, <1>3 DEF Polys
<1>5. ASSUME NEW f \in Polys(p), DOMAIN f = {} PROVE f = Zero
  <2>1. f \in [{} -> 1 .. p - 1]
    BY <1>5, PolyIs
  <2> QED
    BY <1>1, <2>1
<1> QED
  BY <1>1, <1>4, <1>5 DEF Coeff

\* The leading term is the one with the highest power.
LEMMA LeadTermIs ==
  ASSUME NEW p \in Nat \ {0}, NEW f \in Polys(p), f # Zero
  PROVE  /\ Degree(f) \in DOMAIN f /\ Degree(f) \in Nat
         /\ LeadTerm(f) = <<Degree(f), f[Degree(f)]>>
         /\ f[Degree(f)] \in 1 .. p - 1
         /\ \A k \in DOMAIN f : k <= Degree(f)
<1>1. DOMAIN f # {} /\ DOMAIN f \in Powers
  BY ZeroIs, PolyIs
<1>2. PICK n \in Nat : DOMAIN f \subseteq 0 .. n
  BY <1>1, PowersAre
<1>3. PICK m \in DOMAIN f : \A k \in DOMAIN f : k <= m
  <2> DEFINE Below == {n - k : k \in DOMAIN f}
  <2>1. Below \in SUBSET Nat /\ Below # {}
    BY <1>1, <1>2
  <2>2. PICK x \in Below : \A y \in Below : x <= y
    <3> HIDE DEF Below
    <3> QED
      BY <2>1, LeastNumber
  <2>3. PICK m \in DOMAIN f : x = n - m
    OBVIOUS
  <2>4. ASSUME NEW k \in DOMAIN f PROVE k <= m
    <3>1. n - k \in Below
      OBVIOUS
    <3>2. n - m <= n - k
      BY <2>2, <2>3, <3>1
    <3> QED
      BY <1>2, <3>2
  <2> QED
    BY <2>4
<1>4. \A k \in DOMAIN f : m >= k
  BY <1>2, <1>3
<1>5. Max(DOMAIN f) \in DOMAIN f /\ \A k \in DOMAIN f : Max(DOMAIN f) >= k
  BY <1>4 DEF Max
<1>6. LeadTerm(f) = <<Max(DOMAIN f), f[Max(DOMAIN f)]>> /\ Degree(f) = Max(DOMAIN f)
  BY DEF LeadTerm, Degree
<1>7. \A k \in DOMAIN f : k <= Degree(f)
  BY <1>2, <1>5, <1>6
<1> QED
  BY <1>2, <1>5, <1>6, <1>7, PolyIs

LEMMA UnionOfPowers ==
  ASSUME NEW D \in Powers, NEW E \in Powers
  PROVE  D \cup E \in Powers
<1>1. PICK m \in Nat : D \subseteq 0 .. m
  BY PowersAre
<1>2. PICK n \in Nat : E \subseteq 0 .. n
  BY PowersAre
<1>3. D \cup E \subseteq 0 .. (m + n) /\ m + n \in Nat
  BY <1>1, <1>2
<1> QED
  BY <1>3 DEF Powers

LEMMA AddIs ==
  ASSUME NEW p \in Nat \ {0}, NEW f \in Polys(p), NEW g \in Polys(p), NEW k
  PROVE  /\ Add(p, f, g) \in Polys(p)
         /\ Coeff(Add(p, f, g), k) = (Coeff(f, k) + Coeff(g, k)) % p
<1>1. PICK D \in Powers : D = DOMAIN f \cup DOMAIN g
  BY PolyIs, UnionOfPowers
<1>2. PICK c \in [D -> Int] : c = [i \in D |-> Coeff(f, i) + Coeff(g, i)]
  <2>1. \A i \in D : Coeff(f, i) + Coeff(g, i) \in Int
    BY PolyCoefficients
  <2> QED
    BY <2>1
<1>3. Add(p, f, g) = Normal(p, c)
  BY <1>1, <1>2 DEF Add
<1>4. Coeff(c, k) = Coeff(f, k) + Coeff(g, k)
  BY <1>1, <1>2 DEF Coeff
<1> QED
  BY <1>3, <1>4, NormalIs

LEMMA SubIs ==
  ASSUME NEW p \in Nat \ {0}, NEW f \in Polys(p), NEW g \in Polys(p), NEW k
  PROVE  /\ Sub(p, f, g) \in Polys(p)
         /\ Coeff(Sub(p, f, g), k) = (Coeff(f, k) - Coeff(g, k)) % p
<1>1. PICK D \in Powers : D = DOMAIN f \cup DOMAIN g
  BY PolyIs, UnionOfPowers
<1>2. PICK c \in [D -> Int] : c = [i \in D |-> p + Coeff(f, i) - Coeff(g, i)]
  <2>1. \A i \in D : p + Coeff(f, i) - Coeff(g, i) \in Int
    BY PolyCoefficients
  <2> QED
    BY <2>1
<1>3. Sub(p, f, g) = Normal(p, c)
  BY <1>1, <1>2 DEF Sub
<1>4. Coeff(c, k) % p = (Coeff(f, k) - Coeff(g, k)) % p
  <2>1. CASE k \in D
    <3>1. PICK a \in Int, b \in Int : a = Coeff(f, k) /\ b = Coeff(g, k)
      BY PolyCoefficients
    <3>2. Coeff(c, k) = p + a - b
      BY <1>2, <2>1, <3>1 DEF Coeff
    <3>3. (p + a - b) - (a - b) = 1 * p
      OBVIOUS
    <3>4. Congruent(p, p + a - b, a - b) /\ p + a - b \in Int /\ a - b \in Int
      BY <3>3 DEF Congruent
    <3> QED
      BY <3>1, <3>2, <3>4, SameRemainder
  <2>2. CASE k \notin D
    <3>1. Coeff(c, k) = 0 /\ Coeff(f, k) = 0 /\ Coeff(g, k) = 0
      BY <1>1, <1>2, <2>2 DEF Coeff
    <3> QED
      BY <3>1
  <2> QED
    BY <2>1, <2>2
<1> QED
  BY <1>3, <1>4, NormalIs

\* The terms of the product that make up the coefficient of x^k.
Terms(f, g, k) == [i \in DOMAIN f |-> f[i] * Coeff(g, k - i)]

ProductCoeff(f, g, k) == Total(Terms(f, g, k), DOMAIN f)

LEMMA TermsIntegral ==
  ASSUME NEW p \in Nat \ {0}, NEW f \in Polys(p), NEW g \in Polys(p), NEW k
  PROVE  IsFiniteSet(DOMAIN f) /\ Integral(Terms(f, g, k), DOMAIN f)
         /\ ProductCoeff(f, g, k) \in Int
<1>1. IsFiniteSet(DOMAIN f)
  BY PolyIs, PowersAre
<1>2. \A i \in DOMAIN f : f[i] \in Int /\ Coeff(g, k - i) \in Int
  BY PolyIs, PolyCoefficients
<1>3. Integral(Terms(f, g, k), DOMAIN f)
  BY <1>2 DEF Integral, Terms
<1> QED
  BY <1>1, <1>3, TotalType DEF ProductCoeff

LEMMA FoldIsProductCoeff ==
  ASSUME NEW p \in Nat \ {0}, NEW f \in Polys(p), NEW g \in Polys(p), NEW k
  PROVE  MulCoeff(f, g, k) = ProductCoeff(f, g, k)
<1> DEFINE D == DOMAIN f
           Adds(it) == it = [s \in SUBSET D |->
                              IF s = {} THEN 0
                              ELSE f[Some(s)] * Coeff(g, k - Some(s)) + it[s \ {Some(s)}]]
           sum == CHOOSE it : Adds(it)
<1>1. IsFiniteSet(D)
  BY TermsIntegral
<1>2. PICK h : Folds("+", h, Terms(f, g, k), D)
  BY <1>1, FoldExists
<1>3. ASSUME NEW s \in SUBSET D, s # {}
      PROVE  Terms(f, g, k)[Some(s)] = f[Some(s)] * Coeff(g, k - Some(s))
  BY <1>3, SomeIsMember DEF Terms
<1>4. Adds(h)
  <2>1. h = [s \in SUBSET D |-> h[s]]
    BY <1>2 DEF Folds, Combine, Unit
  <2>2. ASSUME NEW s \in SUBSET D
        PROVE  h[s] = IF s = {} THEN 0
                      ELSE f[Some(s)] * Coeff(g, k - Some(s)) + h[s \ {Some(s)}]
    BY <1>2, <1>3 DEF Folds, Combine, Unit
  <2> QED
    BY <2>1, <2>2
<1>5. Adds(sum)
  <2> HIDE DEF Adds
  <2> QED
    BY <1>4
<1>6. Folds("+", sum, Terms(f, g, k), D)
  <2> HIDE DEF sum
  <2>1. sum = [s \in SUBSET D |-> sum[s]]
    BY <1>5
  <2>2. ASSUME NEW s \in SUBSET D
        PROVE  sum[s] = IF s = {} THEN 0
                        ELSE Terms(f, g, k)[Some(s)] + sum[s \ {Some(s)}]
    BY <1>3, <1>5
  <2> QED
    BY <2>1, <2>2 DEF Folds, Combine, Unit
<1>7. MulCoeff(f, g, k) = sum[D]
  BY DEF MulCoeff, MapThenSumSet, MapThenFoldSet, Some
<1>8. PICK t : Folds("+", t, Terms(f, g, k), D) /\ Total(Terms(f, g, k), D) = t[D]
  BY <1>1, FoldIs DEF Total
<1>9. sum[D] = t[D]
  <2> HIDE DEF sum, D
  <2> QED
    BY <1>1, <1>6, <1>8, FoldsAgree
<1> QED
  BY <1>7, <1>8, <1>9 DEF ProductCoeff

\* The coefficients of the product of two polynomials are the sums of the
\* products of their coefficients.
LEMMA MulIs ==
  ASSUME NEW p \in Nat \ {0}, NEW f \in Polys(p), NEW g \in Polys(p), NEW k \in Int
  PROVE  /\ Mul(p, f, g) \in Polys(p)
         /\ Coeff(Mul(p, f, g), k) = ProductCoeff(f, g, k) % p
<1>1. DOMAIN f \in Powers /\ DOMAIN g \in Powers
  BY PolyIs
<1>2. DOMAIN f \subseteq Nat /\ DOMAIN g \subseteq Nat
  BY <1>1, PowersAre
<1> DEFINE Sums == {i + j : i \in DOMAIN f, j \in DOMAIN g}
<1>3. PICK D \in Powers : D = Sums
  <2>1. PICK m \in Nat : DOMAIN f \subseteq 0 .. m
    BY <1>1, PowersAre
  <2>2. PICK n \in Nat : DOMAIN g \subseteq 0 .. n
    BY <1>1, PowersAre
  <2>3. PICK b \in Nat : b = m + n
    OBVIOUS
  <2>4. Sums \subseteq 0 .. b
    BY <2>1, <2>2, <2>3
  <2> HIDE DEF Sums
  <2>5. Sums \in SUBSET (0 .. b)
    BY <2>4
  <2>6. Sums \in Powers
    BY <2>5 DEF Powers
  <2> QED
    BY <2>6
<1>4. PICK c \in [D -> Int] : c = [n \in D |-> ProductCoeff(f, g, n)]
  <2>1. \A n \in D : ProductCoeff(f, g, n) \in Int
    BY TermsIntegral
  <2> QED
    BY <2>1
<1>5. Mul(p, f, g) = Normal(p, c)
  <2>1. \A n \in D : MulCoeff(f, g, n) = ProductCoeff(f, g, n)
    BY FoldIsProductCoeff
  <2>2. Mul(p, f, g) = Normal(p, [n \in Sums |-> MulCoeff(f, g, n)])
    BY DEF Mul
  <2> HIDE DEF Sums
  <2>3. [n \in D |-> MulCoeff(f, g, n)] = c
    BY <1>4, <2>1
  <2> QED
    BY <1>3, <2>2, <2>3
<1>6. Coeff(c, k) = ProductCoeff(f, g, k)
  <2>1. CASE k \in D
    BY <1>4, <2>1 DEF Coeff
  <2>2. CASE k \notin D
    <3>1. ASSUME NEW i \in DOMAIN f PROVE Terms(f, g, k)[i] = 0
      <4>1. k - i \notin DOMAIN g
        <5>1. k = i + (k - i)
          BY <1>2
        <5>2. k \notin Sums
          BY <1>3, <2>2
        <5> QED
          BY <5>1, <5>2
      <4>2. f[i] * 0 = 0
        BY PolyIs
      <4> QED
        BY <4>1, <4>2 DEF Terms, Coeff
    <3>2. ProductCoeff(f, g, k) = 0
      BY <3>1, TermsIntegral, TotalOfZeros DEF ProductCoeff
    <3> QED
      BY <1>4, <2>2, <3>2 DEF Coeff
  <2> QED
    BY <2>1, <2>2
<1> QED
  BY <1>4, <1>5, <1>6, NormalIs

LEMMA MonomialIs ==
  ASSUME NEW p \in Nat \ {0}, NEW e \in Nat, NEW c \in 1 .. p - 1
  PROVE  /\ Monomial(e, c) \in Polys(p) /\ DOMAIN Monomial(e, c) = {e}
         /\ Monomial(e, c)[e] = c
<1>1. {e} \in Powers
  <2>1. {e} \subseteq 0 .. e
    OBVIOUS
  <2> QED
    BY <2>1 DEF Powers
<1>2. Monomial(e, c) \in [{e} -> 1 .. p - 1]
  BY DEF Monomial
<1> QED
  BY <1>1, <1>2 DEF Monomial, Polys

\* A power that q does not have yet adds its terms to the product.
LEMMA OneMoreTerm ==
  ASSUME NEW p \in Nat \ {0}, NEW q \in Polys(p), NEW g \in Polys(p), NEW u \in Polys(p),
         NEW e \in Nat, e \notin DOMAIN q, DOMAIN u = DOMAIN q \cup {e},
         \A i \in DOMAIN q : u[i] = q[i], NEW k \in Int
  PROVE  ProductCoeff(u, g, k) = u[e] * Coeff(g, k - e) + ProductCoeff(q, g, k)
<1>1. PICK D : D = DOMAIN q
  OBVIOUS
<1>2. IsFiniteSet(D) /\ e \notin D
  BY <1>1, TermsIntegral
<1>3. Integral(Terms(u, g, k), D \cup {e})
  BY <1>1, TermsIntegral
<1>4. Total(Terms(u, g, k), D \cup {e}) = Terms(u, g, k)[e] + Total(Terms(u, g, k), D)
  BY <1>2, <1>3, TotalOfOneMore
<1>5. \A i \in D : Terms(u, g, k)[i] = Terms(q, g, k)[i]
  BY <1>1 DEF Terms
<1>6. Total(Terms(u, g, k), D) = Total(Terms(q, g, k), D)
  BY <1>2, <1>5, TotalsAgree
<1>7. Terms(u, g, k)[e] = u[e] * Coeff(g, k - e)
  BY <1>1 DEF Terms
<1> QED
  BY <1>1, <1>4, <1>6, <1>7 DEF ProductCoeff

LEMMA MonomialProduct ==
  ASSUME NEW p \in Nat \ {0}, NEW e \in Nat, NEW c \in 1 .. p - 1, NEW g \in Polys(p),
         NEW k \in Int
  PROVE  /\ Mul(p, Monomial(e, c), g) \in Polys(p)
         /\ Coeff(Mul(p, Monomial(e, c), g), k) = (c * Coeff(g, k - e)) % p
<1>1. PICK t \in Polys(p) : t = Monomial(e, c) /\ DOMAIN t = {e} /\ t[e] = c
  BY MonomialIs
<1>2. Zero \in Polys(p) /\ DOMAIN Zero = {}
  BY ZeroIs
<1>3. PICK z \in Polys(p) : z = Zero /\ DOMAIN z = {}
  BY <1>2
<1>4. ProductCoeff(z, g, k) = 0
  BY <1>3, TotalOfNone DEF ProductCoeff
<1>5. ProductCoeff(t, g, k) = t[e] * Coeff(g, k - e) + ProductCoeff(z, g, k)
  <2>1. DOMAIN t = DOMAIN z \cup {e} /\ e \notin DOMAIN z
    BY <1>1, <1>3
  <2>2. \A i \in DOMAIN z : t[i] = z[i]
    BY <1>3
  <2> QED
    BY <2>1, <2>2, OneMoreTerm
<1>6. PICK x \in Int : x = c * Coeff(g, k - e)
  <2>1. Coeff(g, k - e) \in Int
    BY PolyCoefficients
  <2> QED
    BY <2>1
<1>7. ProductCoeff(t, g, k) = x
  BY <1>1, <1>4, <1>5, <1>6
<1> QED
  BY <1>1, <1>6, <1>7, MulIs

-----------------------------------------------------------------------------
(* Division with remainder                                                 *)

\* A turn of divmod takes from the remainder the multiple of the divisor that
\* has the same leading term.
LEMMA DivTurnIs ==
  ASSUME NEW p \in Nat \ {0, 1}, IsPrime(p), NEW g \in Polys(p), NEW q \in Polys(p),
         NEW r \in Polys(p), g # Zero, ~ DivEnds(g, r)
  PROVE  \E e \in Nat, c \in 1 .. p - 1 :
           /\ e = Degree(r) - Degree(g)
           /\ Congruent(p, c * g[Degree(g)], r[Degree(r)])
           /\ DivTurn(p, g, q, r) = <<Add(p, q, Monomial(e, c)),
                                      Sub(p, r, Mul(p, Monomial(e, c), g))>>
           /\ DivTurn(p, g, q, r) \in Polys(p) \X Polys(p)
<1>1. p \in Nat \ {0}
  OBVIOUS
<1>2. r # Zero /\ ~ (Degree(r) < Degree(g))
  BY DEF DivEnds
<1>3. PICK m \in Nat, a \in 1 .. p - 1 : m = Degree(r) /\ a = r[m] /\ LeadTerm(r) = <<m, a>>
  BY <1>1, <1>2, LeadTermIs
<1>4. PICK d \in Nat, b \in 1 .. p - 1 : d = Degree(g) /\ b = g[d] /\ LeadTerm(g) = <<d, b>>
  BY <1>1, LeadTermIs
<1>5. PICK e \in Nat : e = m - d
  BY <1>2, <1>3, <1>4
<1>6. PICK s \in Int : s = Egcd(b, p)[1] /\ Congruent(p, s * b, 1)
  BY EgcdInverts
<1>7. PICK n \in Int : n = s * a
  BY <1>6
<1>8. PICK c \in 0 .. p - 1 : c = n % p
  BY <1>1, Remainder
<1>9. Congruent(p, c * b, a)
  <2>1. Congruent(p, c, n)
    BY <1>1, <1>8, CongruentTransitive
  <2>2. Congruent(p, c * b, n * b)
    <3>1. c \in Int /\ b \in Int
      OBVIOUS
    <3> QED
      BY <1>1, <2>1, <3>1, CongruentProducts
  <2>3. n * b = a * (s * b) /\ a * 1 = a
    BY <1>7
  <2>4. Congruent(p, a * (s * b), a * 1)
    <3>1. PICK y \in Int : y = s * b
      OBVIOUS
    <3>2. a \in Int /\ 1 \in Int /\ Congruent(p, y, 1)
      BY <1>6, <3>1
    <3>3. Congruent(p, a * y, a * 1)
      BY <1>1, <3>2, CongruentProducts
    <3> QED
      BY <3>1, <3>3
  <2>5. Congruent(p, n * b, a)
    BY <2>3, <2>4
  <2>6. c * b \in Int /\ n * b \in Int /\ a \in Int
    OBVIOUS
  <2> QED
    BY <1>1, <2>2, <2>5, <2>6, CongruentTransitive
<1>10. c # 0
  <2> SUFFICES ASSUME c = 0 PROVE FALSE
    OBVIOUS
  <2>1. PICK z \in Int : 0 * b - a = z * p
    BY <1>9 DEF Congruent
  <2>2. -a = z * p
    BY <2>1
  <2>3. -p < z * p /\ z * p < p
    BY <2>2
  <2>4. z = 0
    BY <1>1, <2>3, SmallMultiple
  <2> QED
    BY <2>2, <2>4
<1>11. c \in 1 .. p - 1
  BY <1>10
<1>12. DivTurn(p, g, q, r) = <<Add(p, q, Monomial(e, c)), Sub(p, r, Mul(p, Monomial(e, c), g))>>
  BY <1>3, <1>4, <1>5, <1>6, <1>7, <1>8 DEF DivTurn
<1>13. Monomial(e, c) \in Polys(p) /\ Mul(p, Monomial(e, c), g) \in Polys(p)
  <2>1. 0 \in Int
    OBVIOUS
  <2> QED
    BY <1>1, <1>11, <2>1, MonomialIs, MonomialProduct
<1>14. /\ Add(p, q, Monomial(e, c)) \in Polys(p)
       /\ Sub(p, r, Mul(p, Monomial(e, c), g)) \in Polys(p)
  BY <1>1, <1>13, AddIs, SubIs
<1> QED
  BY <1>3, <1>4, <1>5, <1>9, <1>11, <1>12, <1>14

LEMMA DivRuns ==
  ASSUME NEW p \in Nat \ {0, 1}, IsPrime(p), NEW f \in Polys(p), NEW g \in Polys(p), g # Zero
  PROVE  \E h \in [Nat -> Polys(p) \X Polys(p)] :
           /\ h[0] = <<Zero, f>>
           /\ \A k \in Nat : h[k + 1] = IF DivEnds(g, h[k][2]) THEN h[k]
                                        ELSE DivTurn(p, g, h[k][1], h[k][2])
           /\ DivMod(p, f, g) = h[Degree(f) + 1]
<1> DEFINE States == Polys(p) \X Polys(p)
           Runs(h) == h = [k \in Nat |->
                             IF k = 0 THEN <<Zero, f>>
                             ELSE IF DivEnds(g, h[k - 1][2]) THEN h[k - 1]
                                  ELSE DivTurn(p, g, h[k - 1][1], h[k - 1][2])]
<1>0. ASSUME NEW d \in States, ~ DivEnds(g, d[2])
      PROVE  DivTurn(p, g, d[1], d[2]) \in States
  BY <1>0, DivTurnIs
<1>1. PICK step \in [States -> States] :
        step = [d \in States |-> IF DivEnds(g, d[2]) THEN d ELSE DivTurn(p, g, d[1], d[2])]
  <2> HIDE DEF States
  <2> QED
    BY <1>0
<1>2. <<Zero, f>> \in States
  BY ZeroIs
<1>3. PICK h : Repeats(h, States, <<Zero, f>>, step)
  <2> HIDE DEF States
  <2> QED
    BY <1>1, <1>2, Iterates
<1>4. ASSUME NEW k \in Nat, k # 0
      PROVE  h[k] = IF DivEnds(g, h[k - 1][2]) THEN h[k - 1]
                    ELSE DivTurn(p, g, h[k - 1][1], h[k - 1][2])
  <2> HIDE DEF States
  <2>1. k - 1 \in Nat /\ (k - 1) + 1 = k /\ h[k - 1] \in States
    BY <1>3, <1>4 DEF Repeats
  <2>2. h[(k - 1) + 1] = step[h[k - 1]]
    BY <1>3, <2>1 DEF Repeats
  <2> QED
    BY <1>1, <2>1, <2>2
<1>5. Runs(h)
  <2>1. h[0] = <<Zero, f>> /\ h = [k \in Nat |-> h[k]]
    BY <1>3 DEF Repeats
  <2> QED
    BY <1>4, <2>1
<1> DEFINE it == CHOOSE x : Runs(x)
<1>6. Runs(it)
  <2> HIDE DEF Runs
  <2> QED
    BY <1>5
<1>7. DivMod(p, f, g) = it[Degree(f) + 1]
  BY DEF DivMod, Loop
<1> HIDE DEF it
<1>8. it[0] = <<Zero, f>>
  BY <1>6
<1>9. ASSUME NEW k \in Nat
      PROVE  it[k + 1] = IF DivEnds(g, it[k][2]) THEN it[k]
                         ELSE DivTurn(p, g, it[k][1], it[k][2])
  <2>1. k + 1 \in Nat /\ k + 1 # 0 /\ (k + 1) - 1 = k
    OBVIOUS
  <2> QED
    BY <1>6, <2>1
<1>10. it \in [Nat -> States]
  <2> DEFINE G == {k \in Nat : it[k] \in States}
  <2>1. 0 \in G
    BY <1>2, <1>8
  <2>2. ASSUME NEW k \in G PROVE k + 1 \in G
    <3> HIDE DEF States
    <3> QED
      BY <1>0, <1>9
  <2>3. G = Nat
    <3> HIDE DEF G
    <3>1. G \in SUBSET Nat
      BY DEF G
    <3> QED
      BY <2>1, <2>2, <3>1, Counting
  <2>4. \A k \in Nat : it[k] \in States
    BY <2>3
  <2>5. it = [k \in Nat |-> it[k]]
    BY <1>6
  <2> QED
    BY <2>4, <2>5
<1> QED
  BY <1>7, <1>8, <1>9, <1>10

\* What the loop of divmod keeps: q*g + r and f have the same coefficients, and
\* the powers of q are higher than the one that is next.
Keeps(p, f, g, q, r) ==
  \A k \in Int : Congruent(p, ProductCoeff(q, g, k) + Coeff(r, k), Coeff(f, k))

Above(g, q, r) == r # Zero => \A i \in DOMAIN q : i > Degree(r) - Degree(g)

LEMMA DivTurnKeeps ==
  ASSUME NEW p \in Nat \ {0, 1}, IsPrime(p), NEW f \in Polys(p), NEW g \in Polys(p),
         NEW q \in Polys(p), NEW r \in Polys(p), g # Zero, ~ DivEnds(g, r),
         Keeps(p, f, g, q, r), Above(g, q, r)
  PROVE  \E u \in Polys(p), v \in Polys(p) :
           /\ DivTurn(p, g, q, r) = <<u, v>>
           /\ Keeps(p, f, g, u, v) /\ Above(g, u, v)
           /\ v = Zero \/ Degree(v) < Degree(r)
<1>0. p \in Nat \ {0}
  OBVIOUS
<1>1. PICK e \in Nat, c \in 1 .. p - 1 :
           /\ e = Degree(r) - Degree(g)
           /\ Congruent(p, c * g[Degree(g)], r[Degree(r)])
           /\ DivTurn(p, g, q, r) = <<Add(p, q, Monomial(e, c)),
                                      Sub(p, r, Mul(p, Monomial(e, c), g))>>
  BY DivTurnIs
<1>2. PICK t \in Polys(p) : t = Monomial(e, c) /\ DOMAIN t = {e} /\ t[e] = c
  <2>1. /\ Monomial(e, c) \in Polys(p) /\ DOMAIN Monomial(e, c) = {e}
        /\ Monomial(e, c)[e] = c
    BY <1>0, MonomialIs
  <2> QED
    BY <2>1
<1>3. PICK w \in Polys(p) : w = Mul(p, t, g) /\ \A k \in Int : Coeff(w, k) = (c * Coeff(g, k - e)) % p
  <2>1. \A k \in Int : /\ Mul(p, Monomial(e, c), g) \in Polys(p)
                       /\ Coeff(Mul(p, Monomial(e, c), g), k) = (c * Coeff(g, k - e)) % p
    BY <1>0, MonomialProduct
  <2> QED
    BY <1>2, <2>1
<1>4. PICK u \in Polys(p) : u = Add(p, q, t) /\ \A k \in Int : Coeff(u, k) = (Coeff(q, k) + Coeff(t, k)) % p
  BY <1>0, AddIs
<1>5. PICK v \in Polys(p) : v = Sub(p, r, w) /\ \A k \in Int : Coeff(v, k) = (Coeff(r, k) - Coeff(w, k)) % p
  BY <1>0, SubIs
<1>6. DivTurn(p, g, q, r) = <<u, v>>
  BY <1>1, <1>2, <1>3, <1>4, <1>5
<1>7. r # Zero /\ Degree(r) \in Nat /\ Degree(g) \in Nat /\ Degree(r) = e + Degree(g)
  <2>1. r # Zero
    BY DEF DivEnds
  <2>2. Degree(r) \in Nat /\ Degree(g) \in Nat
    BY <1>0, <2>1, LeadTermIs
  <2> QED
    BY <1>1, <2>1, <2>2
<1>8. e \notin DOMAIN q
  BY <1>1, <1>7 DEF Above
<1>9. DOMAIN u = DOMAIN q \cup {e} /\ u[e] = c /\ \A i \in DOMAIN q : u[i] = q[i]
  <2>1. DOMAIN q \subseteq Nat /\ DOMAIN u \subseteq Nat
    BY <1>0, PolyIs, PowersAre
  <2>2. ASSUME NEW k \in Nat
        PROVE  Coeff(u, k) = IF k = e THEN c ELSE Coeff(q, k)
    <3>1. CASE k = e
      <4>1. Coeff(q, k) = 0 /\ Coeff(t, k) = c
        BY <1>2, <1>8, <3>1 DEF Coeff
      <4>2. (0 + c) % p = c
        OBVIOUS
      <4> QED
        BY <1>4, <3>1, <4>1, <4>2
    <3>2. CASE k # e
      <4>1. Coeff(t, k) = 0
        BY <1>2, <3>2 DEF Coeff
      <4>2. PICK x \in 0 .. p - 1 : x = Coeff(q, k)
        BY <1>0, PolyCoefficients
      <4>3. (x + 0) % p = x
        OBVIOUS
      <4> QED
        BY <1>4, <3>2, <4>1, <4>2, <4>3
    <3> QED
      BY <3>1, <3>2
  <2>3. ASSUME NEW k \in Nat PROVE k \in DOMAIN u <=> k \in DOMAIN q \cup {e}
    BY <1>0, <2>2, PolyCoefficients
  <2>4. DOMAIN u = DOMAIN q \cup {e}
    BY <2>1, <2>3
  <2>5. u[e] = c
    BY <2>2, <2>4 DEF Coeff
  <2>6. ASSUME NEW i \in DOMAIN q PROVE u[i] = q[i]
    BY <1>8, <2>1, <2>2, <2>4 DEF Coeff
  <2> QED
    BY <2>4, <2>5, <2>6
<1>10. Keeps(p, f, g, u, v)
  <2>1. ASSUME NEW k \in Int
        PROVE  Congruent(p, ProductCoeff(u, g, k) + Coeff(v, k), Coeff(f, k))
    <3>1. PICK x \in Int : x = c * Coeff(g, k - e)
      <4>1. Coeff(g, k - e) \in Int
        BY <1>0, PolyCoefficients
      <4> QED
        BY <4>1
    <3>2. PICK y \in Int : y = ProductCoeff(q, g, k)
      BY <1>0, TermsIntegral
    <3>3. PICK z \in Int, o \in Int : z = Coeff(r, k) /\ o = Coeff(f, k)
      BY <1>0, PolyCoefficients
    <3>4. ProductCoeff(u, g, k) = x + y
      BY <1>0, <1>8, <1>9, <3>1, <3>2, OneMoreTerm
    <3>5. PICK j \in Int : j = x % p /\ Congruent(p, j, x)
      BY <1>0, Modulo
    <3>6. PICK l \in Int : l = (z - j) % p /\ Congruent(p, l, z - j)
      <4>1. z - j \in Int
        OBVIOUS
      <4> QED
        BY <1>0, <4>1, Modulo
    <3>7. Coeff(v, k) = l
      BY <1>3, <1>5, <3>1, <3>3, <3>5, <3>6
    <3>8. Congruent(p, z - j, z - x)
      <4>1. Congruent(p, z, z)
        BY <1>0, CongruentTransitive
      <4> QED
        BY <1>0, <3>5, <4>1, CongruentSums
    <3>9. Congruent(p, l, z - x)
      <4>1. z - j \in Int /\ z - x \in Int
        OBVIOUS
      <4> QED
        BY <1>0, <3>6, <3>8, <4>1, CongruentTransitive
    <3>10. Congruent(p, (x + y) + l, (x + y) + (z - x))
      <4>1. Congruent(p, x + y, x + y) /\ x + y \in Int /\ z - x \in Int
        <5>1. x + y \in Int /\ z - x \in Int
          OBVIOUS
        <5> QED
          BY <1>0, <5>1, Modulo
      <4> QED
        BY <1>0, <3>9, <4>1, CongruentSums
    <3>11. (x + y) + (z - x) = y + z
      OBVIOUS
    <3>12. Congruent(p, y + z, o)
      BY <3>2, <3>3 DEF Keeps
    <3>13. Congruent(p, (x + y) + l, o)
      <4>1. Congruent(p, (x + y) + l, y + z)
        BY <3>10, <3>11
      <4>2. (x + y) + l \in Int /\ y + z \in Int
        OBVIOUS
      <4> QED
        BY <1>0, <3>12, <4>1, <4>2, CongruentTransitive
    <3> QED
      BY <3>3, <3>4, <3>7, <3>13
  <2> QED
    BY <2>1 DEF Keeps
<1>11. ASSUME NEW k \in Nat, k >= Degree(r) PROVE Coeff(v, k) = 0
  <2>1. CASE k = Degree(r)
    <3>1. k - e = Degree(g)
      BY <1>7, <2>1
    <3>2. Degree(g) \in DOMAIN g /\ Degree(r) \in DOMAIN r
      BY <1>0, <1>7, LeadTermIs
    <3>3. PICK a \in Int, b \in Int : a = r[Degree(r)] /\ b = g[Degree(g)]
      BY <1>0, <1>7, LeadTermIs
    <3>4. Coeff(g, k - e) = b /\ Coeff(r, k) = a
      BY <2>1, <3>1, <3>2, <3>3 DEF Coeff
    <3>5. PICK x \in Int : x = c * b
      OBVIOUS
    <3>6. Congruent(p, x, a)
      BY <1>1, <3>3, <3>5
    <3>7. PICK y \in Int : y = x % p
      BY <1>0, Modulo
    <3>8. Coeff(v, k) = (a - y) % p
      <4>1. Coeff(w, k) = y
        BY <1>3, <3>4, <3>5, <3>7
      <4> QED
        BY <1>5, <3>4, <4>1
    <3>9. y = a % p
      BY <1>0, <3>6, <3>7, SameRemainder
    <3>10. PICK z \in Int : a = z * p + y
      BY <1>0, <3>9, Remainder
    <3>11. (a - y) - 0 = z * p /\ a - y \in Int /\ 0 \in Int
      <4>1. PICK o \in Int : o = z * p
        OBVIOUS
      <4>2. a = o + y
        BY <3>10, <4>1
      <4> QED
        BY <4>1, <4>2
    <3>12. (a - y) % p = 0 % p
      <4>1. Congruent(p, a - y, 0)
        BY <3>11 DEF Congruent
      <4> QED
        BY <1>0, <3>11, <4>1, SameRemainder
    <3> QED
      BY <3>8, <3>12
  <2>2. CASE k > Degree(r)
    <3>1. k - e > Degree(g) /\ k - e \in Nat
      BY <1>7, <2>2
    <3>2. k \notin DOMAIN r
      <4>1. \A i \in DOMAIN r : i <= Degree(r)
        BY <1>0, <1>7, LeadTermIs
      <4> QED
        BY <1>7, <2>2, <4>1
    <3>3. k - e \notin DOMAIN g
      <4>1. \A i \in DOMAIN g : i <= Degree(g)
        BY <1>0, LeadTermIs
      <4> QED
        BY <1>7, <3>1, <4>1
    <3>4. Coeff(r, k) = 0 /\ Coeff(g, k - e) = 0
      BY <3>2, <3>3 DEF Coeff
    <3>5. (c * 0) % p = 0 /\ (0 - 0) % p = 0
      OBVIOUS
    <3> QED
      BY <1>3, <1>5, <3>4, <3>5
  <2> QED
    BY <1>7, <1>11, <2>1, <2>2
<1>12. v = Zero \/ Degree(v) < Degree(r)
  <2> SUFFICES ASSUME v # Zero PROVE Degree(v) < Degree(r)
    OBVIOUS
  <2>1. Degree(v) \in DOMAIN v /\ Degree(v) \in Nat
    BY <1>0, LeadTermIs
  <2>2. Coeff(v, Degree(v)) # 0
    BY <1>0, <2>1, PolyCoefficients
  <2> QED
    BY <1>7, <1>11, <2>1, <2>2
<1>13. Above(g, u, v)
  <2> SUFFICES ASSUME v # Zero, NEW i \in DOMAIN u PROVE i > Degree(v) - Degree(g)
    BY DEF Above
  <2>1. Degree(v) \in Nat /\ Degree(v) < Degree(r)
    BY <1>0, <1>12, LeadTermIs
  <2>2. i \in Nat
    BY <1>0, PolyIs, PowersAre
  <2>3. i = e \/ i > Degree(r) - Degree(g)
    BY <1>7, <1>9 DEF Above
  <2> QED
    BY <1>7, <2>1, <2>2, <2>3
<1> QED
  BY <1>6, <1>10, <1>12, <1>13

\* divmod splits f into a multiple of g and a remainder of a smaller degree.
THEOREM DivModExact ==
  ASSUME NEW p \in Nat \ {0, 1}, IsPrime(p), NEW f \in Polys(p), NEW g \in Polys(p), g # Zero
  PROVE  \E q \in Polys(p), r \in Polys(p) :
           /\ DivMod(p, f, g) = <<q, r>>
           /\ Add(p, Mul(p, q, g), r) = f
           /\ r = Zero \/ Degree(r) < Degree(g)
<1>0. p \in Nat \ {0}
  OBVIOUS
<1>1. PICK h \in [Nat -> Polys(p) \X Polys(p)] :
           /\ h[0] = <<Zero, f>>
           /\ \A k \in Nat : h[k + 1] = IF DivEnds(g, h[k][2]) THEN h[k]
                                        ELSE DivTurn(p, g, h[k][1], h[k][2])
           /\ DivMod(p, f, g) = h[Degree(f) + 1]
  BY DivRuns
<1>2. Degree(f) \in Nat
  <2>1. CASE f = Zero
    BY <2>1 DEF Degree, LeadTerm
  <2>2. CASE f # Zero
    BY <1>0, <2>2, LeadTermIs
  <2> QED
    BY <2>1, <2>2
<1> DEFINE Good(k) == /\ Keeps(p, f, g, h[k][1], h[k][2]) /\ Above(g, h[k][1], h[k][2])
                      /\ DivEnds(g, h[k][2]) \/ Degree(h[k][2]) + k <= Degree(f)
           G == {k \in Nat : Good(k)}
<1>3. 0 \in G
  <2>1. h[0][1] = Zero /\ h[0][2] = f
    BY <1>1
  <2>2. Keeps(p, f, g, Zero, f)
    <3>1. ASSUME NEW k \in Int
          PROVE  Congruent(p, ProductCoeff(Zero, g, k) + Coeff(f, k), Coeff(f, k))
      <4>1. DOMAIN Zero = {}
        BY <1>0, ZeroIs
      <4>2. ProductCoeff(Zero, g, k) = 0
        BY <4>1, TotalOfNone DEF ProductCoeff
      <4>3. PICK x \in Int : x = Coeff(f, k)
        BY <1>0, PolyCoefficients
      <4>4. 0 + x = x
        OBVIOUS
      <4> QED
        BY <1>0, <4>2, <4>3, <4>4, Modulo
    <3> QED
      BY <3>1 DEF Keeps
  <2>3. Above(g, Zero, f)
    BY <1>0, ZeroIs DEF Above
  <2> QED
    BY <1>2, <2>1, <2>2, <2>3
<1>4. ASSUME NEW k \in G PROVE k + 1 \in G
  <2>1. k \in Nat /\ Good(k)
    OBVIOUS
  <2>2. PICK q \in Polys(p), r \in Polys(p) : h[k] = <<q, r>>
    BY <1>1, <2>1
  <2>3. h[k][1] = q /\ h[k][2] = r
    BY <2>2
  <2>4. CASE DivEnds(g, r)
    <3>1. h[k + 1] = h[k]
      BY <1>1, <2>1, <2>3, <2>4
    <3> QED
      BY <2>1, <2>3, <2>4, <3>1
  <2>5. CASE ~ DivEnds(g, r)
    <3>1. Keeps(p, f, g, q, r) /\ Above(g, q, r)
      BY <2>1, <2>3
    <3>2. PICK u \in Polys(p), v \in Polys(p) :
            /\ DivTurn(p, g, q, r) = <<u, v>>
            /\ Keeps(p, f, g, u, v) /\ Above(g, u, v)
            /\ v = Zero \/ Degree(v) < Degree(r)
      BY <2>5, <3>1, DivTurnKeeps
    <3>3. h[k + 1] = DivTurn(p, g, q, r)
      BY <1>1, <2>1, <2>3, <2>5
    <3>4. h[k + 1][1] = u /\ h[k + 1][2] = v
      BY <3>2, <3>3
    <3>5. DivEnds(g, v) \/ Degree(v) + (k + 1) <= Degree(f)
      <4>1. CASE v = Zero
        BY <4>1 DEF DivEnds
      <4>2. CASE v # Zero
        <5>1. r # Zero
          BY <2>5 DEF DivEnds
        <5>2. PICK m \in Nat, n \in Nat : m = Degree(r) /\ n = Degree(v)
          BY <1>0, <4>2, <5>1, LeadTermIs
        <5>3. n < m /\ m + k <= Degree(f)
          BY <2>1, <2>3, <2>5, <3>2, <4>2, <5>2
        <5> QED
          BY <1>2, <2>1, <5>2, <5>3
      <4> QED
        BY <4>1, <4>2
    <3>6. k + 1 \in Nat
      BY <2>1
    <3> QED
      BY <3>2, <3>4, <3>5, <3>6
  <2> QED
    BY <2>4, <2>5
<1>5. G = Nat
  <2> HIDE DEF G
  <2>1. G \in SUBSET Nat
    BY DEF G
  <2> QED
    BY <1>3, <1>4, <2>1, Counting
<1>6. PICK n \in Nat : n = Degree(f) + 1
  BY <1>2
<1>7. PICK q \in Polys(p), r \in Polys(p) : h[n] = <<q, r>>
  BY <1>1
<1>8. h[n][1] = q /\ h[n][2] = r
  BY <1>7
<1>9. Good(n)
  BY <1>5
<1>10. r = Zero \/ Degree(r) < Degree(g)
  <2> SUFFICES ASSUME ~ DivEnds(g, r) PROVE FALSE
    BY DEF DivEnds
  <2>1. Degree(r) + n <= Degree(f)
    BY <1>8, <1>9
  <2>2. Degree(r) \in Nat
    BY <1>0, LeadTermIs DEF DivEnds
  <2> QED
    BY <1>2, <1>6, <2>1, <2>2
<1>11. Add(p, Mul(p, q, g), r) = f
  <2>1. PICK w \in Polys(p) : w = Mul(p, q, g) /\ \A k \in Int : Coeff(w, k) = ProductCoeff(q, g, k) % p
    <3>1. 0 \in Int
      OBVIOUS
    <3> QED
      BY <1>0, <3>1, MulIs
  <2>2. PICK s \in Polys(p) : s = Add(p, w, r) /\ \A k \in Int : Coeff(s, k) = (Coeff(w, k) + Coeff(r, k)) % p
    BY <1>0, AddIs
  <2>3. ASSUME NEW k \in Int PROVE Coeff(s, k) = Coeff(f, k)
    <3>1. PICK x \in Int : x = ProductCoeff(q, g, k)
      BY <1>0, TermsIntegral
    <3>2. PICK y \in Int, o \in 0 .. p - 1 : y = Coeff(r, k) /\ o = Coeff(f, k)
      BY <1>0, PolyCoefficients
    <3>3. PICK j \in Int : j = x % p /\ Congruent(p, j, x)
      BY <1>0, Modulo
    <3>4. Coeff(s, k) = (j + y) % p
      BY <2>1, <2>2, <3>1, <3>2, <3>3
    <3>5. Congruent(p, j + y, x + y)
      <4>1. Congruent(p, y, y)
        BY <1>0, Modulo
      <4> QED
        BY <1>0, <3>3, <4>1, CongruentSums
    <3>6. Congruent(p, x + y, o)
      BY <1>8, <1>9, <3>1, <3>2 DEF Keeps
    <3>7. Congruent(p, j + y, o)
      <4>1. j + y \in Int /\ x + y \in Int /\ o \in Int
        OBVIOUS
      <4> QED
        BY <1>0, <3>5, <3>6, <4>1, CongruentTransitive
    <3>8. (j + y) % p = o % p
      <4>1. j + y \in Int /\ o \in Int
        OBVIOUS
      <4> QED
        BY <1>0, <3>7, <4>1, SameRemainder
    <3>9. o % p = o
      OBVIOUS
    <3> QED
      BY <3>2, <3>4, <3>8, <3>9
  <2>4. s = f
    BY <1>0, <2>3, SamePoly
  <2> QED
    BY <2>1, <2>2, <2>4
<1> QED
  BY <1>1, <1>6, <1>7, <1>10, <1>11

-----------------------------------------------------------------------------
(* The polynomials over Z_p are a commutative ring.  A fact about all of   *)
(* them is shown for Zero and kept when a polynomial gets one more power.  *)

LEMMA CongruentChain ==
  ASSUME NEW p \in Nat \ {0}, NEW a \in Int, NEW b \in Int, NEW c \in Int,
         Congruent(p, a, b), Congruent(p, b, c)
  PROVE  Congruent(p, a, c) /\ Congruent(p, b, a)
BY CongruentTransitive

LEMMA TotalsLinear ==
  ASSUME NEW p \in Nat \ {0}, NEW S, IsFiniteSet(S), NEW w, NEW v, NEW u,
         Integral(w, S), Integral(v, S), Integral(u, S), NEW a \in Int, NEW b \in Int,
         \A x \in S : Congruent(p, w[x], a * v[x] + b * u[x])
  PROVE  Congruent(p, Total(w, S), a * Total(v, S) + b * Total(u, S))
<1> DEFINE G == {T \in SUBSET S :
                   Congruent(p, Total(w, T), a * Total(v, T) + b * Total(u, T))}
<1>1. {} \in G
  <2>1. Total(w, {}) = 0 /\ Total(v, {}) = 0 /\ Total(u, {}) = 0
    BY TotalOfNone
  <2>2. 0 = a * 0 + b * 0 /\ 0 \in Int
    OBVIOUS
  <2>3. Congruent(p, 0, 0)
    BY <2>2, Modulo
  <2> QED
    BY <2>1, <2>2, <2>3
<1>2. ASSUME NEW T \in G, NEW y \in S \ T PROVE T \cup {y} \in G
  <2>1. IsFiniteSet(T) /\ y \notin T /\ T \cup {y} \in SUBSET S
    BY FS_Subset
  <2>2. /\ Integral(w, T) /\ Integral(v, T) /\ Integral(u, T)
        /\ Integral(w, T \cup {y}) /\ Integral(v, T \cup {y}) /\ Integral(u, T \cup {y})
    BY DEF Integral
  <2>3. /\ Total(w, T \cup {y}) = w[y] + Total(w, T)
        /\ Total(v, T \cup {y}) = v[y] + Total(v, T)
        /\ Total(u, T \cup {y}) = u[y] + Total(u, T)
    BY <2>1, <2>2, TotalOfOneMore
  <2>4. PICK W \in Int, V \in Int, U \in Int : W = Total(w, T) /\ V = Total(v, T) /\ U = Total(u, T)
    BY <2>1, <2>2, TotalType
  <2>5. PICK c \in Int, d \in Int, e \in Int : c = w[y] /\ d = v[y] /\ e = u[y]
    BY DEF Integral
  <2>6. Congruent(p, c, a * d + b * e)
    BY <2>5
  <2>7. Congruent(p, W, a * V + b * U)
    BY <2>4
  <2>8. a * d + b * e \in Int /\ a * V + b * U \in Int
    OBVIOUS
  <2>9. Congruent(p, c + W, (a * d + b * e) + (a * V + b * U))
    BY <2>6, <2>7, <2>8, CongruentSums
  <2>10. (a * d + b * e) + (a * V + b * U) = a * (d + V) + b * (e + U)
    OBVIOUS
  <2>11. Congruent(p, c + W, a * (d + V) + b * (e + U))
    BY <2>9, <2>10
  <2> QED
    BY <2>1, <2>3, <2>4, <2>5, <2>11
<1>3. S \in G
  <2> HIDE DEF G
  <2>1. G \in SUBSET (SUBSET S)
    BY DEF G
  <2> QED
    BY <1>1, <1>2, <2>1, Growing
<1> QED
  BY <1>3

LEMMA TotalOfOne ==
  ASSUME NEW S, IsFiniteSet(S), NEW w, Integral(w, S), NEW y,
         \A x \in S : x # y => w[x] = 0
  PROVE  Total(w, S) = IF y \in S THEN w[y] ELSE 0
<1>1. CASE y \in S
  <2>1. PICK T : T = S \ {y}
    OBVIOUS
  <2>2. IsFiniteSet(T) /\ y \notin T /\ T \cup {y} = S
    BY <1>1, <2>1, FS_Subset
  <2>3. Total(w, T) = 0
    BY <2>1, <2>2, TotalOfZeros
  <2>4. Total(w, T \cup {y}) = w[y] + Total(w, T)
    <3>1. Integral(w, T \cup {y})
      BY <2>2
    <3> QED
      BY <2>2, <3>1, TotalOfOneMore
  <2>5. w[y] \in Int
    BY <1>1 DEF Integral
  <2> QED
    BY <1>1, <2>2, <2>3, <2>4, <2>5
<1>2. CASE y \notin S
  BY <1>2, TotalOfZeros
<1> QED
  BY <1>1, <1>2

LEMMA PolyType ==
  ASSUME NEW p \in Nat \ {0}, NEW f \in Polys(p), NEW g \in Polys(p)
  PROVE  Add(p, f, g) \in Polys(p) /\ Sub(p, f, g) \in Polys(p) /\ Mul(p, f, g) \in Polys(p)
<1>1. 0 \in Int
  OBVIOUS
<1> QED
  BY <1>1, AddIs, SubIs, MulIs

LEMMA CoeffType ==
  ASSUME NEW p \in Nat \ {0}, NEW f \in Polys(p), NEW k
  PROVE  Coeff(f, k) \in Int /\ Coeff(f, k) \in 0 .. p - 1
BY PolyCoefficients

LEMMA SumCoeff ==
  ASSUME NEW p \in Nat \ {0}, NEW f \in Polys(p), NEW g \in Polys(p), NEW k \in Int
  PROVE  Congruent(p, Coeff(Add(p, f, g), k), Coeff(f, k) + Coeff(g, k))
<1>1. PICK x \in Int : x = Coeff(f, k) + Coeff(g, k)
  <2>1. Coeff(f, k) \in Int /\ Coeff(g, k) \in Int
    BY CoeffType
  <2> QED
    BY <2>1
<1>2. Coeff(Add(p, f, g), k) = x % p
  BY <1>1, AddIs
<1> QED
  BY <1>1, <1>2, Modulo

LEMMA ProductIs ==
  ASSUME NEW p \in Nat \ {0}, NEW f \in Polys(p), NEW g \in Polys(p), NEW k \in Int
  PROVE  Congruent(p, Coeff(Mul(p, f, g), k), ProductCoeff(f, g, k))
<1>1. PICK x \in Int : x = ProductCoeff(f, g, k)
  BY TermsIntegral
<1>2. Coeff(Mul(p, f, g), k) = x % p
  BY <1>1, MulIs
<1> QED
  BY <1>1, <1>2, Modulo

LEMMA SameModulo ==
  ASSUME NEW p \in Nat \ {0}, NEW f \in Polys(p), NEW g \in Polys(p),
         \A k \in Int : Congruent(p, Coeff(f, k), Coeff(g, k))
  PROVE  f = g
<1>1. ASSUME NEW k \in Nat PROVE Coeff(f, k) = Coeff(g, k)
  <2>1. PICK a \in 0 .. p - 1, b \in 0 .. p - 1 : a = Coeff(f, k) /\ b = Coeff(g, k)
    BY CoeffType
  <2>2. k \in Int /\ a \in Int /\ b \in Int
    OBVIOUS
  <2>3. Congruent(p, a, b)
    BY <2>1, <2>2
  <2>4. a % p = b % p
    BY <2>2, <2>3, SameRemainder
  <2>5. a % p = a /\ b % p = b
    OBVIOUS
  <2> QED
    BY <2>1, <2>4, <2>5
<1> QED
  BY <1>1, SamePoly

\* u is q with one more power, e.
OneMore(q, u, e) ==
  /\ e \notin DOMAIN q /\ DOMAIN u = DOMAIN q \cup {e}
  /\ \A i \in DOMAIN q : u[i] = q[i]

Grows(p, G) == \A q \in G : \A u \in Polys(p) : \A e \in DOMAIN u : OneMore(q, u, e) => u \in G

LEMMA PowerByPower ==
  ASSUME NEW p \in Nat \ {0}, NEW G \in SUBSET Polys(p), Zero \in G, Grows(p, G)
  PROVE  G = Polys(p)
<1> SUFFICES ASSUME NEW f \in Polys(p) PROVE f \in G
  OBVIOUS
<1>1. PICK D \in Powers : D = DOMAIN f /\ IsFiniteSet(D) /\ f \in [D -> 1 .. p - 1]
  BY PolyIs, PowersAre
<1> DEFINE part(T) == [i \in T |-> f[i]]
           H == {T \in SUBSET D : part(T) \in G}
<1>2. ASSUME NEW T \in SUBSET D PROVE part(T) \in Polys(p)
  <2>1. T \in Powers
    BY DEF Powers
  <2>2. part(T) \in [T -> 1 .. p - 1]
    BY <1>1
  <2> QED
    BY <2>1, <2>2 DEF Polys
<1>3. {} \in H
  <2>1. part({}) \in Polys(p) /\ DOMAIN part({}) = {}
    BY <1>2
  <2>2. part({}) = Zero
    <3> HIDE DEF part
    <3> QED
      BY <2>1, ZeroIs
  <2> QED
    <3> HIDE DEF part
    <3> QED
      BY <2>2
<1>4. ASSUME NEW T \in H, NEW y \in D \ T PROVE T \cup {y} \in H
  <2>1. T \in SUBSET D /\ T \cup {y} \in SUBSET D /\ part(T) \in G
    OBVIOUS
  <2>2. OneMore(part(T), part(T \cup {y}), y)
    BY DEF OneMore
  <2>3. y \in DOMAIN part(T \cup {y})
    OBVIOUS
  <2>4. part(T \cup {y}) \in Polys(p)
    BY <1>2, <2>1
  <2>5. part(T \cup {y}) \in G
    <3> HIDE DEF part
    <3> QED
      BY <2>1, <2>2, <2>3, <2>4 DEF Grows
  <2> QED
    <3> HIDE DEF part
    <3> QED
      BY <2>1, <2>5
<1>5. D \in H
  <2> HIDE DEF H
  <2>1. H \in SUBSET (SUBSET D)
    BY DEF H
  <2> QED
    BY <1>1, <1>3, <1>4, <2>1, Growing
<1>6. part(D) = f
  BY <1>1
<1> QED
  <2> HIDE DEF part
  <2> QED
    BY <1>5, <1>6

\* The product is linear in its second factor.
LEMMA ProductLinear ==
  ASSUME NEW p \in Nat \ {0}, NEW f \in Polys(p), NEW u \in Polys(p), NEW g \in Polys(p),
         NEW h \in Polys(p), NEW a \in Int, NEW b \in Int, NEW m \in Int, NEW n \in Int,
         NEW k \in Int,
         \A j \in Int : Congruent(p, Coeff(u, j), a * Coeff(g, j - m) + b * Coeff(h, j - n))
  PROVE  Congruent(p, ProductCoeff(f, u, k),
                      a * ProductCoeff(f, g, k - m) + b * ProductCoeff(f, h, k - n))
<1>1. PICK D : D = DOMAIN f /\ IsFiniteSet(D) /\ D \subseteq Int
  <2>1. DOMAIN f \subseteq Nat /\ IsFiniteSet(DOMAIN f)
    BY PolyIs, PowersAre
  <2> QED
    BY <2>1
<1>2. PICK w, v, x : w = Terms(f, u, k) /\ v = Terms(f, g, k - m) /\ x = Terms(f, h, k - n)
  OBVIOUS
<1>3. Integral(w, D) /\ Integral(v, D) /\ Integral(x, D)
  BY <1>1, <1>2, TermsIntegral
<1>4. ASSUME NEW i \in D PROVE Congruent(p, w[i], a * v[i] + b * x[i])
  <2>1. PICK c \in Int, cu \in Int, cg \in Int, ch \in Int :
          /\ c = f[i] /\ cu = Coeff(u, k - i)
          /\ cg = Coeff(g, (k - i) - m) /\ ch = Coeff(h, (k - i) - n)
    <3>1. f[i] \in Int
      BY <1>1, PolyIs
    <3>2. Coeff(u, k - i) \in Int /\ Coeff(g, (k - i) - m) \in Int /\ Coeff(h, (k - i) - n) \in Int
      BY CoeffType
    <3> QED
      BY <3>1, <3>2
  <2>2. k - i \in Int /\ (k - m) - i = (k - i) - m /\ (k - n) - i = (k - i) - n
    BY <1>1
  <2>3. w[i] = c * cu /\ v[i] = c * cg /\ x[i] = c * ch
    BY <1>1, <1>2, <2>1, <2>2 DEF Terms
  <2>4. Congruent(p, cu, a * cg + b * ch)
    BY <2>1, <2>2
  <2>5. PICK y \in Int : y = a * cg + b * ch
    OBVIOUS
  <2>6. Congruent(p, c * cu, c * y)
    BY <2>4, <2>5, CongruentProducts
  <2>7. c * y = a * (c * cg) + b * (c * ch)
    BY <2>5
  <2> QED
    BY <2>3, <2>6, <2>7
<1>5. Congruent(p, Total(w, D), a * Total(v, D) + b * Total(x, D))
  BY <1>1, <1>3, <1>4, TotalsLinear
<1> QED
  BY <1>1, <1>2, <1>5 DEF ProductCoeff

LEMMA ProductOfZero ==
  ASSUME NEW p \in Nat \ {0}, NEW f \in Polys(p), NEW k \in Int
  PROVE  ProductCoeff(Zero, f, k) = 0 /\ ProductCoeff(f, Zero, k) = 0
<1>1. ProductCoeff(Zero, f, k) = 0
  <2>1. PICK D : D = DOMAIN Zero /\ D = {}
    BY ZeroIs
  <2> QED
    BY <2>1, TotalOfNone DEF ProductCoeff
<1>2. ProductCoeff(f, Zero, k) = 0
  <2>1. Zero \in Polys(p)
    BY ZeroIs
  <2>2. \A i \in DOMAIN f : Terms(f, Zero, k)[i] = 0
    <3>1. \A i \in DOMAIN f : f[i] \in Int
      BY PolyIs
    <3>2. \A i : Coeff(Zero, i) = 0
      BY ZeroIs
    <3>3. ASSUME NEW i \in DOMAIN f PROVE Terms(f, Zero, k)[i] = 0
      <4>1. Terms(f, Zero, k)[i] = f[i] * Coeff(Zero, k - i)
        BY DEF Terms
      <4>2. Coeff(Zero, k - i) = 0
        BY <3>2
      <4>3. f[i] * 0 = 0
        BY <3>1
      <4> QED
        BY <4>1, <4>2, <4>3
    <3> QED
      BY <3>3
  <2>3. IsFiniteSet(DOMAIN f)
    BY TermsIntegral
  <2> QED
    BY <2>2, <2>3, TotalOfZeros DEF ProductCoeff
<1> QED
  BY <1>1, <1>2

LEMMA ProductCommutes ==
  ASSUME NEW p \in Nat \ {0}, NEW f \in Polys(p), NEW g \in Polys(p), NEW k \in Int
  PROVE  Congruent(p, ProductCoeff(f, g, k), ProductCoeff(g, f, k))
<1> DEFINE G == {q \in Polys(p) : Congruent(p, ProductCoeff(q, g, k), ProductCoeff(g, q, k))}
<1>1. Zero \in G
  <2>1. 0 \in Int /\ Zero \in Polys(p)
    BY ZeroIs
  <2>2. Congruent(p, 0, 0)
    BY <2>1, Modulo
  <2> QED
    BY <2>1, <2>2, ProductOfZero
<1>2. ASSUME NEW q \in G, NEW u \in Polys(p), NEW e \in DOMAIN u, OneMore(q, u, e)
      PROVE  u \in G
  <2>1. /\ q \in Polys(p) /\ e \in Nat /\ u[e] \in Int
        /\ e \notin DOMAIN q /\ DOMAIN u = DOMAIN q \cup {e} /\ \A i \in DOMAIN q : u[i] = q[i]
    <3>1. DOMAIN u \subseteq Nat /\ u[e] \in Int
      BY PolyIs, PowersAre
    <3> QED
      BY <1>2, <3>1 DEF OneMore
  <2>2. PICK x \in Int, y \in Int, z \in Int, o \in Int :
          /\ x = u[e] * Coeff(g, k - e) /\ y = ProductCoeff(q, g, k)
          /\ z = ProductCoeff(g, q, k) /\ o = ProductCoeff(g, u, k)
    <3>1. u[e] * Coeff(g, k - e) \in Int
      <4>1. Coeff(g, k - e) \in Int
        BY CoeffType
      <4> QED
        BY <2>1, <4>1
    <3>2. ProductCoeff(q, g, k) \in Int /\ ProductCoeff(g, q, k) \in Int /\ ProductCoeff(g, u, k) \in Int
      BY <2>1, TermsIntegral
    <3> QED
      BY <3>1, <3>2
  <2>3. ProductCoeff(u, g, k) = x + y
    <3>1. ProductCoeff(u, g, k) = u[e] * Coeff(g, k - e) + ProductCoeff(q, g, k)
      BY <2>1, OneMoreTerm
    <3> QED
      BY <2>2, <3>1
  <2>4. PICK D : D = DOMAIN g /\ IsFiniteSet(D) /\ D \subseteq Nat
    <3>1. DOMAIN g \subseteq Nat
      BY PolyIs, PowersAre
    <3> QED
      BY <3>1, TermsIntegral
  <2>5. PICK v : v = [j \in D |-> IF j = k - e THEN g[j] * u[e] ELSE 0]
    OBVIOUS
  <2>6. \A j \in D : g[j] \in Int
    BY <2>4, PolyIs
  <2>7. Integral(v, D)
    BY <2>1, <2>5, <2>6 DEF Integral
  <2>8. Total(v, D) = x
    <3>1. Total(v, D) = IF k - e \in D THEN v[k - e] ELSE 0
      <4>1. \A j \in D : j # k - e => v[j] = 0
        BY <2>5
      <4> QED
        BY <2>4, <2>7, <4>1, TotalOfOne
    <3>2. CASE k - e \in D
      <4>1. Coeff(g, k - e) = g[k - e] /\ g[k - e] \in Int
        BY <2>4, <2>6, <3>2 DEF Coeff
      <4>2. v[k - e] = g[k - e] * u[e]
        BY <2>5, <3>2
      <4> QED
        BY <2>1, <2>2, <3>1, <3>2, <4>1, <4>2
    <3>3. CASE k - e \notin D
      <4>1. Coeff(g, k - e) = 0
        BY <2>4, <3>3 DEF Coeff
      <4> QED
        BY <2>1, <2>2, <3>1, <3>3, <4>1
    <3> QED
      BY <3>2, <3>3
  <2>9. Congruent(p, o, 1 * z + 1 * x)
    <3>1. PICK w, t : w = Terms(g, u, k) /\ t = Terms(g, q, k)
      OBVIOUS
    <3>2. Integral(w, D) /\ Integral(t, D)
      BY <2>1, <2>4, <3>1, TermsIntegral
    <3>3. ASSUME NEW j \in D PROVE Congruent(p, w[j], 1 * t[j] + 1 * v[j])
      <4>1. PICK a \in Int, b \in Int, c \in Int, d \in Int :
              a = g[j] /\ b = u[e] /\ c = Coeff(q, k - j) /\ d = Coeff(u, k - j)
        <5>1. Coeff(q, k - j) \in Int /\ Coeff(u, k - j) \in Int
          BY <2>1, CoeffType
        <5> QED
          BY <2>1, <2>6, <5>1
      <4>2. w[j] = a * d /\ t[j] = a * c
        BY <2>4, <3>1, <4>1 DEF Terms
      <4>3. CASE j = k - e
        <5>1. k - j = e
          BY <2>1, <4>3
        <5>2. c = 0 /\ d = b /\ v[j] = a * b
          BY <2>1, <2>5, <4>1, <4>3, <5>1 DEF Coeff
        <5>3. a * b = 1 * (a * 0) + 1 * (a * b) /\ a * b \in Int
          OBVIOUS
        <5>4. Congruent(p, a * b, a * b)
          BY <5>3, Modulo
        <5> QED
          BY <4>2, <5>2, <5>3, <5>4
      <4>4. CASE j # k - e
        <5>1. k - j # e
          BY <2>1, <2>4, <4>4
        <5>2. c = d /\ v[j] = 0
          BY <2>1, <2>5, <4>1, <4>4, <5>1 DEF Coeff
        <5>3. a * d = 1 * (a * d) + 1 * 0 /\ a * d \in Int
          OBVIOUS
        <5>4. Congruent(p, a * d, a * d)
          BY <5>3, Modulo
        <5> QED
          BY <4>2, <5>2, <5>3, <5>4
      <4> QED
        BY <4>3, <4>4
    <3>4. Congruent(p, Total(w, D), 1 * Total(t, D) + 1 * Total(v, D))
      <4>1. 1 \in Int
        OBVIOUS
      <4> QED
        BY <2>4, <2>7, <3>2, <3>3, <4>1, TotalsLinear
    <3> QED
      BY <2>2, <2>4, <2>8, <3>1, <3>4 DEF ProductCoeff
  <2>10. Congruent(p, y, z)
    BY <2>2
  <2>11. Congruent(p, x + y, o)
    <3>1. Congruent(p, o, z + x) /\ z + x \in Int
      <4>1. 1 * z + 1 * x = z + x
        OBVIOUS
      <4> QED
        BY <2>9, <4>1
    <3>2. Congruent(p, z + x, o)
      BY <3>1, CongruentChain, Modulo
    <3>3. Congruent(p, y + x, z + x)
      <4>1. Congruent(p, x, x)
        BY Modulo
      <4> QED
        BY <2>10, <4>1, CongruentSums
    <3>4. y + x = x + y /\ x + y \in Int
      OBVIOUS
    <3>5. Congruent(p, x + y, z + x)
      BY <3>3, <3>4
    <3> QED
      BY <3>1, <3>2, <3>4, <3>5, CongruentChain
  <2> QED
    BY <2>2, <2>3, <2>11
<1>3. G = Polys(p)
  <2> HIDE DEF G
  <2>1. G \in SUBSET Polys(p)
    BY DEF G
  <2>2. Grows(p, G)
    BY <1>2 DEF Grows
  <2> QED
    BY <1>1, <2>1, <2>2, PowerByPower
<1> QED
  BY <1>3

LEMMA MulCommutes ==
  ASSUME NEW p \in Nat \ {0}, NEW f \in Polys(p), NEW g \in Polys(p)
  PROVE  Mul(p, f, g) = Mul(p, g, f)
<1>1. ASSUME NEW k \in Int
      PROVE  Congruent(p, Coeff(Mul(p, f, g), k), Coeff(Mul(p, g, f), k))
  <2>1. PICK a \in Int, b \in Int, c \in Int, d \in Int :
          /\ a = Coeff(Mul(p, f, g), k) /\ b = ProductCoeff(f, g, k)
          /\ c = ProductCoeff(g, f, k) /\ d = Coeff(Mul(p, g, f), k)
    <3>1. Mul(p, f, g) \in Polys(p) /\ Mul(p, g, f) \in Polys(p)
      BY PolyType
    <3>2. Coeff(Mul(p, f, g), k) \in Int /\ Coeff(Mul(p, g, f), k) \in Int
      BY <3>1, CoeffType
    <3> QED
      BY <3>2, TermsIntegral
  <2>2. Congruent(p, a, b) /\ Congruent(p, b, c) /\ Congruent(p, d, c)
    BY <2>1, ProductIs, ProductCommutes
  <2>3. Congruent(p, c, d)
    BY <2>2, CongruentTransitive
  <2>4. Congruent(p, a, c)
    BY <2>2, CongruentChain
  <2> QED
    BY <2>1, <2>3, <2>4, CongruentChain
<1> QED
  BY <1>1, PolyType, SameModulo

LEMMA MulDistributes ==
  ASSUME NEW p \in Nat \ {0}, NEW f \in Polys(p), NEW g \in Polys(p), NEW h \in Polys(p)
  PROVE  /\ Mul(p, f, Add(p, g, h)) = Add(p, Mul(p, f, g), Mul(p, f, h))
         /\ Mul(p, Add(p, g, h), f) = Add(p, Mul(p, g, f), Mul(p, h, f))
<1>1. PICK u \in Polys(p), v \in Polys(p), w \in Polys(p) :
        u = Add(p, g, h) /\ v = Mul(p, f, g) /\ w = Mul(p, f, h)
  BY PolyType
<1>2. PICK x \in Polys(p), y \in Polys(p) : x = Mul(p, f, u) /\ y = Add(p, v, w)
  BY PolyType
<1>3. ASSUME NEW k \in Int PROVE Congruent(p, Coeff(x, k), Coeff(y, k))
  <2>1. PICK a \in Int, b \in Int, c \in Int, d \in Int, e \in Int, i \in Int, j \in Int :
          /\ a = Coeff(x, k) /\ b = ProductCoeff(f, u, k)
          /\ c = ProductCoeff(f, g, k) /\ d = ProductCoeff(f, h, k)
          /\ e = Coeff(y, k) /\ i = Coeff(v, k) /\ j = Coeff(w, k)
    <3>1. Coeff(x, k) \in Int /\ Coeff(y, k) \in Int /\ Coeff(v, k) \in Int /\ Coeff(w, k) \in Int
      BY CoeffType
    <3>2. /\ ProductCoeff(f, u, k) \in Int /\ ProductCoeff(f, g, k) \in Int
          /\ ProductCoeff(f, h, k) \in Int
      BY TermsIntegral
    <3> QED
      BY <3>1, <3>2
  <2>2. Congruent(p, a, b)
    BY <1>2, <2>1, ProductIs
  <2>3. Congruent(p, b, c + d)
    <3>1. ASSUME NEW n \in Int
          PROVE  Congruent(p, Coeff(u, n), 1 * Coeff(g, n - 0) + 1 * Coeff(h, n - 0))
      <4>1. PICK o \in Int, q \in Int : o = Coeff(g, n) /\ q = Coeff(h, n)
        BY CoeffType
      <4>2. Congruent(p, Coeff(u, n), o + q)
        BY <1>1, <4>1, SumCoeff
      <4>3. n - 0 = n /\ 1 * o + 1 * q = o + q
        OBVIOUS
      <4> QED
        BY <4>1, <4>2, <4>3
    <3>2. Congruent(p, ProductCoeff(f, u, k),
                       1 * ProductCoeff(f, g, k - 0) + 1 * ProductCoeff(f, h, k - 0))
      <4>1. 1 \in Int /\ 0 \in Int
        OBVIOUS
      <4> QED
        BY <3>1, <4>1, ProductLinear
    <3>3. k - 0 = k /\ 1 * c + 1 * d = c + d
      OBVIOUS
    <3> QED
      BY <2>1, <3>2, <3>3
  <2>4. Congruent(p, e, i + j) /\ Congruent(p, i, c) /\ Congruent(p, j, d)
    BY <1>1, <1>2, <2>1, SumCoeff, ProductIs
  <2>5. c + d \in Int /\ i + j \in Int
    OBVIOUS
  <2>6. Congruent(p, i + j, c + d)
    BY <2>4, CongruentSums
  <2>7. Congruent(p, e, c + d)
    BY <2>4, <2>5, <2>6, CongruentChain
  <2>8. Congruent(p, c + d, e)
    BY <2>5, <2>7, CongruentTransitive
  <2>9. Congruent(p, a, c + d)
    BY <2>2, <2>3, <2>5, CongruentChain
  <2> QED
    BY <2>1, <2>5, <2>8, <2>9, CongruentChain
<1>4. x = y
  BY <1>3, SameModulo
<1>5. Mul(p, u, f) = x /\ Mul(p, g, f) = v /\ Mul(p, h, f) = w
  BY <1>1, <1>2, MulCommutes
<1> QED
  BY <1>1, <1>2, <1>4, <1>5

LEMMA MonomialCoeff ==
  ASSUME NEW p \in Nat \ {0}, NEW e \in Nat, NEW c \in 1 .. p - 1, NEW g \in Polys(p),
         NEW k \in Int
  PROVE  Congruent(p, Coeff(Mul(p, Monomial(e, c), g), k), c * Coeff(g, k - e))
<1>1. PICK x \in Int : x = c * Coeff(g, k - e)
  <2>1. Coeff(g, k - e) \in Int
    BY CoeffType
  <2> QED
    BY <2>1
<1>2. Coeff(Mul(p, Monomial(e, c), g), k) = x % p
  BY <1>1, MonomialProduct
<1> QED
  BY <1>1, <1>2, Modulo

LEMMA MonomialAssociates ==
  ASSUME NEW p \in Nat \ {0}, NEW e \in Nat, NEW c \in 1 .. p - 1, NEW g \in Polys(p),
         NEW h \in Polys(p)
  PROVE  Mul(p, Mul(p, Monomial(e, c), g), h) = Mul(p, Monomial(e, c), Mul(p, g, h))
<1>0. Monomial(e, c) \in Polys(p)
  BY MonomialIs
<1>1. PICK u \in Polys(p), v \in Polys(p) : u = Mul(p, Monomial(e, c), g) /\ v = Mul(p, g, h)
  BY <1>0, PolyType
<1>2. PICK x \in Polys(p), y \in Polys(p) : x = Mul(p, u, h) /\ y = Mul(p, Monomial(e, c), v)
  BY <1>0, PolyType
<1>3. ASSUME NEW k \in Int PROVE Congruent(p, Coeff(x, k), Coeff(y, k))
  <2>1. k - e \in Int /\ c \in Int /\ 0 \in Int
    OBVIOUS
  <2>2. PICK X \in Int, Y \in Int, V \in Int, n \in Int, o \in Int, i \in Int, j \in Int :
          /\ X = Coeff(x, k) /\ Y = Coeff(y, k) /\ V = Coeff(v, k - e)
          /\ n = ProductCoeff(u, h, k) /\ o = ProductCoeff(h, u, k)
          /\ i = ProductCoeff(h, g, k - e) /\ j = ProductCoeff(g, h, k - e)
    <3>1. Coeff(x, k) \in Int /\ Coeff(y, k) \in Int /\ Coeff(v, k - e) \in Int
      BY CoeffType
    <3>2. /\ ProductCoeff(u, h, k) \in Int /\ ProductCoeff(h, u, k) \in Int
          /\ ProductCoeff(h, g, k - e) \in Int /\ ProductCoeff(g, h, k - e) \in Int
      BY TermsIntegral
    <3> QED
      BY <3>1, <3>2
  <2>3. Congruent(p, X, n) /\ Congruent(p, n, o)
    BY <1>2, <2>2, ProductIs, ProductCommutes
  <2>4. Congruent(p, o, c * i)
    <3>1. PICK a \in Int, b \in Int, m \in Int : a = c /\ b = 0 /\ m = e
      OBVIOUS
    <3>2. ASSUME NEW l \in Int
          PROVE  Congruent(p, Coeff(u, l), a * Coeff(g, l - m) + b * Coeff(g, l - b))
      <4>1. PICK r \in Int, s \in Int : r = Coeff(g, l - m) /\ s = Coeff(g, l - b)
        BY CoeffType
      <4>2. Congruent(p, Coeff(u, l), a * r)
        BY <1>1, <3>1, <4>1, MonomialCoeff
      <4>3. a * r + b * s = a * r
        BY <3>1
      <4> QED
        BY <4>1, <4>2, <4>3
    <3>3. Congruent(p, ProductCoeff(h, u, k),
                       a * ProductCoeff(h, g, k - m) + b * ProductCoeff(h, g, k - b))
      BY <3>2, ProductLinear
    <3>4. PICK r \in Int : r = ProductCoeff(h, g, k - b)
      BY TermsIntegral
    <3>5. a * i + b * r = c * i
      BY <3>1
    <3> QED
      BY <2>2, <3>1, <3>3, <3>4, <3>5
  <2>5. Congruent(p, Y, c * V)
    BY <1>2, <2>2, MonomialCoeff
  <2>6. Congruent(p, V, j) /\ Congruent(p, j, i)
    BY <1>1, <2>1, <2>2, ProductIs, ProductCommutes
  <2>7. Congruent(p, V, i)
    BY <2>6, CongruentChain
  <2>8. PICK z \in Int, w \in Int : z = c * i /\ w = c * V
    BY <2>1
  <2>9. Congruent(p, w, z)
    BY <2>1, <2>7, <2>8, CongruentProducts
  <2>10. Congruent(p, Y, z)
    BY <2>5, <2>8, <2>9, CongruentChain
  <2>11. Congruent(p, z, Y)
    BY <2>10, CongruentTransitive
  <2>12. Congruent(p, X, o)
    BY <2>3, CongruentChain
  <2>13. Congruent(p, X, z)
    BY <2>4, <2>8, <2>12, CongruentChain
  <2> QED
    BY <2>2, <2>11, <2>13, CongruentChain
<1> QED
  BY <1>1, <1>2, <1>3, SameModulo

LEMMA OneMoreIsSum ==
  ASSUME NEW p \in Nat \ {0}, NEW q \in Polys(p), NEW u \in Polys(p), NEW e \in DOMAIN u,
         OneMore(q, u, e)
  PROVE  e \in Nat /\ u[e] \in 1 .. p - 1 /\ u = Add(p, q, Monomial(e, u[e]))
<1>1. e \in Nat /\ u[e] \in 1 .. p - 1
  <2>1. DOMAIN u \subseteq Nat
    BY PolyIs, PowersAre
  <2> QED
    BY <2>1, PolyIs
<1>2. PICK t \in Polys(p) : t = Monomial(e, u[e]) /\ DOMAIN t = {e} /\ t[e] = u[e]
  BY <1>1, MonomialIs
<1>3. PICK v \in Polys(p) : v = Add(p, q, t)
  BY PolyType
<1>4. ASSUME NEW k \in Int PROVE Congruent(p, Coeff(u, k), Coeff(v, k))
  <2>1. PICK a \in Int, b \in Int, c \in Int, d \in Int :
          a = Coeff(u, k) /\ b = Coeff(q, k) /\ c = Coeff(t, k) /\ d = Coeff(v, k)
    BY CoeffType
  <2>2. Congruent(p, d, b + c) /\ b + c \in Int
    BY <1>3, <2>1, SumCoeff
  <2>3. a = b + c
    <3>1. CASE k = e
      <4>1. b = 0 /\ c = u[e] /\ a = u[e]
        BY <1>2, <2>1, <3>1 DEF Coeff, OneMore
      <4> QED
        BY <2>1, <4>1
    <3>2. CASE k # e
      <4>1. c = 0 /\ a = b
        BY <1>2, <2>1, <3>2 DEF Coeff, OneMore
      <4> QED
        BY <4>1
    <3> QED
      BY <3>1, <3>2
  <2>4. Congruent(p, b + c, d)
    BY <2>2, CongruentTransitive
  <2> QED
    BY <2>1, <2>3, <2>4
<1>5. u = v
  BY <1>4, SameModulo
<1> QED
  BY <1>1, <1>2, <1>3, <1>5

LEMMA MulOfZero ==
  ASSUME NEW p \in Nat \ {0}, NEW f \in Polys(p)
  PROVE  Mul(p, Zero, f) = Zero /\ Mul(p, f, Zero) = Zero
<1>1. Zero \in Polys(p)
  BY ZeroIs
<1>2. PICK u \in Polys(p) : u = Mul(p, Zero, f)
  BY <1>1, PolyType
<1>3. ASSUME NEW k \in Int PROVE Congruent(p, Coeff(u, k), Coeff(Zero, k))
  <2>1. Coeff(Zero, k) = 0 /\ ProductCoeff(Zero, f, k) = 0
    BY ZeroIs, ProductOfZero
  <2> QED
    BY <1>1, <1>2, <2>1, ProductIs
<1>4. u = Zero
  BY <1>1, <1>3, SameModulo
<1> QED
  BY <1>1, <1>2, <1>4, MulCommutes

LEMMA MulAssociates ==
  ASSUME NEW p \in Nat \ {0}, NEW f \in Polys(p), NEW g \in Polys(p), NEW h \in Polys(p)
  PROVE  Mul(p, Mul(p, f, g), h) = Mul(p, f, Mul(p, g, h))
<1> DEFINE G == {q \in Polys(p) : Mul(p, Mul(p, q, g), h) = Mul(p, q, Mul(p, g, h))}
<1>0. Mul(p, g, h) \in Polys(p)
  BY PolyType
<1>1. Zero \in G
  <2>1. Zero \in Polys(p)
    BY ZeroIs
  <2>2. Mul(p, Zero, g) = Zero /\ Mul(p, Zero, h) = Zero /\ Mul(p, Zero, Mul(p, g, h)) = Zero
    BY <1>0, MulOfZero
  <2> QED
    BY <2>1, <2>2
<1>2. ASSUME NEW q \in G, NEW u \in Polys(p), NEW e \in DOMAIN u, OneMore(q, u, e)
      PROVE  u \in G
  <2>1. q \in Polys(p) /\ Mul(p, Mul(p, q, g), h) = Mul(p, q, Mul(p, g, h))
    OBVIOUS
  <2> HIDE DEF G
  <2>2. e \in Nat /\ u[e] \in 1 .. p - 1 /\ u = Add(p, q, Monomial(e, u[e]))
    BY <1>2, <2>1, OneMoreIsSum
  <2>3. PICK t \in Polys(p) : t = Monomial(e, u[e])
    BY <2>2, MonomialIs
  <2>4. PICK gh \in Polys(p), tg \in Polys(p), qg \in Polys(p) :
          gh = Mul(p, g, h) /\ tg = Mul(p, t, g) /\ qg = Mul(p, q, g)
    BY <2>1, PolyType
  <2>5. Mul(p, u, g) = Add(p, qg, tg)
    BY <2>1, <2>2, <2>3, <2>4, MulDistributes
  <2>6. Mul(p, Add(p, qg, tg), h) = Add(p, Mul(p, qg, h), Mul(p, tg, h))
    BY <2>4, MulDistributes
  <2>7. Mul(p, tg, h) = Mul(p, t, gh)
    BY <2>2, <2>3, <2>4, MonomialAssociates
  <2>8. Mul(p, u, gh) = Add(p, Mul(p, q, gh), Mul(p, t, gh))
    BY <2>1, <2>2, <2>3, MulDistributes
  <2>9. Mul(p, Mul(p, u, g), h) = Mul(p, u, Mul(p, g, h))
    BY <2>1, <2>4, <2>5, <2>6, <2>7, <2>8
  <2> QED
    BY <2>9 DEF G
<1>3. G = Polys(p)
  <2> HIDE DEF G
  <2>1. G \in SUBSET Polys(p)
    BY DEF G
  <2>2. Grows(p, G)
    BY <1>2 DEF Grows
  <2> QED
    BY <1>1, <2>1, <2>2, PowerByPower
<1> QED
  BY <1>3

One == Monomial(0, 1)

LEMMA ScaledCoeff ==
  ASSUME NEW p \in Nat \ {0}, NEW c \in 1 .. p - 1, NEW f \in Polys(p), NEW k \in Int
  PROVE  /\ Mul(p, Monomial(0, c), f) \in Polys(p)
         /\ Coeff(Mul(p, Monomial(0, c), f), k) = (c * Coeff(f, k)) % p
<1>1. 0 \in Nat /\ k - 0 = k
  OBVIOUS
<1> QED
  BY <1>1, MonomialProduct

LEMMA MulOfOne ==
  ASSUME NEW p \in Nat \ {0, 1}, NEW f \in Polys(p)
  PROVE  One \in Polys(p) /\ Mul(p, One, f) = f
<1>1. p \in Nat \ {0} /\ 1 \in 1 .. p - 1
  OBVIOUS
<1>2. One \in Polys(p)
  BY <1>1, MonomialIs DEF One
<1>3. PICK u \in Polys(p) : u = Mul(p, One, f)
  BY <1>1, <1>2, PolyType
<1>4. ASSUME NEW k \in Nat PROVE Coeff(u, k) = Coeff(f, k)
  <2>1. PICK x \in 0 .. p - 1 : x = Coeff(f, k)
    BY <1>1, CoeffType
  <2>2. k \in Int
    OBVIOUS
  <2>3. Coeff(u, k) = (1 * x) % p
    BY <1>1, <1>3, <2>1, <2>2, ScaledCoeff DEF One
  <2>4. (1 * x) % p = x
    OBVIOUS
  <2> QED
    BY <2>1, <2>3, <2>4
<1>5. u = f
  BY <1>1, <1>4, SamePoly
<1> QED
  BY <1>2, <1>3, <1>5

\* Addition and multiplication of polynomials have the laws of a commutative ring.
THEOREM PolynomialRing ==
  ASSUME NEW p \in Nat \ {0, 1}, NEW f \in Polys(p), NEW g \in Polys(p), NEW h \in Polys(p)
  PROVE  /\ Add(p, f, g) \in Polys(p) /\ Mul(p, f, g) \in Polys(p)
         /\ Add(p, f, g) = Add(p, g, f)
         /\ Mul(p, f, g) = Mul(p, g, f)
         /\ Mul(p, Mul(p, f, g), h) = Mul(p, f, Mul(p, g, h))
         /\ Mul(p, f, Add(p, g, h)) = Add(p, Mul(p, f, g), Mul(p, f, h))
         /\ One \in Polys(p) /\ Mul(p, One, f) = f
         /\ Add(p, Zero, f) = f /\ Sub(p, f, f) = Zero
<1>1. p \in Nat \ {0}
  OBVIOUS
<1>2. Add(p, f, g) \in Polys(p) /\ Mul(p, f, g) \in Polys(p)
  BY <1>1, PolyType
<1>3. Add(p, f, g) = Add(p, g, f)
  <2>1. PICK u \in Polys(p), v \in Polys(p) : u = Add(p, f, g) /\ v = Add(p, g, f)
    BY <1>1, PolyType
  <2>2. ASSUME NEW k \in Nat PROVE Coeff(u, k) = Coeff(v, k)
    <3>1. PICK x \in Int, y \in Int : x = Coeff(f, k) /\ y = Coeff(g, k)
      BY <1>1, CoeffType
    <3>2. x + y = y + x
      OBVIOUS
    <3>3. Coeff(u, k) = (x + y) % p /\ Coeff(v, k) = (y + x) % p
      BY <1>1, <2>1, <3>1, AddIs
    <3> QED
      BY <3>2, <3>3
  <2> QED
    BY <1>1, <2>1, <2>2, SamePoly
<1>4. Mul(p, f, g) = Mul(p, g, f)
  BY <1>1, MulCommutes
<1>5. Mul(p, Mul(p, f, g), h) = Mul(p, f, Mul(p, g, h))
  BY <1>1, MulAssociates
<1>6. Mul(p, f, Add(p, g, h)) = Add(p, Mul(p, f, g), Mul(p, f, h))
  BY <1>1, MulDistributes
<1>7. One \in Polys(p) /\ Mul(p, One, f) = f
  BY MulOfOne
<1>8. Add(p, Zero, f) = f
  <2>1. Zero \in Polys(p)
    BY <1>1, ZeroIs
  <2>2. PICK u \in Polys(p) : u = Add(p, Zero, f)
    BY <1>1, <2>1, PolyType
  <2>3. ASSUME NEW k \in Nat PROVE Coeff(u, k) = Coeff(f, k)
    <3>1. PICK x \in 0 .. p - 1 : x = Coeff(f, k)
      BY <1>1, CoeffType
    <3>2. Coeff(Zero, k) = 0 /\ (0 + x) % p = x
      BY <1>1, ZeroIs
    <3>3. Coeff(u, k) = (Coeff(Zero, k) + Coeff(f, k)) % p
      BY <1>1, <2>1, <2>2, AddIs
    <3> QED
      BY <3>1, <3>2, <3>3
  <2> QED
    BY <1>1, <2>2, <2>3, SamePoly
<1>9. Sub(p, f, f) = Zero
  <2>1. PICK u \in Polys(p) : u = Sub(p, f, f)
    BY <1>1, PolyType
  <2>2. ASSUME NEW k \in Nat PROVE Coeff(u, k) = Coeff(Zero, k)
    <3>1. PICK x \in Int : x = Coeff(f, k)
      BY <1>1, CoeffType
    <3>2. Coeff(Zero, k) = 0 /\ (x - x) % p = 0
      BY <1>1, ZeroIs
    <3>3. Coeff(u, k) = (Coeff(f, k) - Coeff(f, k)) % p
      BY <1>1, <2>1, SubIs
    <3> QED
      BY <3>1, <3>2, <3>3
  <2> QED
    BY <1>1, <2>1, <2>2, SamePoly, ZeroIs
<1> QED
  BY <1>2, <1>3, <1>4, <1>5, <1>6, <1>7, <1>8, <1>9

-----------------------------------------------------------------------------
(* The greatest common divisor                                             *)

PolyDivides(p, d, f) == \E h \in Polys(p) : Mul(p, h, d) = f

LEMMA DividesSum ==
  ASSUME NEW p \in Nat \ {0}, NEW d \in Polys(p), NEW q \in Polys(p), NEW x \in Polys(p),
         NEW y \in Polys(p), PolyDivides(p, d, x), PolyDivides(p, d, y)
  PROVE  PolyDivides(p, d, Add(p, Mul(p, q, x), y))
<1>1. PICK h \in Polys(p), i \in Polys(p) : Mul(p, h, d) = x /\ Mul(p, i, d) = y
  BY DEF PolyDivides
<1>2. PICK qh \in Polys(p) : qh = Mul(p, q, h)
  BY PolyType
<1>3. Mul(p, qh, d) = Mul(p, q, x)
  BY <1>1, <1>2, MulAssociates
<1>4. Mul(p, Add(p, qh, i), d) = Add(p, Mul(p, q, x), y)
  BY <1>1, <1>3, MulDistributes
<1>5. Add(p, qh, i) \in Polys(p)
  BY PolyType
<1> QED
  BY <1>4, <1>5 DEF PolyDivides

LEMMA DividesRest ==
  ASSUME NEW p \in Nat \ {0, 1}, NEW d \in Polys(p), NEW q \in Polys(p), NEW x \in Polys(p),
         NEW r \in Polys(p), PolyDivides(p, d, x), PolyDivides(p, d, Add(p, Mul(p, q, x), r))
  PROVE  PolyDivides(p, d, r)
<1>0. p \in Nat \ {0} /\ p - 1 \in 1 .. p - 1
  OBVIOUS
<1>1. PICK n \in Polys(p) : n = Monomial(0, p - 1)
  <2>1. 0 \in Nat
    OBVIOUS
  <2> QED
    BY <1>0, <2>1, MonomialIs
<1>2. PICK w \in Polys(p), nq \in Polys(p) : w = Mul(p, q, x) /\ nq = Mul(p, n, q)
  BY <1>0, PolyType
<1>3. PICK f \in Polys(p), nw \in Polys(p) : f = Add(p, w, r) /\ nw = Mul(p, n, w)
  BY <1>0, PolyType
<1>4. PICK s \in Polys(p) : s = Add(p, nw, f)
  BY <1>0, PolyType
<1>5. ASSUME NEW k \in Int PROVE Congruent(p, Coeff(s, k), Coeff(r, k))
  <2>1. PICK a \in Int, b \in Int, c \in Int, e \in Int, o \in Int :
          /\ a = Coeff(w, k) /\ b = Coeff(r, k) /\ c = Coeff(f, k)
          /\ e = Coeff(nw, k) /\ o = Coeff(s, k)
    BY <1>0, CoeffType
  <2>2. PICK m \in Int : m = (p - 1) * a
    OBVIOUS
  <2>3. e = m % p
    BY <1>0, <1>1, <1>3, <2>1, <2>2, ScaledCoeff
  <2>4. Congruent(p, e, m)
    BY <1>0, <2>3, Modulo
  <2>5. Congruent(p, c, a + b) /\ Congruent(p, o, e + c)
    BY <1>0, <1>3, <1>4, <2>1, SumCoeff
  <2>6. a + b \in Int /\ e + c \in Int /\ m + (a + b) \in Int
    OBVIOUS
  <2>7. Congruent(p, e + c, m + (a + b))
    BY <1>0, <2>4, <2>5, <2>6, CongruentSums
  <2>8. (m + (a + b)) - b = a * p
    <3>1. (p - 1) * a = a * p - a
      OBVIOUS
    <3>2. PICK z \in Int : z = a * p
      OBVIOUS
    <3>3. m = z - a
      BY <2>2, <3>1, <3>2
    <3> QED
      BY <3>2, <3>3
  <2>9. Congruent(p, m + (a + b), b)
    BY <2>8 DEF Congruent
  <2>10. Congruent(p, o, m + (a + b))
    BY <1>0, <2>5, <2>6, <2>7, CongruentChain
  <2> QED
    BY <1>0, <2>1, <2>6, <2>9, <2>10, CongruentChain
<1>6. s = r
  BY <1>0, <1>5, SameModulo
<1>7. nw = Mul(p, nq, x)
  BY <1>0, <1>2, <1>3, MulAssociates
<1>8. PolyDivides(p, d, f)
  BY <1>2, <1>3
<1>9. PolyDivides(p, d, Add(p, Mul(p, nq, x), f))
  BY <1>0, <1>8, DividesSum
<1> QED
  BY <1>4, <1>6, <1>7, <1>9

SameDivisors(p, a, b, x, y) ==
  \A d \in Polys(p) : PolyDivides(p, d, a) /\ PolyDivides(p, d, b)
                        <=> PolyDivides(p, d, x) /\ PolyDivides(p, d, y)

LEMMA RemKeepsDivisors ==
  ASSUME NEW p \in Nat \ {0, 1}, IsPrime(p), NEW a \in Polys(p), NEW b \in Polys(p), b # Zero
  PROVE  /\ Rem(p, a, b) \in Polys(p)
         /\ Rem(p, a, b) = Zero \/ Degree(Rem(p, a, b)) < Degree(b)
         /\ SameDivisors(p, a, b, b, Rem(p, a, b))
<1>0. p \in Nat \ {0}
  OBVIOUS
<1>1. PICK q \in Polys(p), r \in Polys(p) :
           /\ DivMod(p, a, b) = <<q, r>>
           /\ Add(p, Mul(p, q, b), r) = a
           /\ r = Zero \/ Degree(r) < Degree(b)
  BY DivModExact
<1>2. r = Rem(p, a, b)
  BY <1>1 DEF Rem
<1>3. ASSUME NEW d \in Polys(p), PolyDivides(p, d, b)
      PROVE  PolyDivides(p, d, a) <=> PolyDivides(p, d, r)
  <2>1. ASSUME PolyDivides(p, d, r) PROVE PolyDivides(p, d, a)
    <3>1. PolyDivides(p, d, Add(p, Mul(p, q, b), r))
      BY <1>0, <1>3, <2>1, DividesSum
    <3> QED
      BY <1>1, <3>1
  <2>2. ASSUME PolyDivides(p, d, a) PROVE PolyDivides(p, d, r)
    <3>1. PolyDivides(p, d, Add(p, Mul(p, q, b), r))
      BY <1>1, <2>2
    <3> QED
      BY <1>3, <3>1, DividesRest
  <2> QED
    BY <2>1, <2>2
<1>4. SameDivisors(p, a, b, b, r)
  BY <1>3 DEF SameDivisors
<1> QED
  BY <1>1, <1>2, <1>4

LEMMA GcdRuns ==
  ASSUME NEW p \in Nat \ {0, 1}, IsPrime(p), NEW a \in Polys(p), NEW b \in Polys(p), b # Zero
  PROVE  \E h \in [Nat -> Polys(p) \X Polys(p) \X Polys(p)] :
           /\ h[0] = <<a, b, Rem(p, a, b)>>
           /\ \A k \in Nat : h[k + 1] = IF h[k][3] = Zero THEN h[k]
                                        ELSE <<h[k][2], h[k][3], Rem(p, h[k][2], h[k][3])>>
           /\ GcdLoop(p, a, b) = h[Degree(b) + 1][2]
<1> DEFINE States == Polys(p) \X Polys(p) \X Polys(p)
           Runs(h) == h = [k \in Nat |->
                             IF k = 0 THEN <<a, b, Rem(p, a, b)>>
                             ELSE IF h[k - 1][3] = Zero THEN h[k - 1]
                                  ELSE <<h[k - 1][2], h[k - 1][3],
                                         Rem(p, h[k - 1][2], h[k - 1][3])>>]
<1>0. ASSUME NEW v \in States, v[3] # Zero
      PROVE  <<v[2], v[3], Rem(p, v[2], v[3])>> \in States
  <2>1. v[2] \in Polys(p) /\ v[3] \in Polys(p)
    OBVIOUS
  <2>2. Rem(p, v[2], v[3]) \in Polys(p)
    BY <1>0, <2>1, RemKeepsDivisors
  <2> QED
    BY <2>1, <2>2
<1>1. PICK step \in [States -> States] :
        step = [v \in States |-> IF v[3] = Zero THEN v
                                 ELSE <<v[2], v[3], Rem(p, v[2], v[3])>>]
  <2> HIDE DEF States
  <2> QED
    BY <1>0
<1>2. <<a, b, Rem(p, a, b)>> \in States
  <2>1. Rem(p, a, b) \in Polys(p)
    BY RemKeepsDivisors
  <2> QED
    BY <2>1
<1>3. PICK h : Repeats(h, States, <<a, b, Rem(p, a, b)>>, step)
  <2> HIDE DEF States
  <2> QED
    BY <1>1, <1>2, Iterates
<1>4. ASSUME NEW k \in Nat, k # 0
      PROVE  h[k] = IF h[k - 1][3] = Zero THEN h[k - 1]
                    ELSE <<h[k - 1][2], h[k - 1][3], Rem(p, h[k - 1][2], h[k - 1][3])>>
  <2> HIDE DEF States
  <2>1. k - 1 \in Nat /\ (k - 1) + 1 = k /\ h[k - 1] \in States
    BY <1>3, <1>4 DEF Repeats
  <2>2. h[(k - 1) + 1] = step[h[k - 1]]
    BY <1>3, <2>1 DEF Repeats
  <2> QED
    BY <1>1, <2>1, <2>2
<1>5. Runs(h)
  <2>1. h[0] = <<a, b, Rem(p, a, b)>> /\ h = [k \in Nat |-> h[k]]
    BY <1>3 DEF Repeats
  <2> QED
    BY <1>4, <2>1
<1> DEFINE it == CHOOSE x : Runs(x)
<1>6. Runs(it)
  <2> HIDE DEF Runs
  <2> QED
    BY <1>5
<1>7. GcdLoop(p, a, b) = it[Degree(b) + 1][2]
  BY DEF GcdLoop, Loop
<1> HIDE DEF it
<1>8. it[0] = <<a, b, Rem(p, a, b)>>
  BY <1>6
<1>9. ASSUME NEW k \in Nat
      PROVE  it[k + 1] = IF it[k][3] = Zero THEN it[k]
                         ELSE <<it[k][2], it[k][3], Rem(p, it[k][2], it[k][3])>>
  <2>1. k + 1 \in Nat /\ k + 1 # 0 /\ (k + 1) - 1 = k
    OBVIOUS
  <2> QED
    BY <1>6, <2>1
<1>10. it \in [Nat -> States]
  <2> DEFINE G == {k \in Nat : it[k] \in States}
  <2>1. 0 \in G
    BY <1>2, <1>8
  <2>2. ASSUME NEW k \in G PROVE k + 1 \in G
    <3>1. k + 1 \in Nat
      OBVIOUS
    <3> HIDE DEF States
    <3>2. PICK v \in States : v = it[k]
      OBVIOUS
    <3>3. it[k + 1] = IF v[3] = Zero THEN v ELSE <<v[2], v[3], Rem(p, v[2], v[3])>>
      BY <1>9, <3>2
    <3>4. it[k + 1] \in States
      BY <1>0, <3>3
    <3> QED
      BY <3>1, <3>4
  <2>3. G = Nat
    <3> HIDE DEF G
    <3>1. G \in SUBSET Nat
      BY DEF G
    <3> QED
      BY <2>1, <2>2, <3>1, Counting
  <2>4. \A k \in Nat : it[k] \in States
    BY <2>3
  <2>5. it = [k \in Nat |-> it[k]]
    BY <1>6
  <2> QED
    BY <2>4, <2>5
<1> QED
  BY <1>7, <1>8, <1>9, <1>10

\* The loop ends with a polynomial whose divisors are the common divisors of a and b.
LEMMA GcdLoopIs ==
  ASSUME NEW p \in Nat \ {0, 1}, IsPrime(p), NEW a \in Polys(p), NEW b \in Polys(p), b # Zero
  PROVE  /\ GcdLoop(p, a, b) \in Polys(p) /\ GcdLoop(p, a, b) # Zero
         /\ SameDivisors(p, a, b, GcdLoop(p, a, b), Zero)
<1>0. p \in Nat \ {0}
  OBVIOUS
<1>1. PICK h \in [Nat -> Polys(p) \X Polys(p) \X Polys(p)] :
           /\ h[0] = <<a, b, Rem(p, a, b)>>
           /\ \A k \in Nat : h[k + 1] = IF h[k][3] = Zero THEN h[k]
                                        ELSE <<h[k][2], h[k][3], Rem(p, h[k][2], h[k][3])>>
           /\ GcdLoop(p, a, b) = h[Degree(b) + 1][2]
  BY GcdRuns
<1>2. Degree(b) \in Nat
  BY <1>0, LeadTermIs
<1> DEFINE Good(k) == /\ h[k][2] # Zero /\ SameDivisors(p, a, b, h[k][2], h[k][3])
                      /\ \/ h[k][3] = Zero
                         \/ Degree(h[k][3]) < Degree(h[k][2]) /\ Degree(h[k][2]) + k <= Degree(b)
           G == {k \in Nat : Good(k)}
<1>3. 0 \in G
  <2>1. h[0][2] = b /\ h[0][3] = Rem(p, a, b)
    BY <1>1
  <2>2. /\ SameDivisors(p, a, b, b, Rem(p, a, b))
        /\ Rem(p, a, b) = Zero \/ Degree(Rem(p, a, b)) < Degree(b)
    BY RemKeepsDivisors
  <2> QED
    BY <1>2, <2>1, <2>2
<1>4. ASSUME NEW k \in G PROVE k + 1 \in G
  <2>1. k \in Nat /\ Good(k)
    OBVIOUS
  <2>2. PICK x \in Polys(p), y \in Polys(p), z \in Polys(p) : h[k] = <<x, y, z>>
    BY <1>1, <2>1
  <2>3. h[k][2] = y /\ h[k][3] = z
    BY <2>2
  <2>4. CASE z = Zero
    <3>1. h[k + 1] = h[k]
      BY <1>1, <2>1, <2>3, <2>4
    <3> QED
      BY <2>1, <2>3, <2>4, <3>1
  <2>5. CASE z # Zero
    <3>1. PICK r \in Polys(p) :
            /\ r = Rem(p, y, z) /\ SameDivisors(p, y, z, z, r)
            /\ r = Zero \/ Degree(r) < Degree(z)
      BY <2>5, RemKeepsDivisors
    <3>2. h[k + 1] = <<y, z, r>>
      BY <1>1, <2>1, <2>3, <2>5, <3>1
    <3>3. h[k + 1][2] = z /\ h[k + 1][3] = r
      BY <3>2
    <3>4. SameDivisors(p, a, b, z, r)
      BY <2>1, <2>3, <3>1 DEF SameDivisors
    <3>5. y # Zero /\ Degree(z) < Degree(y) /\ Degree(y) + k <= Degree(b)
      BY <2>1, <2>3, <2>5
    <3>6. PICK m \in Nat, n \in Nat : m = Degree(y) /\ n = Degree(z)
      BY <1>0, <2>5, <3>5, LeadTermIs
    <3>7. Degree(z) + (k + 1) <= Degree(b) /\ k + 1 \in Nat
      BY <1>2, <2>1, <3>5, <3>6
    <3> QED
      BY <2>5, <3>1, <3>3, <3>4, <3>7
  <2> QED
    BY <2>4, <2>5
<1>5. G = Nat
  <2> HIDE DEF G
  <2>1. G \in SUBSET Nat
    BY DEF G
  <2> QED
    BY <1>3, <1>4, <2>1, Counting
<1>6. PICK n \in Nat : n = Degree(b) + 1
  BY <1>2
<1>7. PICK x \in Polys(p), y \in Polys(p), z \in Polys(p) : h[n] = <<x, y, z>>
  BY <1>1
<1>8. h[n][2] = y /\ h[n][3] = z /\ Good(n)
  BY <1>5, <1>7
<1>9. z = Zero
  <2> SUFFICES ASSUME z # Zero PROVE FALSE
    OBVIOUS
  <2>1. Degree(y) \in Nat /\ Degree(y) + n <= Degree(b)
    BY <1>0, <1>8, LeadTermIs
  <2> QED
    BY <1>2, <1>6, <2>1
<1> QED
  BY <1>1, <1>6, <1>8, <1>9

\* A number that is not a multiple of the prime has none in its products.
LEMMA NoZeroDivisors ==
  ASSUME NEW p \in Nat \ {0, 1}, IsPrime(p), NEW a \in 1 .. p - 1, NEW b \in 1 .. p - 1
  PROVE  (a * b) % p \in 1 .. p - 1
<1>1. p \in Nat \ {0} /\ a * b \in Int /\ 0 \in Int
  OBVIOUS
<1>2. PICK c \in 0 .. p - 1 : c = (a * b) % p
  BY <1>1, Remainder
<1>3. c # 0
  <2> SUFFICES ASSUME c = 0 PROVE FALSE
    OBVIOUS
  <2>1. PICK s \in Int : s = Egcd(a, p)[1] /\ Congruent(p, s * a, 1)
    BY EgcdInverts
  <2>2. PICK z \in Int : a * b = z * p + c
    BY <1>1, <1>2, Remainder
  <2>3. PICK y \in Int : s * a - 1 = y * p
    BY <2>1 DEF Congruent
  <2>4. PICK m \in Int : m = s * z - y * b
    OBVIOUS
  <2>5. b = m * p
    <3>1. b = b * (s * a) - b * (s * a - 1)
      OBVIOUS
    <3>2. b * (s * a) = s * (a * b)
      OBVIOUS
    <3>3. s * (a * b) = (s * z) * p
      <4>1. a * b = z * p
        BY <2>2
      <4>2. s * (z * p) = (s * z) * p
        OBVIOUS
      <4> QED
        BY <4>1, <4>2
    <3>4. b * (s * a - 1) = (y * b) * p
      <4>1. b * (y * p) = (y * b) * p
        OBVIOUS
      <4> QED
        BY <2>3, <4>1
    <3>5. (s * z) * p - (y * b) * p = (s * z - y * b) * p
      OBVIOUS
    <3>6. b = (s * z) * p - (y * b) * p
      BY <3>1, <3>2, <3>3, <3>4
    <3> QED
      BY <2>4, <3>5, <3>6
  <2>6. -p < m * p /\ m * p < p
    BY <2>5
  <2>7. m = 0
    BY <1>1, <2>6, SmallMultiple
  <2> QED
    BY <2>5, <2>7
<1> QED
  BY <1>2, <1>3

LEMMA DividesMultiple ==
  ASSUME NEW p \in Nat \ {0}, NEW d \in Polys(p), NEW q \in Polys(p), NEW x \in Polys(p),
         PolyDivides(p, d, x)
  PROVE  PolyDivides(p, d, Mul(p, q, x))
<1>1. PICK h \in Polys(p) : Mul(p, h, d) = x
  BY DEF PolyDivides
<1>2. Mul(p, Mul(p, q, h), d) = Mul(p, q, x) /\ Mul(p, q, h) \in Polys(p)
  BY <1>1, MulAssociates, PolyType
<1> QED
  BY <1>2 DEF PolyDivides

\* Each is a multiple of the other.
Associates(p, m, g) ==
  \E u \in Polys(p), v \in Polys(p) : m = Mul(p, u, g) /\ g = Mul(p, v, m)

\* The common divisor is multiplied by the inverse of its leading coefficient.
LEMMA Normalised ==
  ASSUME NEW p \in Nat \ {0, 1}, IsPrime(p), NEW g \in Polys(p), g # Zero, NEW m,
         m = [k \in DOMAIN g |-> IF LeadTerm(g)[2] = 1 THEN g[k]
                                 ELSE (Egcd(LeadTerm(g)[2], p)[1] * g[k]) % p]
  PROVE  /\ m \in Polys(p) /\ m # Zero /\ LeadTerm(m)[2] = 1
         /\ Associates(p, m, g)
<1>0. p \in Nat \ {0} /\ 1 \in 1 .. p - 1 /\ 0 \in Nat
  OBVIOUS
<1>1. PICK n \in Nat, c \in 1 .. p - 1 : n = Degree(g) /\ n \in DOMAIN g /\ c = g[n] /\ LeadTerm(g) = <<n, c>>
  BY <1>0, LeadTermIs
<1>2. PICK u \in 1 .. p - 1 : /\ Congruent(p, u * c, 1)
                              /\ \A k \in DOMAIN g : m[k] = (u * g[k]) % p
  <2>1. CASE c = 1
    <3>1. ASSUME NEW k \in DOMAIN g PROVE m[k] = (1 * g[k]) % p
      <4>1. PICK x \in 1 .. p - 1 : x = g[k]
        BY <1>0, PolyIs
      <4>2. (1 * x) % p = x
        OBVIOUS
      <4> QED
        BY <1>1, <2>1, <4>1, <4>2
    <3>2. Congruent(p, 1 * c, 1)
      <4>1. 1 * c = 1
        BY <2>1
      <4> QED
        BY <1>0, <4>1, Modulo
    <3> QED
      BY <1>0, <3>1, <3>2
  <2>2. CASE c # 1
    <3>1. PICK s \in Int : s = Egcd(c, p)[1] /\ Congruent(p, s * c, 1)
      BY EgcdInverts
    <3>2. PICK u \in 0 .. p - 1 : u = s % p
      BY <1>0, Remainder
    <3>3. u \in Int /\ Congruent(p, u, s)
      BY <1>0, <3>2, Modulo
    <3>4. c \in Int /\ u * c \in Int /\ s * c \in Int /\ 1 \in Int
      OBVIOUS
    <3>5. Congruent(p, u * c, s * c)
      BY <1>0, <3>3, <3>4, CongruentProducts
    <3>6. Congruent(p, u * c, 1)
      BY <1>0, <3>1, <3>4, <3>5, CongruentChain
    <3>7. u # 0
      <4> SUFFICES ASSUME u = 0 PROVE FALSE
        OBVIOUS
      <4>1. PICK z \in Int : 0 * c - 1 = z * p
        BY <3>6 DEF Congruent
      <4>2. -1 = z * p
        BY <4>1
      <4>3. z = 0
        BY <1>0, <4>2, SmallMultiple
      <4> QED
        BY <4>2, <4>3
    <3>8. ASSUME NEW k \in DOMAIN g PROVE m[k] = (u * g[k]) % p
      <4>1. PICK x \in Int : x = g[k]
        BY <1>0, PolyIs
      <4>2. PICK y \in Int, z \in Int : y = u * x /\ z = s * x
        OBVIOUS
      <4>3. Congruent(p, y, z)
        BY <1>0, <3>3, <4>2, CongruentProducts
      <4>4. y % p = z % p
        BY <1>0, <4>3, SameRemainder
      <4>5. m[k] = z % p
        BY <1>1, <2>2, <3>1, <4>1, <4>2
      <4> QED
        BY <4>1, <4>2, <4>4, <4>5
    <3> QED
      BY <3>6, <3>7, <3>8
  <2> QED
    BY <2>1, <2>2
<1>3. m \in Polys(p)
  <2>1. PICK D \in Powers : D = DOMAIN g /\ g \in [D -> 1 .. p - 1]
    BY <1>0, PolyIs
  <2>2. \A k \in D : m[k] \in 1 .. p - 1
    BY <1>2, <2>1, NoZeroDivisors
  <2>3. m \in [D -> 1 .. p - 1]
    BY <2>1, <2>2
  <2> QED
    BY <2>3 DEF Polys
<1>4. DOMAIN m = DOMAIN g /\ m # Zero
  BY <1>0, <1>1, ZeroIs
<1>5. LeadTerm(m)[2] = 1
  <2>1. LeadTerm(m) = <<Max(DOMAIN m), m[Max(DOMAIN m)]>>
    BY <1>4 DEF LeadTerm
  <2>2. Max(DOMAIN g) = n
    BY <1>1 DEF Degree, LeadTerm
  <2>3. m[n] = (u * c) % p
    BY <1>1, <1>2
  <2>4. (u * c) % p = 1 % p /\ 1 % p = 1
    <3>1. u * c \in Int /\ 1 \in Int
      OBVIOUS
    <3>2. (u * c) % p = 1 % p
      BY <1>0, <1>2, <3>1, SameRemainder
    <3> QED
      BY <3>2
  <2> QED
    BY <1>4, <2>1, <2>2, <2>3, <2>4
<1>6. PICK U \in Polys(p), C \in Polys(p) : U = Monomial(0, u) /\ C = Monomial(0, c)
                                           /\ DOMAIN U = {0} /\ U[0] = u
  BY <1>0, MonomialIs
<1>7. m = Mul(p, U, g)
  <2>1. PICK w \in Polys(p) : w = Mul(p, U, g)
    BY <1>0, PolyType
  <2>2. ASSUME NEW k \in Nat PROVE Coeff(m, k) = Coeff(w, k)
    <3>1. k \in Int /\ Coeff(w, k) = (u * Coeff(g, k)) % p
      <4>1. k \in Int
        OBVIOUS
      <4> QED
        BY <1>0, <1>6, <2>1, <4>1, ScaledCoeff
    <3>2. CASE k \in DOMAIN g
      BY <1>2, <1>4, <3>1, <3>2 DEF Coeff
    <3>3. CASE k \notin DOMAIN g
      <4>1. (u * 0) % p = 0
        OBVIOUS
      <4> QED
        BY <1>4, <3>1, <3>3, <4>1 DEF Coeff
    <3> QED
      BY <3>2, <3>3
  <2> QED
    BY <1>0, <1>3, <2>1, <2>2, SamePoly
<1>8. Mul(p, C, U) = One
  <2>1. PICK w \in Polys(p) : w = Mul(p, C, U)
    BY <1>0, PolyType
  <2>2. PICK o \in Polys(p) : o = One /\ DOMAIN o = {0} /\ o[0] = 1
    BY <1>0, MonomialIs DEF One
  <2>3. ASSUME NEW k \in Nat PROVE Coeff(w, k) = Coeff(o, k)
    <3>1. Coeff(w, k) = (c * Coeff(U, k)) % p
      <4>1. k \in Int
        OBVIOUS
      <4> QED
        BY <1>0, <1>6, <2>1, <4>1, ScaledCoeff
    <3>2. CASE k = 0
      <4>1. Coeff(U, k) = u /\ Coeff(o, k) = 1
        BY <1>6, <2>2, <3>2 DEF Coeff
      <4>2. c * u = u * c /\ u * c \in Int /\ 1 \in Int
        OBVIOUS
      <4>3. (u * c) % p = 1 % p
        BY <1>0, <1>2, <4>2, SameRemainder
      <4>4. 1 % p = 1
        OBVIOUS
      <4> QED
        BY <3>1, <4>1, <4>2, <4>3, <4>4
    <3>3. CASE k # 0
      <4>1. Coeff(U, k) = 0 /\ Coeff(o, k) = 0
        BY <1>6, <2>2, <3>3 DEF Coeff
      <4>2. (c * 0) % p = 0
        OBVIOUS
      <4> QED
        BY <3>1, <4>1, <4>2
    <3> QED
      BY <3>2, <3>3
  <2> QED
    BY <1>0, <2>1, <2>2, <2>3, SamePoly
<1>9. Mul(p, C, m) = g
  BY <1>0, <1>6, <1>7, <1>8, MulAssociates, MulOfOne
<1> QED
  BY <1>3, <1>4, <1>5, <1>6, <1>7, <1>9 DEF Associates

\* poly_gcd gives the common divisor that is monic and that every other divides.
THEOREM PolyGcdExact ==
  ASSUME NEW p \in Nat \ {0, 1}, IsPrime(p), NEW a \in Polys(p), NEW b \in Polys(p), b # Zero
  PROVE  /\ PolyGcd(p, a, b) \in Polys(p) /\ LeadTerm(PolyGcd(p, a, b))[2] = 1
         /\ PolyDivides(p, PolyGcd(p, a, b), a) /\ PolyDivides(p, PolyGcd(p, a, b), b)
         /\ \A d \in Polys(p) : PolyDivides(p, d, a) /\ PolyDivides(p, d, b)
                                  => PolyDivides(p, d, PolyGcd(p, a, b))
<1>0. p \in Nat \ {0}
  OBVIOUS
<1>1. PICK g \in Polys(p) : g = GcdLoop(p, a, b) /\ g # Zero /\ SameDivisors(p, a, b, g, Zero)
  BY GcdLoopIs
<1>2. PICK m : m = [k \in DOMAIN g |-> IF LeadTerm(g)[2] = 1 THEN g[k]
                                       ELSE (Egcd(LeadTerm(g)[2], p)[1] * g[k]) % p]
  OBVIOUS
<1>3. PolyGcd(p, a, b) = m
  BY <1>1, <1>2 DEF PolyGcd
<1>4. m \in Polys(p) /\ LeadTerm(m)[2] = 1
  BY <1>1, <1>2, Normalised
<1>5. PICK u \in Polys(p), v \in Polys(p) : m = Mul(p, u, g) /\ g = Mul(p, v, m)
  <2>1. Associates(p, m, g)
    BY <1>1, <1>2, Normalised
  <2> QED
    BY <2>1 DEF Associates
<1>6. \A d \in Polys(p) : PolyDivides(p, d, Zero)
  BY <1>0, ZeroIs, MulOfZero DEF PolyDivides
<1>7. ASSUME NEW d \in Polys(p), PolyDivides(p, d, a), PolyDivides(p, d, b)
      PROVE  PolyDivides(p, d, m)
  <2>1. PolyDivides(p, d, g)
    BY <1>1, <1>7 DEF SameDivisors
  <2> QED
    BY <1>0, <1>5, <2>1, DividesMultiple
<1>8. PolyDivides(p, m, g)
  BY <1>4, <1>5 DEF PolyDivides
<1>9. PolyDivides(p, m, a) /\ PolyDivides(p, m, b)
  BY <1>1, <1>4, <1>6, <1>8 DEF SameDivisors
<1> QED
  BY <1>3, <1>4, <1>7, <1>9

-----------------------------------------------------------------------------
(* Powers                                                                  *)

Multiplied(p, f) == [x \in Polys(p) |-> Mul(p, f, x)]

LEMMA PowersAdd ==
  ASSUME NEW p \in Nat \ {0, 1}, NEW f \in Polys(p), NEW r,
         Repeats(r, Polys(p), One, Multiplied(p, f)), NEW i \in Nat, NEW j \in Nat
  PROVE  r[i + j] = Mul(p, r[i], r[j])
<1>0. p \in Nat \ {0}
  OBVIOUS
<1>1. /\ \A k \in Nat : r[k] \in Polys(p)
      /\ \A k \in Nat : r[k + 1] = Mul(p, f, r[k])
      /\ r[0] = One
  BY DEF Repeats, Multiplied
<1> DEFINE G == {k \in Nat : r[k + j] = Mul(p, r[k], r[j])}
<1>2. 0 \in G
  <2>1. Mul(p, One, r[j]) = r[j]
    BY <1>1, MulOfOne
  <2>2. 0 + j = j
    OBVIOUS
  <2> QED
    BY <1>1, <2>1, <2>2
<1>3. ASSUME NEW k \in G PROVE k + 1 \in G
  <2>1. k \in Nat /\ k + j \in Nat /\ (k + 1) + j = (k + j) + 1 /\ r[k + j] = Mul(p, r[k], r[j])
    OBVIOUS
  <2>2. r[(k + 1) + j] = Mul(p, f, Mul(p, r[k], r[j]))
    BY <1>1, <2>1
  <2>3. r[k + 1] = Mul(p, f, r[k]) /\ r[k] \in Polys(p) /\ r[j] \in Polys(p)
    BY <1>1, <2>1
  <2>4. Mul(p, Mul(p, f, r[k]), r[j]) = Mul(p, f, Mul(p, r[k], r[j]))
    BY <1>0, <2>3, MulAssociates
  <2> QED
    BY <2>1, <2>2, <2>3, <2>4
<1>4. G = Nat
  <2> HIDE DEF G
  <2>1. G \in SUBSET Nat
    BY DEF G
  <2> QED
    BY <1>2, <1>3, <2>1, Counting
<1> QED
  BY <1>4

\* pow, which halves its exponent, multiplies f with itself so many times.
THEOREM PowExact ==
  ASSUME NEW p \in Nat \ {0, 1}, NEW f \in Polys(p), NEW n \in Nat \ {0}
  PROVE  /\ Pow(p, f, n) \in Polys(p)
         /\ Pow(p, f, 1) = f
         /\ Pow(p, f, n + 1) = Mul(p, f, Pow(p, f, n))
<1>0. p \in Nat \ {0}
  OBVIOUS
<1>1. PICK r : Repeats(r, Polys(p), One, Multiplied(p, f))
  <2>1. One \in Polys(p)
    BY MulOfOne
  <2>2. Multiplied(p, f) \in [Polys(p) -> Polys(p)]
    BY <1>0, PolyType DEF Multiplied
  <2> QED
    BY <2>1, <2>2, Iterates
<1>2. /\ \A k \in Nat : r[k] \in Polys(p)
      /\ \A k \in Nat : r[k + 1] = Mul(p, f, r[k])
  BY <1>1 DEF Repeats, Multiplied
<1>3. r[1] = f
  <2>1. r[0] = One /\ r[0 + 1] = Mul(p, f, r[0])
    BY <1>1, <1>2 DEF Repeats
  <2>2. Mul(p, f, One) = Mul(p, One, f) /\ Mul(p, One, f) = f
    BY <1>0, MulCommutes, MulOfOne
  <2> QED
    BY <2>1, <2>2
<1> DEFINE Half(h, m) == Mul(p, IF m % 2 = 0 THEN h ELSE Mul(p, f, h), h)
           Tos(To) == To = [m \in Nat \ {0} |-> IF m = 1 THEN f ELSE Half(To[m \div 2], m)]
<1>4. ASSUME NEW m \in Nat \ {0, 1} PROVE /\ m \div 2 \in Nat \ {0} /\ m \div 2 < m
                                         /\ r[m] = Half(r[m \div 2], m)
  <2>1. PICK d \in Nat : d = m \div 2 /\ d # 0 /\ d < m
    OBVIOUS
  <2>2. r[d] \in Polys(p)
    BY <1>2
  <2>3. CASE m % 2 = 0
    <3>1. m = d + d
      BY <2>1, <2>3
    <3>2. r[d + d] = Mul(p, r[d], r[d])
      BY <1>1, PowersAdd
    <3> QED
      BY <2>1, <2>3, <3>1, <3>2
  <2>4. CASE m % 2 # 0
    <3>1. PICK e \in Nat : e = d + 1 /\ m = e + d
      BY <2>1, <2>4
    <3>2. r[e] = Mul(p, f, r[d])
      BY <1>2, <3>1
    <3>3. r[e + d] = Mul(p, r[e], r[d])
      BY <1>1, PowersAdd
    <3> QED
      BY <2>1, <2>4, <3>1, <3>2, <3>3
  <2> QED
    BY <2>1, <2>3, <2>4
<1>5. Tos([m \in Nat \ {0} |-> r[m]])
  <2> DEFINE To == [m \in Nat \ {0} |-> r[m]]
  <2> HIDE DEF Half
  <2>1. ASSUME NEW m \in Nat \ {0} PROVE r[m] = IF m = 1 THEN f ELSE Half(To[m \div 2], m)
    BY <1>3, <1>4
  <2> QED
    BY <2>1
<1> DEFINE To == CHOOSE x : Tos(x)
<1>6. Tos(To)
  <2> HIDE DEF Tos
  <2> QED
    BY <1>5
<1>7. ASSUME NEW m \in Nat \ {0} PROVE Pow(p, f, m) = To[m]
  BY DEF Pow
<1> HIDE DEF To
<1>8. ASSUME NEW m \in Nat \ {0} PROVE To[m] = r[m]
  <2> DEFINE Bad == {k \in Nat \ {0} : To[k] # r[k]}
  <2>1. Bad = {}
    <3> SUFFICES ASSUME Bad # {} PROVE FALSE
      OBVIOUS
    <3>1. PICK k \in Bad : \A l \in Bad : k <= l
      <4> HIDE DEF Bad
      <4>1. Bad \in SUBSET Nat
        BY DEF Bad
      <4> QED
        BY <4>1, LeastNumber
    <3>2. k \in Nat \ {0} /\ To[k] # r[k]
      OBVIOUS
    <3> HIDE DEF Half
    <3>3. CASE k = 1
      BY <1>3, <1>6, <3>2, <3>3
    <3>4. CASE k # 1
      <4>1. To[k] = Half(To[k \div 2], k)
        BY <1>6, <3>2, <3>4
      <4>2. k \div 2 \in Nat \ {0} /\ k \div 2 < k /\ r[k] = Half(r[k \div 2], k)
        BY <1>4, <3>2, <3>4
      <4>3. PICK d \in Nat \ {0} : d = k \div 2 /\ d < k
        BY <4>2
      <4>4. d \notin Bad
        BY <3>1, <3>2, <4>3
      <4>5. To[d] = r[d]
        BY <4>4
      <4> QED
        BY <3>2, <4>1, <4>2, <4>3, <4>5
    <3> QED
      BY <3>3, <3>4
  <2> QED
    BY <2>1
<1>9. n + 1 \in Nat \ {0} /\ 1 \in Nat \ {0}
  OBVIOUS
<1> QED
  BY <1>2, <1>3, <1>7, <1>8, <1>9

-----------------------------------------------------------------------------
(* Sums taken apart                                                        *)

LEMMA TotalOfMultiples ==
  ASSUME NEW S, IsFiniteSet(S), NEW w, NEW u, Integral(w, S), NEW c \in Int,
         \A x \in S : u[x] = c * w[x]
  PROVE  Total(u, S) = c * Total(w, S)
<1> DEFINE G == {T \in SUBSET S : Total(u, T) = c * Total(w, T)}
<1>1. {} \in G
  <2>1. c * 0 = 0
    OBVIOUS
  <2> QED
    BY <2>1, TotalOfNone
<1>2. ASSUME NEW T \in G, NEW y \in S \ T PROVE T \cup {y} \in G
  <2>1. IsFiniteSet(T) /\ y \notin T /\ Integral(w, T) /\ T \in SUBSET S
    BY FS_Subset DEF Integral
  <2>2. Integral(w, T \cup {y}) /\ Integral(u, T \cup {y})
    BY <2>1 DEF Integral
  <2>3. /\ Total(w, T \cup {y}) = w[y] + Total(w, T)
        /\ Total(u, T \cup {y}) = u[y] + Total(u, T)
    BY <2>1, <2>2, TotalOfOneMore
  <2>4. PICK i \in Int, j \in Int : i = w[y] /\ j = Total(w, T)
    BY <2>1, TotalType DEF Integral
  <2>5. Total(u, T) = c * j /\ u[y] = c * i
    BY <2>4
  <2>6. c * (i + j) = c * i + c * j
    OBVIOUS
  <2>7. Total(u, T \cup {y}) = c * Total(w, T \cup {y})
    BY <2>3, <2>4, <2>5, <2>6
  <2> QED
    BY <2>1, <2>7
<1>3. S \in G
  <2> HIDE DEF G
  <2>1. G \in SUBSET (SUBSET S)
    BY DEF G
  <2> QED
    BY <1>1, <1>2, <2>1, Growing
<1> QED
  BY <1>3

\* The sum over T and the sum over U are the same if b goes from T to U one to one.
OneToOne(b, T, U) ==
  /\ \A x \in T : b[x] \in U
  /\ \A x, y \in T : b[x] = b[y] => x = y
  /\ \A z \in U : \E x \in T : b[x] = z

LEMMA TotalRenamed ==
  ASSUME NEW S, IsFiniteSet(S), NEW U, NEW b, OneToOne(b, S, U), NEW w, NEW u,
         Integral(u, U), \A x \in S : w[x] = u[b[x]]
  PROVE  Total(w, S) = Total(u, U)
<1> DEFINE Img(T) == {b[x] : x \in T}
           G == {T \in SUBSET S : IsFiniteSet(Img(T)) /\ Total(w, T) = Total(u, Img(T))}
<1>1. {} \in G
  <2>1. Img({}) = {}
    OBVIOUS
  <2> QED
    BY <2>1, TotalOfNone, FS_EmptySet
<1>2. ASSUME NEW T \in G, NEW y \in S \ T PROVE T \cup {y} \in G
  <2>1. T \in SUBSET S /\ y \in S /\ y \notin T /\ IsFiniteSet(Img(T)) /\ Total(w, T) = Total(u, Img(T))
    OBVIOUS
  <2> HIDE DEF G
  <2>2. IsFiniteSet(T) /\ T \cup {y} \in SUBSET S
    BY <2>1, FS_Subset
  <2>3. PICK V : V = Img(T) /\ V \subseteq U /\ b[y] \in U /\ b[y] \notin V
    BY <2>1 DEF OneToOne
  <2>4. Img(T \cup {y}) = V \cup {b[y]}
    BY <2>3
  <2> HIDE DEF Img
  <2>5. Integral(w, T \cup {y}) /\ Integral(u, V \cup {b[y]}) /\ w[y] = u[b[y]]
    BY <2>1, <2>3 DEF Integral, OneToOne
  <2>6. Total(w, T \cup {y}) = w[y] + Total(w, T)
    BY <2>1, <2>2, <2>5, TotalOfOneMore
  <2>7. Total(u, V \cup {b[y]}) = u[b[y]] + Total(u, V)
    BY <2>1, <2>3, <2>5, TotalOfOneMore
  <2>8. IsFiniteSet(V \cup {b[y]})
    BY <2>1, <2>3, FS_AddElement
  <2> QED
    BY <2>1, <2>2, <2>3, <2>4, <2>5, <2>6, <2>7, <2>8 DEF G
<1>3. S \in G
  <2> HIDE DEF G
  <2>1. G \in SUBSET (SUBSET S)
    BY DEF G
  <2> QED
    BY <1>1, <1>2, <2>1, Growing
<1>4. Img(S) = U
  BY DEF OneToOne
<1> QED
  BY <1>3, <1>4

LEMMA TotalOfUnion ==
  ASSUME NEW S, IsFiniteSet(S), NEW w, Integral(w, S), NEW A \in SUBSET S, NEW B \in SUBSET S,
         A \cap B = {}
  PROVE  Total(w, A \cup B) = Total(w, A) + Total(w, B)
<1> DEFINE G == {T \in SUBSET B : Total(w, A \cup T) = Total(w, A) + Total(w, T)}
<1>0. IsFiniteSet(A) /\ IsFiniteSet(B) /\ Integral(w, A) /\ Integral(w, B)
  BY FS_Subset DEF Integral
<1>1. {} \in G
  <2>1. A \cup {} = A /\ Total(w, A) \in Int
    BY <1>0, TotalType
  <2>2. Total(w, A) + 0 = Total(w, A)
    BY <2>1
  <2> QED
    BY <2>1, <2>2, TotalOfNone
<1>2. ASSUME NEW T \in G, NEW y \in B \ T PROVE T \cup {y} \in G
  <2>1. /\ T \in SUBSET B /\ y \in B /\ y \notin T
        /\ Total(w, A \cup T) = Total(w, A) + Total(w, T)
    OBVIOUS
  <2> HIDE DEF G
  <2>2. PICK V : V = A \cup T /\ V \subseteq S /\ y \notin V
    BY <2>1
  <2>3. /\ IsFiniteSet(T) /\ IsFiniteSet(V) /\ Integral(w, T \cup {y})
        /\ Integral(w, V \cup {y}) /\ Integral(w, T)
    BY <2>1, <2>2, FS_Subset DEF Integral
  <2>4. Total(w, T \cup {y}) = w[y] + Total(w, T) /\ Total(w, V \cup {y}) = w[y] + Total(w, V)
    BY <2>1, <2>2, <2>3, TotalOfOneMore
  <2>5. PICK i \in Int, j \in Int, k \in Int : i = w[y] /\ j = Total(w, A) /\ k = Total(w, T)
    BY <1>0, <2>1, <2>3, TotalType DEF Integral
  <2>6. A \cup (T \cup {y}) = V \cup {y} /\ T \cup {y} \in SUBSET B
    BY <2>1, <2>2
  <2>7. i + (j + k) = j + (i + k)
    OBVIOUS
  <2> QED
    BY <2>1, <2>2, <2>4, <2>5, <2>6, <2>7 DEF G
<1>3. B \in G
  <2> HIDE DEF G
  <2>1. G \in SUBSET (SUBSET B)
    BY DEF G
  <2> QED
    BY <1>0, <1>1, <1>2, <2>1, Growing
<1> QED
  BY <1>3

\* v holds the sums of w over the elements of T in each of the classes S.
ByClass(v, w, T, class, S) ==
  /\ \A x \in T : class[x] \in S
  /\ \A j \in S : v[j] = Total(w, {x \in T : class[x] = j})

\* The sum may be taken class by class.
LEMMA TotalByClass ==
  ASSUME NEW T, IsFiniteSet(T), NEW w, Integral(w, T), NEW S, IsFiniteSet(S),
         NEW k, NEW v, ByClass(v, w, T, k, S)
  PROVE  Total(w, T) = Total(v, S)
<1> USE DEF ByClass
<1> DEFINE In(J) == {x \in T : k[x] \in J}
           G == {J \in SUBSET S : Total(w, In(J)) = Total(v, J)}
<1>0. \A A \in SUBSET T : IsFiniteSet(A) /\ Integral(w, A) /\ Total(w, A) \in Int
  <2>1. ASSUME NEW A \in SUBSET T PROVE IsFiniteSet(A) /\ Integral(w, A)
    BY FS_Subset DEF Integral
  <2> QED
    BY <2>1, TotalType
<1>1. {} \in G
  <2>1. In({}) = {}
    OBVIOUS
  <2> QED
    BY <2>1, TotalOfNone
<1>2. ASSUME NEW J \in G, NEW j \in S \ J PROVE J \cup {j} \in G
  <2>1. J \in SUBSET S /\ j \in S /\ j \notin J /\ Total(w, In(J)) = Total(v, J)
    OBVIOUS
  <2> HIDE DEF G
  <2>2. PICK A \in SUBSET T, B \in SUBSET T : A = In(J) /\ B = {x \in T : k[x] = j}
    OBVIOUS
  <2>3. A \cap B = {} /\ In(J \cup {j}) = A \cup B
    BY <2>1, <2>2
  <2>4. Total(w, A \cup B) = Total(w, A) + Total(w, B)
    BY <2>3, TotalOfUnion
  <2>5. IsFiniteSet(J) /\ v[j] = Total(w, B) /\ Integral(v, J \cup {j})
    <3>1. \A i \in S : v[i] \in Int
      BY <1>0
    <3> QED
      BY <2>1, <2>2, <3>1, FS_Subset DEF Integral
  <2>6. Total(v, J \cup {j}) = v[j] + Total(v, J)
    BY <2>1, <2>5, TotalOfOneMore
  <2>7. PICK a \in Int, b \in Int : a = Total(w, A) /\ b = Total(w, B)
    BY <1>0
  <2>8. a + b = b + a /\ J \cup {j} \in SUBSET S
    BY <2>1
  <2> HIDE DEF In
  <2>9. Total(w, In(J \cup {j})) = Total(v, J \cup {j})
    BY <2>1, <2>2, <2>3, <2>4, <2>5, <2>6, <2>7, <2>8
  <2> QED
    BY <2>8, <2>9 DEF G
<1>3. S \in G
  <2> HIDE DEF G
  <2>1. G \in SUBSET (SUBSET S)
    BY DEF G
  <2> QED
    BY <1>1, <1>2, <2>1, Growing
<1>4. In(S) = T
  OBVIOUS
<1> QED
  BY <1>3, <1>4

-----------------------------------------------------------------------------
(* The sums and products of the model                                      *)

LEMMA SumFunctionIs ==
  ASSUME NEW w, IsFiniteSet(DOMAIN w)
  PROVE  SumFunction(w) = Total(w, DOMAIN w)
<1> DEFINE D == DOMAIN w
           Adds(it) == it = [s \in SUBSET D |->
                              IF s = {} THEN 0 ELSE w[Some(s)] + it[s \ {Some(s)}]]
           sum == CHOOSE it : Adds(it)
<1>1. PICK h : Folds("+", h, w, D)
  BY FoldExists
<1>2. Adds(h)
  BY <1>1 DEF Folds, Combine, Unit
<1>3. Adds(sum)
  <2> HIDE DEF Adds
  <2> QED
    BY <1>2
<1>4. Folds("+", sum, w, D)
  <2> HIDE DEF sum
  <2> QED
    BY <1>3 DEF Folds, Combine, Unit
<1>5. SumFunction(w) = sum[D]
  BY DEF SumFunction, SumFunctionOnSet, FoldFunctionOnSet, MapThenFoldSet, Some
<1>6. PICK t : Folds("+", t, w, D) /\ Total(w, D) = t[D]
  BY FoldIs DEF Total
<1>7. sum[D] = t[D]
  <2> HIDE DEF sum, D
  <2>1. IsFiniteSet(D)
    BY DEF D
  <2> QED
    BY <1>4, <1>6, <2>1, FoldsAgree
<1> QED
  BY <1>5, <1>6, <1>7

LEMMA ProductFunctionIs ==
  ASSUME NEW w, IsFiniteSet(DOMAIN w)
  PROVE  ProductFunction(w) = ProductOf(w, DOMAIN w)
<1> DEFINE D == DOMAIN w
           Multiplies(it) == it = [s \in SUBSET D |->
                                    IF s = {} THEN 1 ELSE w[Some(s)] * it[s \ {Some(s)}]]
           product == CHOOSE it : Multiplies(it)
<1>1. PICK h : Folds("*", h, w, D)
  BY FoldExists
<1>2. Multiplies(h)
  BY <1>1 DEF Folds, Combine, Unit
<1>3. Multiplies(product)
  <2> HIDE DEF Multiplies
  <2> QED
    BY <1>2
<1>4. Folds("*", product, w, D)
  <2> HIDE DEF product
  <2> QED
    BY <1>3 DEF Folds, Combine, Unit
<1>5. ProductFunction(w) = product[D]
  BY DEF ProductFunction, FoldFunction, FoldFunctionOnSet, MapThenFoldSet, Some
<1>6. PICK t : Folds("*", t, w, D) /\ ProductOf(w, D) = t[D]
  BY FoldIs DEF ProductOf
<1>7. product[D] = t[D]
  <2> HIDE DEF product, D
  <2>1. IsFiniteSet(D)
    BY DEF D
  <2> QED
    BY <1>4, <1>6, <2>1, FoldsAgree
<1> QED
  BY <1>5, <1>6, <1>7

-----------------------------------------------------------------------------
(* Recursion and finite sets                                               *)

\* f makes the steps 0, 1, ..., m - 1, each from the value before.
Steps(f, V, m, start, step) ==
  /\ f \in [0 .. m -> V] /\ f[0] = start
  /\ \A k \in 0 .. m - 1 : f[k + 1] = step[k][f[k]]

LEMMA StepsExist ==
  ASSUME NEW m \in Nat, NEW V, NEW start \in V, NEW step,
         \A k \in 0 .. m - 1 : \A v \in V : step[k][v] \in V
  PROVE  \E f : Steps(f, V, m, start, step)
<1> DEFINE G == {k \in Nat : k <= m => \E f : Steps(f, V, k, start, step)}
<1>1. 0 \in G
  <2>1. Steps([k \in 0 .. 0 |-> start], V, 0, start, step)
    BY DEF Steps
  <2> QED
    BY <2>1
<1>2. ASSUME NEW k \in G PROVE k + 1 \in G
  <2>0. k \in Nat
    OBVIOUS
  <2> SUFFICES ASSUME k + 1 <= m PROVE \E f : Steps(f, V, k + 1, start, step)
    BY <2>0
  <2>1. PICK f : Steps(f, V, k, start, step)
    BY <2>0
  <2> HIDE DEF G
  <2> DEFINE h == [i \in 0 .. k + 1 |-> IF i = k + 1 THEN step[k][f[k]] ELSE f[i]]
  <2>2. f \in [0 .. k -> V] /\ f[0] = start /\ \A i \in 0 .. k - 1 : f[i + 1] = step[i][f[i]]
    BY <2>1 DEF Steps
  <2>3. f[k] \in V /\ k \in 0 .. m - 1
    BY <2>0, <2>2
  <2>4. h \in [0 .. k + 1 -> V] /\ h[0] = start
    BY <2>0, <2>2, <2>3
  <2>5. ASSUME NEW i \in 0 .. (k + 1) - 1 PROVE h[i + 1] = step[i][h[i]]
    BY <2>0, <2>2, <2>5
  <2>6. Steps(h, V, k + 1, start, step)
    <3> HIDE DEF h
    <3> QED
      BY <2>4, <2>5 DEF Steps
  <2> QED
    BY <2>6
<1>3. G = Nat
  <2> HIDE DEF G
  <2>1. G \in SUBSET Nat
    BY DEF G
  <2> QED
    BY <1>1, <1>2, <2>1, Counting
<1> QED
  BY <1>3

\* There are finitely many functions from a finite set to another.
LEMMA FinitelyMany ==
  ASSUME NEW S, IsFiniteSet(S), NEW D, IsFiniteSet(D)
  PROVE  IsFiniteSet([D -> S])
<1> DEFINE G == {T \in SUBSET D : IsFiniteSet([T -> S])}
<1>1. {} \in G
  <2> DEFINE none == [x \in {} |-> 0]
  <2>1. ASSUME NEW f \in [{} -> S] PROVE f = none
    OBVIOUS
  <2>2. none \in [{} -> S]
    OBVIOUS
  <2> HIDE DEF none
  <2>3. [{} -> S] = {none}
    BY <2>1, <2>2
  <2>4. IsFiniteSet({none})
    BY FS_Singleton
  <2> QED
    BY <2>3, <2>4
<1>2. ASSUME NEW T \in G, NEW y \in D \ T PROVE T \cup {y} \in G
  <2>1. T \in SUBSET D /\ y \notin T /\ y \in D /\ IsFiniteSet([T -> S])
    OBVIOUS
  <2> HIDE DEF G
  <2>2. IsFiniteSet([T -> S] \X S)
    BY <2>1, FS_Product
  <2> DEFINE f == [e \in [T -> S] \X S |->
                    [x \in T \cup {y} |-> IF x = y THEN e[2] ELSE e[1][x]]]
  <2>3. f \in [[T -> S] \X S -> [T \cup {y} -> S]]
    BY <2>1
  <2>4. ASSUME NEW u \in [T \cup {y} -> S]
        PROVE  \E e \in [T -> S] \X S : f[e] = u
    <3>1. PICK e \in [T -> S] \X S : e = <<[x \in T |-> u[x]], u[y]>>
      OBVIOUS
    <3>2. f[e] = u
      BY <2>1, <3>1
    <3> QED
      BY <3>2
  <2>5. f \in Surjection([T -> S] \X S, [T \cup {y} -> S])
    <3> HIDE DEF f
    <3> QED
      BY <2>3, <2>4 DEF Surjection
  <2>6. IsFiniteSet([T \cup {y} -> S])
    <3> HIDE DEF f
    <3> QED
      BY <2>2, <2>5, FS_Surjection
  <2> QED
    BY <2>1, <2>6 DEF G
<1>3. D \in G
  <2> HIDE DEF G
  <2>1. G \in SUBSET (SUBSET D)
    BY DEF G
  <2> QED
    BY <1>1, <1>2, <2>1, Growing
<1> QED
  BY <1>3

LEMMA ProductOfUnion ==
  ASSUME NEW S, IsFiniteSet(S), NEW w, Integral(w, S), NEW A \in SUBSET S, NEW B \in SUBSET S,
         A \cap B = {}
  PROVE  ProductOf(w, A \cup B) = ProductOf(w, A) * ProductOf(w, B)
<1> DEFINE G == {T \in SUBSET B : ProductOf(w, A \cup T) = ProductOf(w, A) * ProductOf(w, T)}
<1>0. IsFiniteSet(A) /\ IsFiniteSet(B) /\ Integral(w, A) /\ Integral(w, B)
  BY FS_Subset DEF Integral
<1>1. {} \in G
  <2>1. PICK a \in Int : a = ProductOf(w, A)
    BY <1>0, ProductType
  <2>2. a * 1 = a /\ A \cup {} = A
    OBVIOUS
  <2> QED
    BY <2>1, <2>2, ProductOfNone
<1>2. ASSUME NEW T \in G, NEW y \in B \ T PROVE T \cup {y} \in G
  <2>1. /\ T \in SUBSET B /\ y \in B /\ y \notin T
        /\ ProductOf(w, A \cup T) = ProductOf(w, A) * ProductOf(w, T)
    OBVIOUS
  <2> HIDE DEF G
  <2>2. PICK V : V = A \cup T /\ V \subseteq S /\ y \notin V
    BY <2>1
  <2>3. /\ IsFiniteSet(T) /\ IsFiniteSet(V) /\ Integral(w, T \cup {y})
        /\ Integral(w, V \cup {y}) /\ Integral(w, T)
    BY <2>1, <2>2, FS_Subset DEF Integral
  <2>4. /\ ProductOf(w, T \cup {y}) = w[y] * ProductOf(w, T)
        /\ ProductOf(w, V \cup {y}) = w[y] * ProductOf(w, V)
    BY <2>1, <2>2, <2>3, ProductOfOneMore
  <2>5. PICK i \in Int, j \in Int, k \in Int :
          i = w[y] /\ j = ProductOf(w, A) /\ k = ProductOf(w, T)
    BY <1>0, <2>1, <2>3, ProductType DEF Integral
  <2>6. A \cup (T \cup {y}) = V \cup {y} /\ T \cup {y} \in SUBSET B
    BY <2>1, <2>2
  <2>7. i * (j * k) = j * (i * k)
    OBVIOUS
  <2> QED
    BY <2>1, <2>2, <2>4, <2>5, <2>6, <2>7 DEF G
<1>3. B \in G
  <2> HIDE DEF G
  <2>1. G \in SUBSET (SUBSET B)
    BY DEF G
  <2> QED
    BY <1>0, <1>1, <1>2, <2>1, Growing
<1> QED
  BY <1>3

-----------------------------------------------------------------------------
(* Powers of numbers                                                       *)

LEMMA RaiseIs ==
  ASSUME NEW b \in Nat, NEW k \in Nat
  PROVE  /\ Raise(b, k) \in Nat /\ Raise(b, 0) = 1 /\ Raise(b, 1) = b
         /\ Raise(b, k + 1) = b * Raise(b, k)
<1> DEFINE Tos(To) == To = [m \in Nat |-> IF m = 0 THEN 1 ELSE b * To[m - 1]]
           step == [v \in Nat |-> b * v]
<1>1. PICK r : Repeats(r, Nat, 1, step)
  <2>1. step \in [Nat -> Nat] /\ 1 \in Nat
    OBVIOUS
  <2> HIDE DEF step
  <2> QED
    BY <2>1, Iterates
<1>2. ASSUME NEW m \in Nat, m # 0 PROVE r[m] = b * r[m - 1]
  <2>1. m - 1 \in Nat /\ (m - 1) + 1 = m /\ r[m - 1] \in Nat
    BY <1>1, <1>2 DEF Repeats
  <2>2. r[(m - 1) + 1] = step[r[m - 1]]
    BY <1>1, <2>1 DEF Repeats
  <2> QED
    BY <2>1, <2>2
<1>3. Tos(r)
  BY <1>1, <1>2 DEF Repeats
<1> DEFINE To == CHOOSE x : Tos(x)
<1>4. Tos(To)
  <2> HIDE DEF Tos
  <2> QED
    BY <1>3
<1>5. \A m \in Nat : Raise(b, m) = To[m]
  BY DEF Raise
<1> HIDE DEF To
<1>6. To[0] = 1 /\ \A m \in Nat : To[m + 1] = b * To[m]
  <2>1. \A m \in Nat : m + 1 \in Nat /\ m + 1 # 0 /\ (m + 1) - 1 = m
    OBVIOUS
  <2> QED
    BY <1>4, <2>1
<1> DEFINE G == {m \in Nat : To[m] \in Nat}
<1>7. G = Nat
  <2>1. 0 \in G /\ \A m \in G : m + 1 \in G
    BY <1>6
  <2>2. G \in SUBSET Nat
    OBVIOUS
  <2> HIDE DEF G
  <2> QED
    BY <2>1, <2>2, Counting
<1>8. k + 1 \in Nat /\ 0 \in Nat /\ 1 \in Nat /\ 0 + 1 = 1 /\ To[k] \in Nat
  BY <1>7
<1>9. To[0 + 1] = b * To[0]
  BY <1>6, <1>8
<1> QED
  BY <1>5, <1>6, <1>8, <1>9

LEMMA RaiseAdds ==
  ASSUME NEW b \in Nat, NEW j \in Nat, NEW k \in Nat
  PROVE  Raise(b, j + k) = Raise(b, j) * Raise(b, k)
<1> DEFINE G == {m \in Nat : Raise(b, m + k) = Raise(b, m) * Raise(b, k)}
<1>1. 0 \in G
  <2>1. Raise(b, 0) = 1 /\ Raise(b, k) \in Nat /\ 0 + k = k
    BY RaiseIs
  <2> QED
    BY <2>1
<1>2. ASSUME NEW m \in G PROVE m + 1 \in G
  <2>1. m \in Nat /\ m + k \in Nat /\ (m + 1) + k = (m + k) + 1
    OBVIOUS
  <2>2. Raise(b, (m + k) + 1) = b * Raise(b, m + k) /\ Raise(b, m + 1) = b * Raise(b, m)
        /\ Raise(b, m) \in Nat /\ Raise(b, k) \in Nat
    BY <2>1, RaiseIs
  <2>3. \A x, y \in Nat : b * (x * y) = (b * x) * y
    OBVIOUS
  <2>4. b * (Raise(b, m) * Raise(b, k)) = (b * Raise(b, m)) * Raise(b, k)
    BY <2>2, <2>3
  <2> QED
    BY <2>1, <2>2, <2>4
<1>3. G = Nat
  <2>1. G \in SUBSET Nat
    OBVIOUS
  <2> HIDE DEF G
  <2> QED
    BY <1>1, <1>2, <2>1, Counting
<1> QED
  BY <1>3

LEMMA RaiseGrows ==
  ASSUME NEW b \in Nat \ {0, 1}, NEW j \in Nat
  PROVE  /\ Raise(b, j) \in Nat \ {0} /\ j < Raise(b, j)
         /\ \A k \in Nat : j < k => Raise(b, j) < Raise(b, k)
<1> DEFINE G == {m \in Nat : Raise(b, m) \in Nat \ {0} /\ m < Raise(b, m)}
<1>1. 0 \in G
  BY RaiseIs
<1>2. ASSUME NEW m \in G PROVE m + 1 \in G
  <2>1. PICK x \in Nat : x = Raise(b, m) /\ m < x
    OBVIOUS
  <2>2. Raise(b, m + 1) = b * x
    BY <2>1, RaiseIs
  <2>3. b * x >= x + x
    OBVIOUS
  <2>4. b * x \in Nat
    OBVIOUS
  <2> QED
    BY <2>1, <2>2, <2>3, <2>4
<1>3. G = Nat
  <2>1. G \in SUBSET Nat
    OBVIOUS
  <2> HIDE DEF G
  <2> QED
    BY <1>1, <1>2, <2>1, Counting
<1>4. ASSUME NEW k \in Nat, j < k PROVE Raise(b, j) < Raise(b, k)
  <2>1. PICK d \in Nat : k = j + d /\ d # 0
    <3>1. k - j \in Nat /\ k = j + (k - j) /\ k - j # 0
      BY <1>4
    <3> QED
      BY <3>1
  <2>2. PICK x \in Nat, y \in Nat : x = Raise(b, j) /\ y = Raise(b, d) /\ x # 0 /\ d < y
    BY <1>3
  <2>3. Raise(b, k) = x * y
    BY <2>1, <2>2, RaiseAdds
  <2>4. y >= 2
    BY <2>1, <2>2
  <2>5. x * y >= x + x
    BY <2>4
  <2> QED
    BY <2>2, <2>3, <2>5
<1> QED
  BY <1>3, <1>4

\* q and r are the quotient and the remainder.
LEMMA QuotientIs ==
  ASSUME NEW p \in Nat \ {0}, NEW a \in Nat
  PROVE  /\ a \div p \in Nat /\ a % p \in 0 .. p - 1 /\ a = p * (a \div p) + (a % p)
         /\ \A q \in Int, r \in 0 .. p - 1 : a = p * q + r => q = a \div p /\ r = a % p
<1>1. a \div p \in Nat /\ a % p \in 0 .. p - 1 /\ a = p * (a \div p) + (a % p)
  <2>1. a \div p \in Int /\ a % p \in 0 .. p - 1 /\ a = p * (a \div p) + (a % p)
    OBVIOUS
  <2>2. PICK u \in Int, v \in 0 .. p - 1 : u = a \div p /\ v = a % p /\ a = p * u + v
    BY <2>1
  <2>3. u >= 0
    <3>1. u <= -1 => p * u <= -p
      OBVIOUS
    <3> QED
      BY <2>2, <3>1
  <2> QED
    BY <2>1, <2>2, <2>3
<1>2. ASSUME NEW q \in Int, NEW r \in 0 .. p - 1, a = p * q + r
      PROVE  q = a \div p /\ r = a % p
  <2>1. PICK u \in Int, v \in 0 .. p - 1 : u = a \div p /\ v = a % p /\ a = p * u + v
    BY <1>1
  <2>2. (q - u) * p = v - r
    <3>1. (q - u) * p = p * q - p * u
      OBVIOUS
    <3>2. PICK x \in Int, y \in Int : x = p * q /\ y = p * u
      OBVIOUS
    <3>3. x + r = a /\ y + v = a
      BY <1>2, <2>1, <3>2
    <3>4. x - y = v - r
      BY <3>3
    <3> QED
      BY <3>1, <3>2, <3>4
  <2>3. -p < (q - u) * p /\ (q - u) * p < p
    BY <2>2
  <2>4. q - u = 0
    BY <2>3, SmallMultiple
  <2>5. q = u
    BY <2>4
  <2>6. v - r = 0
    BY <2>2, <2>4
  <2> QED
    BY <2>1, <2>5, <2>6
<1> QED
  BY <1>1, <1>2

-----------------------------------------------------------------------------
(* Prime factors                                                           *)

LEMMA RemainderZero ==
  ASSUME NEW r \in Nat \ {0}, NEW m \in Int
  PROVE  m % r = 0 <=> Divides(r, m)
<1>1. 0 % r = 0 /\ 0 \in Int
  OBVIOUS
<1>2. m % r = 0 % r <=> Congruent(r, m, 0)
  BY <1>1, SameRemainder
<1>3. m - 0 = m
  OBVIOUS
<1> QED
  BY <1>1, <1>2, <1>3 DEF Congruent, Divides

LEMMA DividesChain ==
  ASSUME NEW a \in Int, NEW b \in Int, NEW c \in Int, Divides(a, b), Divides(b, c)
  PROVE  Divides(a, c)
<1>1. PICK k \in Int, l \in Int : b = k * a /\ c = l * b
  BY DEF Divides
<1>2. c = (l * k) * a /\ l * k \in Int
  BY <1>1
<1> QED
  BY <1>2 DEF Divides

LEMMA DivisorBelow ==
  ASSUME NEW d \in Nat, NEW m \in Nat \ {0}, Divides(d, m)
  PROVE  d \in 1 .. m /\ \E k \in 1 .. m : m = k * d
<1>1. PICK k \in Int : m = k * d
  BY DEF Divides
<1>2. d > 0 /\ k > 0
  <2>1. d # 0
    BY <1>1
  <2>2. k <= 0 => k * d <= 0
    BY <2>1
  <2> QED
    BY <1>1, <2>1, <2>2
<1>3. (k - 1) * d >= 0 /\ (d - 1) * k >= 0
  BY <1>2
<1>4. (k - 1) * d = k * d - d /\ (d - 1) * k = k * d - k
  OBVIOUS
<1>5. d <= m /\ k <= m
  BY <1>1, <1>3, <1>4
<1> QED
  BY <1>1, <1>2, <1>5

Covers(S, n) == \A m \in 2 .. n : \E r \in S : Divides(r, m)

SieveInv(S, t) ==
  /\ t \in S /\ S \subseteq 2 .. t /\ 2 \in S
  /\ Covers(S, t)
  /\ \A r \in S : IsPrime(r)

LEMMA SieveTurn ==
  ASSUME NEW n \in Nat \ {0, 1}, NEW S \in SUBSET Nat, NEW t \in 2 .. n, SieveInv(S, t)
  PROVE  /\ NextPrimes(n, S) = {} => Covers(S, n)
         /\ NextPrimes(n, S) # {} => /\ Min(NextPrimes(n, S)) \in t + 1 .. n
                                     /\ SieveInv(S \cup {Min(NextPrimes(n, S))}, Min(NextPrimes(n, S)))
<1>0. t \in S /\ S \subseteq 2 .. t /\ 2 \in S /\ Covers(S, t) /\ \A r \in S : IsPrime(r)
  BY DEF SieveInv
<1>1. Max(S) = t
  <2>1. t \in S /\ \A y \in S : t >= y
    BY <1>0
  <2>2. Max(S) \in S /\ \A y \in S : Max(S) >= y
    BY <2>1 DEF Max
  <2>3. Max(S) \in Nat /\ Max(S) >= t /\ t >= Max(S)
    BY <1>0, <2>1, <2>2
  <2> QED
    BY <2>3
<1> DEFINE N == {m \in t + 1 .. n : \A r \in S : m % r # 0}
<1>2. NextPrimes(n, S) = N
  BY <1>1 DEF NextPrimes
<1>3. ASSUME NEW m \in t + 1 .. n, m \notin N PROVE \E r \in S : Divides(r, m)
  <2>1. PICK r \in S : m % r = 0
    BY <1>3
  <2>2. r \in Nat \ {0} /\ m \in Int
    BY <1>0
  <2> QED
    BY <2>1, <2>2, RemainderZero
<1>4. ASSUME NEW m \in N, NEW r \in S PROVE ~ Divides(r, m)
  <2>1. r \in Nat \ {0} /\ m \in Int /\ m % r # 0
    BY <1>0
  <2> QED
    BY <2>1, RemainderZero
<1>5. N \in SUBSET (t + 1 .. n)
  OBVIOUS
<1> HIDE DEF N
<1>6. CASE N = {}
  <2>1. ASSUME NEW m \in 2 .. n PROVE \E r \in S : Divides(r, m)
    <3>1. CASE m <= t
      <4>1. m \in 2 .. t
        BY <3>1
      <4> QED
        BY <1>0, <4>1 DEF Covers
    <3>2. CASE m > t
      BY <1>3, <1>6, <3>2
    <3> QED
      BY <3>1, <3>2
  <2>2. Covers(S, n)
    BY <2>1 DEF Covers
  <2> QED
    BY <1>2, <1>6, <2>2
<1>7. CASE N # {}
  <2>1. PICK x \in N : \A y \in N : x <= y
    <3>1. N \in SUBSET Nat
      BY <1>5
    <3> QED
      BY <1>7, <3>1, LeastNumber
  <2>2. Min(N) \in N /\ \A y \in N : Min(N) <= y
    BY <2>1 DEF Min
  <2>3. PICK m \in N : m = Min(N) /\ \A y \in N : m <= y
    BY <2>2
  <2>4. m \in t + 1 .. n
    BY <1>5
  <2>5. Divides(m, m)
    <3>1. m = 1 * m
      BY <2>4
    <3> QED
      BY <3>1 DEF Divides
  <2>6. ASSUME NEW k \in 2 .. m - 1 PROVE \E r \in S : Divides(r, k)
    <3>1. CASE k <= t
      <4>1. k \in 2 .. t
        BY <3>1
      <4> QED
        BY <1>0, <4>1 DEF Covers
    <3>2. CASE k > t
      <4>1. k \notin N
        BY <2>3, <2>4, <3>2
      <4>2. k \in t + 1 .. n
        BY <2>4, <3>2
      <4> QED
        BY <1>3, <4>1, <4>2
    <3> QED
      BY <3>1, <3>2
  <2>7. IsPrime(m)
    <3>1. m # 1
      BY <2>4
    <3>2. ASSUME NEW i \in 2 .. m, i * i <= m PROVE m % i # 0
      <4> SUFFICES ASSUME m % i = 0 PROVE FALSE
        OBVIOUS
      <4>1. i < m
        <5>1. PICK s \in Int : s = i * i /\ s >= i + i
          OBVIOUS
        <5> QED
          BY <2>4, <3>2, <5>1
      <4>2. i \in 2 .. m - 1
        BY <2>4, <4>1
      <4>3. PICK r \in S : Divides(r, i)
        BY <2>6, <4>2
      <4>4. i \in Nat \ {0} /\ m \in Int /\ i \in Int
        BY <2>4
      <4>5. Divides(i, m)
        BY <4>4, RemainderZero
      <4>6. r \in Int
        BY <1>0
      <4>7. Divides(r, m)
        BY <4>3, <4>4, <4>5, <4>6, DividesChain
      <4> QED
        BY <1>4, <4>7
    <3> QED
      BY <3>1, <3>2 DEF IsPrime
  <2>8. Covers(S \cup {m}, m)
    <3>1. ASSUME NEW k \in 2 .. m PROVE \E r \in S \cup {m} : Divides(r, k)
      <4>1. CASE k = m
        BY <2>5, <4>1
      <4>2. CASE k # m
        <5>1. k \in 2 .. m - 1
          BY <2>4, <4>2
        <5> QED
          BY <2>6, <5>1
      <4> QED
        BY <4>1, <4>2
    <3> QED
      BY <3>1 DEF Covers
  <2>9. S \cup {m} \subseteq 2 .. m
    BY <1>0, <2>4
  <2>10. SieveInv(S \cup {m}, m)
    BY <1>0, <2>7, <2>8, <2>9 DEF SieveInv
  <2> QED
    BY <1>2, <1>7, <2>3, <2>4, <2>10
<1> QED
  BY <1>6, <1>7

\* The sets of primes f[k], with their largest members t[k].
SieveRun(n, f, t) ==
  /\ f[0] = {2} /\ t \in [Nat -> 2 .. n]
  /\ \A k \in Nat :
       /\ f[k] \in SUBSET Nat /\ SieveInv(f[k], t[k])
       /\ NextPrimes(n, f[k]) = {} => f[k + 1] = f[k]
       /\ NextPrimes(n, f[k]) # {} => t[k] < t[k + 1]

LEMMA SieveRuns ==
  ASSUME NEW n \in Nat \ {0, 1}
  PROVE  \E f, t : Sieve(n) = f[n] /\ SieveRun(n, f, t)
<1> DEFINE Runs(f) == f = [k \in Nat |->
                             IF k = 0 THEN {2}
                             ELSE IF NextPrimes(n, f[k - 1]) = {} THEN f[k - 1]
                                  ELSE f[k - 1] \cup {Min(NextPrimes(n, f[k - 1]))}]
           next == [S \in {S \in SUBSET Nat : \E t \in 2 .. n : SieveInv(S, t)} |->
                     IF NextPrimes(n, S) = {} THEN S ELSE S \cup {Min(NextPrimes(n, S))}]
           States == {S \in SUBSET Nat : \E t \in 2 .. n : SieveInv(S, t)}
<1>1. next \in [States -> States]
  <2>1. ASSUME NEW S \in States PROVE next[S] \in States
    <3>1. PICK t \in 2 .. n : SieveInv(S, t)
      OBVIOUS
    <3>2. CASE NextPrimes(n, S) = {}
      BY <3>2
    <3>3. CASE NextPrimes(n, S) # {}
      <4>1. PICK m \in t + 1 .. n : m = Min(NextPrimes(n, S)) /\ SieveInv(S \cup {m}, m)
        BY <3>1, <3>3, SieveTurn
      <4>2. S \cup {m} \in SUBSET Nat /\ m \in 2 .. n
        OBVIOUS
      <4> QED
        BY <3>3, <4>1, <4>2
    <3> QED
      BY <3>2, <3>3
  <2> QED
    BY <2>1
<1>2. {2} \in States
  <2>1. Covers({2}, 2)
    <3>1. ASSUME NEW m \in 2 .. 2 PROVE Divides(2, m)
      <4>1. m = 1 * 2
        OBVIOUS
      <4> QED
        BY <4>1 DEF Divides
    <3> QED
      BY <3>1 DEF Covers
  <2>2. IsPrime(2)
    <3>1. ASSUME NEW i \in 2 .. 2, i * i <= 2 PROVE FALSE
      <4>1. i = 2
        OBVIOUS
      <4> QED
        BY <3>1, <4>1
    <3> QED
      BY <3>1 DEF IsPrime
  <2>3. SieveInv({2}, 2)
    BY <2>1, <2>2 DEF SieveInv
  <2>4. 2 \in 2 .. n
    OBVIOUS
  <2> QED
    BY <2>3, <2>4
<1> HIDE DEF next
<1>3. PICK g : Repeats(g, States, {2}, next)
  <2> HIDE DEF States
  <2> QED
    BY <1>1, <1>2, Iterates
<1>4. ASSUME NEW k \in Nat
      PROVE  /\ g[k] \in States
             /\ g[k + 1] = IF NextPrimes(n, g[k]) = {} THEN g[k]
                           ELSE g[k] \cup {Min(NextPrimes(n, g[k]))}
  <2>1. g[k] \in States /\ g[k + 1] = next[g[k]]
    BY <1>3 DEF Repeats
  <2> QED
    BY <2>1 DEF next
<1> HIDE DEF States
<1>5. Runs(g)
  <2>1. g[0] = {2} /\ g \in [Nat -> States]
    BY <1>3 DEF Repeats
  <2>2. ASSUME NEW k \in Nat, k # 0
        PROVE  g[k] = IF NextPrimes(n, g[k - 1]) = {} THEN g[k - 1]
                      ELSE g[k - 1] \cup {Min(NextPrimes(n, g[k - 1]))}
    <3>1. k - 1 \in Nat /\ (k - 1) + 1 = k
      BY <2>2
    <3> QED
      BY <1>4, <3>1
  <2> QED
    BY <2>1, <2>2
<1> DEFINE f == CHOOSE h : Runs(h)
<1>6. Runs(f)
  <2> HIDE DEF Runs
  <2> QED
    BY <1>5
<1>7. Sieve(n) = f[n]
  BY DEF Sieve, Loop
<1> HIDE DEF f
<1>8. f[0] = {2}
  BY <1>6
<1>9. ASSUME NEW k \in Nat
      PROVE  f[k + 1] = IF NextPrimes(n, f[k]) = {} THEN f[k]
                        ELSE f[k] \cup {Min(NextPrimes(n, f[k]))}
  <2>1. k + 1 \in Nat /\ k + 1 # 0 /\ (k + 1) - 1 = k
    OBVIOUS
  <2> QED
    BY <1>6, <2>1
<1>10. \A k \in Nat : f[k] = g[k]
  <2> DEFINE G == {k \in Nat : f[k] = g[k]}
  <2>1. 0 \in G
    BY <1>3, <1>8 DEF Repeats
  <2>2. ASSUME NEW k \in G PROVE k + 1 \in G
    <3>1. k \in Nat /\ k + 1 \in Nat /\ f[k] = g[k]
      OBVIOUS
    <3>2. f[k + 1] = g[k + 1]
      BY <1>4, <1>9, <3>1
    <3> QED
      BY <3>1, <3>2
  <2>3. G \in SUBSET Nat
    OBVIOUS
  <2> HIDE DEF G
  <2>4. G = Nat
    BY <2>1, <2>2, <2>3, Counting
  <2> QED
    BY <2>4 DEF G
<1> DEFINE top(k) == CHOOSE t \in 2 .. n : SieveInv(f[k], t)
           t == [k \in Nat |-> top(k)]
<1>11. ASSUME NEW k \in Nat PROVE top(k) \in 2 .. n /\ SieveInv(f[k], top(k)) /\ f[k] \in SUBSET Nat
  <2>1. f[k] \in States
    BY <1>4, <1>10
  <2>2. f[k] \in SUBSET Nat /\ \E x \in 2 .. n : SieveInv(f[k], x)
    BY <2>1 DEF States
  <2> QED
    BY <2>2
<1>12. ASSUME NEW k \in Nat, NextPrimes(n, f[k]) # {} PROVE top(k) < top(k + 1)
  <2>0. k + 1 \in Nat
    OBVIOUS
  <2>1. PICK x \in 2 .. n, y \in 2 .. n : x = top(k) /\ y = top(k + 1)
    BY <1>11, <2>0
  <2>2. SieveInv(f[k], x) /\ SieveInv(f[k + 1], y) /\ f[k] \in SUBSET Nat
    BY <1>11, <2>0, <2>1
  <2>3. PICK m \in x + 1 .. n : m = Min(NextPrimes(n, f[k]))
    BY <1>12, <2>2, SieveTurn
  <2>4. m \in f[k + 1]
    BY <1>9, <1>12, <2>3
  <2>5. m \in 2 .. y
    BY <2>2, <2>4 DEF SieveInv
  <2> QED
    BY <2>1, <2>3, <2>5
<1> HIDE DEF top
<1>13. t \in [Nat -> 2 .. n] /\ \A k \in Nat : t[k] = top(k)
  BY <1>11
<1> HIDE DEF t
<1>14. ASSUME NEW k \in Nat
       PROVE  /\ f[k] \in SUBSET Nat /\ SieveInv(f[k], t[k])
              /\ NextPrimes(n, f[k]) = {} => f[k + 1] = f[k]
              /\ NextPrimes(n, f[k]) # {} => t[k] < t[k + 1]
  <2>1. k + 1 \in Nat
    OBVIOUS
  <2> QED
    BY <1>9, <1>11, <1>12, <1>13, <2>1
<1>15. SieveRun(n, f, t)
  BY <1>8, <1>13, <1>14 DEF SieveRun
<1> QED
  BY <1>7, <1>15

\* The sieve ends with primes that divide every number up to n.
LEMMA SieveIs ==
  ASSUME NEW n \in Nat \ {0, 1}
  PROVE  /\ Sieve(n) \subseteq 2 .. n /\ Covers(Sieve(n), n)
         /\ \A r \in Sieve(n) : IsPrime(r)
<1>0. PICK f, t : Sieve(n) = f[n] /\ SieveRun(n, f, t)
  BY SieveRuns
<1>1. /\ t \in [Nat -> 2 .. n]
      /\ \A k \in Nat :
           /\ f[k] \in SUBSET Nat /\ SieveInv(f[k], t[k])
           /\ NextPrimes(n, f[k]) = {} => f[k + 1] = f[k]
           /\ NextPrimes(n, f[k]) # {} => t[k] < t[k + 1]
  BY <1>0 DEF SieveRun
<1> DEFINE G == {k \in Nat : NextPrimes(n, f[k]) = {} \/ t[k] >= k + 2}
<1>2. 0 \in G
  <2>1. t[0] \in 2 .. n
    BY <1>1
  <2> QED
    BY <2>1
<1>3. ASSUME NEW k \in G PROVE k + 1 \in G
  <2>0. k \in Nat /\ k + 1 \in Nat /\ t[k] \in 2 .. n /\ t[k + 1] \in 2 .. n
    BY <1>1
  <2>1. CASE NextPrimes(n, f[k]) = {}
    BY <1>1, <2>0, <2>1
  <2>2. CASE NextPrimes(n, f[k]) # {}
    <3>1. t[k] < t[k + 1] /\ t[k] >= k + 2
      BY <1>1, <2>0, <2>2
    <3> QED
      BY <2>0, <3>1
  <2> QED
    BY <2>1, <2>2
<1>4. n \in G
  <2>1. G \in SUBSET Nat
    OBVIOUS
  <2> HIDE DEF G
  <2>2. G = Nat
    BY <1>2, <1>3, <2>1, Counting
  <2> QED
    BY <2>2
<1>5. n \in Nat /\ t[n] \in 2 .. n
  BY <1>1
<1>6. NextPrimes(n, f[n]) = {}
  BY <1>4, <1>5
<1>7. f[n] \in SUBSET Nat /\ SieveInv(f[n], t[n])
  BY <1>1
<1>8. Covers(f[n], n)
  BY <1>5, <1>6, <1>7, SieveTurn
<1>9. f[n] \subseteq 2 .. n /\ \A r \in f[n] : IsPrime(r)
  BY <1>5, <1>7 DEF SieveInv
<1> QED
  BY <1>0, <1>8, <1>9

LEMMA PrimeFactorsAre ==
  ASSUME NEW n \in Nat \ {0, 1}
  PROVE  /\ \A r \in PrimeFactors(n) : r \in 2 .. n /\ IsPrime(r) /\ Divides(r, n)
         /\ \A m \in 2 .. n : Divides(m, n) => \E r \in PrimeFactors(n) : Divides(r, m)
<1>1. Sieve(n) \subseteq 2 .. n /\ Covers(Sieve(n), n) /\ \A r \in Sieve(n) : IsPrime(r)
  BY SieveIs
<1>2. PrimeFactors(n) = {r \in Sieve(n) : n % r = 0}
  BY DEF PrimeFactors
<1>3. \A r \in 2 .. n : n % r = 0 <=> Divides(r, n)
  <2>1. ASSUME NEW r \in 2 .. n PROVE n % r = 0 <=> Divides(r, n)
    <3>1. r \in Nat \ {0} /\ n \in Int
      OBVIOUS
    <3> QED
      BY <3>1, RemainderZero
  <2> QED
    BY <2>1
<1>4. ASSUME NEW m \in 2 .. n, Divides(m, n) PROVE \E r \in PrimeFactors(n) : Divides(r, m)
  <2>1. PICK r \in Sieve(n) : Divides(r, m)
    BY <1>1 DEF Covers
  <2>2. r \in 2 .. n /\ r \in Int /\ m \in Int /\ n \in Int
    BY <1>1
  <2>3. Divides(r, n)
    BY <1>4, <2>1, <2>2, DividesChain
  <2> QED
    BY <1>2, <1>3, <2>1, <2>2, <2>3
<1>5. ASSUME NEW r \in PrimeFactors(n) PROVE r \in 2 .. n /\ IsPrime(r) /\ Divides(r, n)
  BY <1>1, <1>2, <1>3
<1> QED
  BY <1>4, <1>5

\* A number with one prime factor is a power of it.
LEMMA PrimePower ==
  ASSUME NEW size \in Nat \ {0, 1}, NEW p, PrimeFactors(size) = {p}
  PROVE  p \in Nat \ {0, 1} /\ IsPrime(p) /\ \E k \in 1 .. size : Raise(p, k) = size
<1>1. p \in 2 .. size /\ IsPrime(p) /\ \A m \in 2 .. size : Divides(m, size) => Divides(p, m)
  BY PrimeFactorsAre
<1>2. p \in Nat \ {0, 1} /\ p \in Nat
  BY <1>1
<1> DEFINE Bad == {m \in 1 .. size : Divides(m, size) /\ \A k \in Nat : Raise(p, k) # m}
<1>3. Bad = {}
  <2> SUFFICES ASSUME Bad # {} PROVE FALSE
    OBVIOUS
  <2>1. PICK m \in Bad : \A k \in Bad : m <= k
    <3>1. Bad \in SUBSET Nat
      OBVIOUS
    <3> HIDE DEF Bad
    <3> QED
      BY <3>1, LeastNumber
  <2>2. m \in 1 .. size /\ Divides(m, size) /\ \A k \in Nat : Raise(p, k) # m
    BY <2>1
  <2>3. m # 1
    <3>1. Raise(p, 0) = 1
      BY <1>2, RaiseIs
    <3> QED
      BY <2>2, <3>1
  <2>4. Divides(p, m) /\ m \in Nat \ {0}
    BY <1>1, <2>2, <2>3
  <2>5. PICK j \in 1 .. m : m = j * p
    BY <1>2, <2>4, DivisorBelow
  <2>6. j < m
    <3>1. j * p >= j + j
      BY <1>1
    <3>2. PICK x \in Int : x = j * p
      BY <1>1
    <3> QED
      BY <2>5, <3>1, <3>2
  <2>7. Divides(j, size)
    <3>1. m = p * j /\ p \in Int
      BY <1>2, <2>5
    <3>2. Divides(j, m)
      BY <3>1 DEF Divides
    <3>3. j \in Int /\ m \in Int /\ size \in Int
      OBVIOUS
    <3> QED
      BY <2>2, <3>2, <3>3, DividesChain
  <2>8. j \in 1 .. size
    BY <2>2, <2>5, <2>6
  <2>9. PICK k \in Nat : Raise(p, k) = j
    BY <2>1, <2>2, <2>6, <2>7, <2>8
  <2>10. Raise(p, k + 1) = p * j /\ k + 1 \in Nat
    BY <1>2, <2>9, RaiseIs
  <2>11. p * j = j * p
    BY <1>2
  <2> QED
    BY <2>2, <2>5, <2>10, <2>11
<1>4. Divides(size, size) /\ size \in 1 .. size
  <2>1. size = 1 * size
    OBVIOUS
  <2> QED
    BY <2>1 DEF Divides
<1>5. PICK k \in Nat : Raise(p, k) = size
  <2>1. size \notin Bad
    BY <1>3
  <2> QED
    BY <1>4, <2>1
<1>6. k # 0 /\ k < size
  <2>1. Raise(p, 0) = 1 /\ k < Raise(p, k)
    BY <1>2, RaiseIs, RaiseGrows
  <2> QED
    BY <1>5, <2>1
<1>7. k \in 1 .. size
  BY <1>6
<1> QED
  BY <1>1, <1>2, <1>5, <1>7

\* A proper divisor of n divides n / r for one of its prime factors r.
LEMMA ProperDivisor ==
  ASSUME NEW n \in Nat \ {0}, NEW e \in 1 .. n - 1, Divides(e, n)
  PROVE  \E r \in PrimeFactors(n) : n \div r \in 1 .. n - 1 /\ Divides(e, n \div r)
<1>1. n \in Nat \ {0, 1} /\ e \in Nat
  OBVIOUS
<1>2. PICK k \in 1 .. n : n = k * e
  BY <1>1, DivisorBelow
<1>3. k # 1
  BY <1>2
<1>4. Divides(k, n)
  <2>1. n = e * k /\ e \in Int
    BY <1>2
  <2> QED
    BY <2>1 DEF Divides
<1>5. PICK r \in PrimeFactors(n) : Divides(r, k) /\ r \in 2 .. n
  <2>1. k \in 2 .. n
    BY <1>3
  <2> QED
    BY <1>1, <1>4, <2>1, PrimeFactorsAre
<1>6. PICK j \in 1 .. k : k = j * r
  <2>1. r \in Nat /\ k \in Nat \ {0}
    BY <1>5
  <2> QED
    BY <1>5, <2>1, DivisorBelow
<1>7. n = r * (j * e) + 0
  BY <1>2, <1>5, <1>6
<1>8. PICK d \in Nat : d = j * e /\ n = r * d
  <2>1. PICK d \in Nat : d = j * e
    <3>1. j \in Nat /\ e \in Nat
      OBVIOUS
    <3> QED
      BY <3>1
  <2>2. r * d \in Int
    BY <1>5
  <2> QED
    BY <1>7, <2>1, <2>2
<1>9. n \div r = d
  <2>1. r \in Nat \ {0} /\ n \in Nat /\ d \in Int /\ 0 \in 0 .. r - 1 /\ n = r * d + 0
    BY <1>5, <1>8
  <2> QED
    BY <2>1, QuotientIs
<1>10. d \in 1 .. n - 1
  <2>1. d # 0
    BY <1>5, <1>8
  <2>2. r * d >= d + d
    BY <1>5
  <2>3. PICK x \in Int : x = r * d
    BY <1>5
  <2> QED
    BY <1>8, <2>1, <2>2, <2>3
<1>11. Divides(e, d)
  <2>1. j \in Int
    OBVIOUS
  <2> QED
    BY <1>8, <2>1 DEF Divides
<1> QED
  BY <1>9, <1>10, <1>11

-----------------------------------------------------------------------------
(* Elements by number                                                      *)

Digit(p, m, k) == (m \div Raise(p, k)) % p

LEMMA DigitType ==
  ASSUME NEW p \in Nat \ {0, 1}, NEW m \in Nat, NEW k \in Nat
  PROVE  Digit(p, m, k) \in 0 .. p - 1 /\ (m < Raise(p, k) => Digit(p, m, k) = 0)
<1>1. PICK x \in Nat \ {0} : x = Raise(p, k)
  BY RaiseGrows
<1>2. PICK d \in Nat : d = m \div x
  BY QuotientIs
<1>3. d % p \in 0 .. p - 1
  BY QuotientIs
<1>4. ASSUME m < x PROVE d % p = 0
  <2>1. m \in 0 .. x - 1 /\ m = x * 0 + m /\ 0 \in Int
    BY <1>4
  <2>2. 0 = d
    BY <1>2, <2>1, QuotientIs
  <2>3. 0 \in 0 .. p - 1 /\ 0 = p * 0 + 0 /\ 0 \in Int /\ 0 \in Nat /\ p \in Nat \ {0}
    OBVIOUS
  <2>4. 0 = 0 % p
    BY <2>3, QuotientIs
  <2> QED
    BY <2>2, <2>4
<1> QED
  BY <1>1, <1>2, <1>3, <1>4 DEF Digit

\* Above the n places of v stands the digit c.
LEMMA DigitOfSum ==
  ASSUME NEW p \in Nat \ {0, 1}, NEW n \in Nat, NEW c \in 0 .. p - 1,
         NEW v \in 0 .. Raise(p, n) - 1, NEW k \in Nat
  PROVE  /\ Raise(p, n) * c + v \in 0 .. Raise(p, n + 1) - 1
         /\ Digit(p, Raise(p, n) * c + v, k) = IF k = n THEN c ELSE Digit(p, v, k)
<1>0. p \in Nat \ {0} /\ p \in Nat /\ n + 1 \in Nat
  OBVIOUS
<1>1. PICK x \in Nat \ {0} : x = Raise(p, n)
  BY RaiseGrows
<1>2. PICK y \in Nat : y = Raise(p, n + 1) /\ y = p * x
  <2>1. Raise(p, n + 1) = p * Raise(p, n) /\ Raise(p, n + 1) \in Nat
    BY RaiseIs
  <2> QED
    BY <1>1, <2>1
<1>3. v \in Nat /\ v <= x - 1 /\ c \in Nat /\ v \in 0 .. x - 1
  BY <1>1
<1>4. PICK z \in Nat : z = x * c
  BY <1>3
<1>5. PICK m \in Nat : m = z + v
  BY <1>3
<1>6. m < y
  <2>1. x * c <= x * (p - 1)
    <3>1. x * (p - 1 - c) >= 0
      OBVIOUS
    <3>2. x * (p - 1 - c) = x * (p - 1) - x * c
      OBVIOUS
    <3> QED
      BY <3>1, <3>2
  <2>2. x * (p - 1) = p * x - x
    OBVIOUS
  <2> QED
    BY <1>2, <1>3, <1>4, <1>5, <2>1, <2>2
<1>7. CASE k = n
  <2>1. m \div x = c
    <3>1. m = x * c + v
      BY <1>4, <1>5
    <3>2. \A q \in Int, r \in 0 .. x - 1 : m = x * q + r => q = m \div x /\ r = m % x
      BY QuotientIs
    <3>3. c \in Int
      OBVIOUS
    <3> QED
      BY <1>3, <3>1, <3>2, <3>3
  <2>2. c % p = c
    <3>1. c = p * 0 + c /\ 0 \in Int /\ c \in Nat
      OBVIOUS
    <3>2. \A q \in Int, r \in 0 .. p - 1 : c = p * q + r => q = c \div p /\ r = c % p
      BY <1>0, <3>1, QuotientIs
    <3> QED
      BY <3>1, <3>2
  <2>3. Digit(p, m, k) = c
    BY <1>1, <1>7, <2>1, <2>2 DEF Digit
  <2> QED
    BY <1>1, <1>2, <1>4, <1>5, <1>6, <1>7, <2>3
<1>8. CASE k > n
  <2>1. Raise(p, k) >= y
    <3>1. CASE k = n + 1
      BY <1>2, <3>1
    <3>2. CASE k # n + 1
      <4>1. n + 1 < k
        BY <1>8, <3>2
      <4>2. Raise(p, n + 1) < Raise(p, k) /\ Raise(p, k) \in Nat
        BY <1>0, <4>1, RaiseGrows
      <4> QED
        BY <1>2, <4>2
    <3> QED
      BY <3>1, <3>2
  <2>2. x <= y
    <3>1. p * x >= x + x
      OBVIOUS
    <3> QED
      BY <1>2, <3>1
  <2>3. Raise(p, k) \in Nat
    BY <1>0, RaiseIs
  <2>4. Digit(p, m, k) = 0 /\ Digit(p, v, k) = 0
    <3>1. m < Raise(p, k) /\ v < Raise(p, k)
      BY <1>2, <1>3, <1>6, <2>1, <2>2, <2>3
    <3> QED
      BY <1>3, <3>1, DigitType
  <2> QED
    BY <1>1, <1>2, <1>4, <1>5, <1>6, <1>8, <2>4
<1>9. CASE k < n
  <2>1. PICK j \in Nat : n = k + (j + 1)
    <3>1. n - k - 1 \in Nat /\ n = k + ((n - k - 1) + 1)
      BY <1>9
    <3> QED
      BY <3>1
  <2>2. PICK a \in Nat \ {0}, b \in Nat \ {0} : a = Raise(p, k) /\ b = Raise(p, j)
    BY RaiseGrows
  <2>3. x = a * (p * b)
    <3>1. Raise(p, k + (j + 1)) = Raise(p, k) * Raise(p, j + 1) /\ j + 1 \in Nat
      BY <1>0, RaiseAdds
    <3>2. Raise(p, j + 1) = p * Raise(p, j)
      BY <1>0, RaiseIs
    <3> QED
      BY <1>1, <2>1, <2>2, <3>1, <3>2
  <2>4. PICK u \in Nat, w \in 0 .. a - 1 : u = v \div a /\ v = a * u + w
    <3>1. v \div a \in Nat /\ v % a \in 0 .. a - 1 /\ v = a * (v \div a) + (v % a)
      BY <1>3, <2>2, QuotientIs
    <3> QED
      BY <3>1
  <2>5. PICK h \in Nat : h = p * (b * c)
    <3>1. b * c \in Nat
      BY <1>3
    <3>2. p * (b * c) \in Nat
      BY <3>1
    <3> QED
      BY <3>2
  <2>6. z = a * h
    <3>1. (a * (p * b)) * c = a * (p * (b * c))
      BY <1>3
    <3> QED
      BY <1>4, <2>3, <2>5, <3>1
  <2>7. m = a * (h + u) + w
    <3>1. a * (h + u) = a * h + a * u
      OBVIOUS
    <3>2. PICK s \in Int, t \in Int : s = a * h /\ t = a * u
      OBVIOUS
    <3> QED
      BY <1>5, <2>4, <2>6, <3>1, <3>2
  <2>8. m \div a = h + u
    <3>1. h + u \in Int
      OBVIOUS
    <3> QED
      BY <2>7, <3>1, QuotientIs
  <2>9. (h + u) % p = u % p
    <3>1. (h + u) - u = (b * c) * p
      BY <1>3, <2>5
    <3>2. b * c \in Int
      BY <1>3
    <3>3. Congruent(p, h + u, u)
      BY <3>1, <3>2 DEF Congruent
    <3>4. h + u \in Int /\ u \in Int
      OBVIOUS
    <3> QED
      BY <1>0, <3>3, <3>4, SameRemainder
  <2>10. Digit(p, m, k) = Digit(p, v, k)
    BY <2>2, <2>4, <2>8, <2>9 DEF Digit
  <2> QED
    BY <1>1, <1>2, <1>4, <1>5, <1>6, <1>9, <2>10
<1> QED
  BY <1>7, <1>8, <1>9

\* The number that the coefficients of f write in base p.
Places(p, f) == [k \in DOMAIN f |-> Raise(p, k) * f[k]]
Value(p, f) == Total(Places(p, f), DOMAIN f)

LEMMA PlacesIntegral ==
  ASSUME NEW p \in Nat \ {0}, NEW f \in Polys(p)
  PROVE  IsFiniteSet(DOMAIN f) /\ Integral(Places(p, f), DOMAIN f) /\ Value(p, f) \in Int
<1>1. IsFiniteSet(DOMAIN f) /\ DOMAIN f \subseteq Nat
  BY PolyIs, PowersAre
<1>2. \A k \in DOMAIN f : f[k] \in Int /\ Raise(p, k) \in Int
  BY <1>1, PolyIs, RaiseIs
<1>3. Integral(Places(p, f), DOMAIN f)
  BY <1>2 DEF Integral, Places
<1> QED
  BY <1>1, <1>3, TotalType DEF Value

LEMMA FoldIsValue ==
  ASSUME NEW F, F.p \in Nat \ {0}, NEW f \in Polys(F.p)
  PROVE  AsInt(F, f) = Value(F.p, f)
<1> DEFINE D == DOMAIN f
           w == Places(F.p, f)
           Adds(it) == it = [s \in SUBSET D |->
                              IF s = {} THEN 0
                              ELSE Raise(F.p, Some(s)) * f[Some(s)] + it[s \ {Some(s)}]]
           sum == CHOOSE it : Adds(it)
<1>1. IsFiniteSet(D)
  BY PlacesIntegral
<1>2. PICK h : Folds("+", h, w, D)
  BY <1>1, FoldExists
<1>3. ASSUME NEW s \in SUBSET D, s # {}
      PROVE  w[Some(s)] = Raise(F.p, Some(s)) * f[Some(s)]
  BY <1>3, SomeIsMember DEF Places
<1>4. Adds(h)
  <2>1. h = [s \in SUBSET D |-> h[s]]
    BY <1>2 DEF Folds, Combine, Unit
  <2>2. ASSUME NEW s \in SUBSET D
        PROVE  h[s] = IF s = {} THEN 0
                      ELSE Raise(F.p, Some(s)) * f[Some(s)] + h[s \ {Some(s)}]
    BY <1>2, <1>3 DEF Folds, Combine, Unit
  <2> QED
    BY <2>1, <2>2
<1>5. Adds(sum)
  <2> HIDE DEF Adds
  <2> QED
    BY <1>4
<1>6. Folds("+", sum, w, D)
  <2> HIDE DEF sum
  <2>1. sum = [s \in SUBSET D |-> sum[s]]
    BY <1>5
  <2>2. ASSUME NEW s \in SUBSET D
        PROVE  sum[s] = IF s = {} THEN 0
                        ELSE w[Some(s)] + sum[s \ {Some(s)}]
    BY <1>3, <1>5
  <2> QED
    BY <2>1, <2>2 DEF Folds, Combine, Unit
<1>7. AsInt(F, f) = sum[D]
  BY DEF AsInt, MapThenSumSet, MapThenFoldSet, Some
<1>8. PICK t : Folds("+", t, w, D) /\ Total(w, D) = t[D]
  BY <1>1, FoldIs DEF Total
<1>9. sum[D] = t[D]
  <2> HIDE DEF sum, D, w
  <2> QED
    BY <1>1, <1>6, <1>8, FoldsAgree
<1> QED
  BY <1>7, <1>8, <1>9 DEF Value

LEMMA ValueOfOneMore ==
  ASSUME NEW p \in Nat \ {0}, NEW q \in Polys(p), NEW u \in Polys(p), NEW e \in DOMAIN u,
         OneMore(q, u, e)
  PROVE  Value(p, u) = Raise(p, e) * u[e] + Value(p, q)
<1>1. PICK D : D = DOMAIN q
  OBVIOUS
<1>2. IsFiniteSet(D) /\ e \notin D /\ DOMAIN u = D \cup {e} /\ \A i \in D : u[i] = q[i]
  BY <1>1, PlacesIntegral DEF OneMore
<1>3. Integral(Places(p, u), D \cup {e})
  BY <1>2, PlacesIntegral
<1>4. Total(Places(p, u), D \cup {e}) = Places(p, u)[e] + Total(Places(p, u), D)
  BY <1>2, <1>3, TotalOfOneMore
<1>5. \A i \in D : Places(p, u)[i] = Places(p, q)[i]
  BY <1>1, <1>2 DEF Places
<1>6. Total(Places(p, u), D) = Total(Places(p, q), D)
  BY <1>2, <1>5, TotalsAgree
<1>7. Places(p, u)[e] = Raise(p, e) * u[e]
  BY DEF Places
<1> QED
  BY <1>1, <1>2, <1>4, <1>6, <1>7 DEF Value

\* The polynomials of degree below n.
Below(p, n) == {f \in Polys(p) : \A k \in DOMAIN f : k < n}

LEMMA WithoutTop ==
  ASSUME NEW p \in Nat \ {0}, NEW n \in Nat, NEW u \in Below(p, n + 1), n \in DOMAIN u
  PROVE  \E q \in Below(p, n) : OneMore(q, u, n)
<1> DEFINE D == DOMAIN u \ {n}
           q == [k \in D |-> u[k]]
<1>1. u \in Polys(p) /\ DOMAIN u \in Powers /\ u \in [DOMAIN u -> 1 .. p - 1] /\ DOMAIN u \subseteq Nat
      /\ \A k \in DOMAIN u : k < n + 1
  BY PolyIs, PowersAre DEF Below
<1>2. D \in Powers
  BY <1>1 DEF Powers
<1>3. q \in [D -> 1 .. p - 1]
  BY <1>1
<1>4. q \in Polys(p)
  BY <1>2, <1>3 DEF Polys
<1>5. \A k \in DOMAIN q : k < n
  BY <1>1
<1>6. OneMore(q, u, n)
  BY DEF OneMore
<1> QED
  BY <1>4, <1>5, <1>6 DEF Below

LEMMA WithTop ==
  ASSUME NEW p \in Nat \ {0}, NEW n \in Nat, NEW q \in Below(p, n), NEW c \in 1 .. p - 1
  PROVE  \E u \in Below(p, n + 1) : n \in DOMAIN u /\ OneMore(q, u, n) /\ u[n] = c
<1> DEFINE D == DOMAIN q \cup {n}
           u == [k \in D |-> IF k = n THEN c ELSE q[k]]
<1>1. q \in Polys(p) /\ DOMAIN q \in Powers /\ q \in [DOMAIN q -> 1 .. p - 1] /\ DOMAIN q \subseteq Nat
      /\ \A k \in DOMAIN q : k < n
  BY PolyIs, PowersAre DEF Below
<1>2. D \in Powers
  <2>1. {n} \in SUBSET (0 .. n)
    OBVIOUS
  <2>2. {n} \in Powers
    BY <2>1 DEF Powers
  <2> QED
    BY <1>1, <2>2, UnionOfPowers
<1>3. u \in [D -> 1 .. p - 1]
  BY <1>1
<1>4. u \in Polys(p)
  BY <1>2, <1>3 DEF Polys
<1>5. \A k \in DOMAIN u : k < n + 1
  BY <1>1
<1>6. OneMore(q, u, n) /\ n \in DOMAIN u /\ u[n] = c
  BY <1>1 DEF OneMore
<1> QED
  BY <1>4, <1>5, <1>6 DEF Below

\* Polynomials of degree below n write the numbers below p^n.
LEMMA Positional ==
  ASSUME NEW p \in Nat \ {0, 1}, NEW n \in Nat
  PROVE  /\ \A f \in Below(p, n) : /\ Value(p, f) \in 0 .. Raise(p, n) - 1
                                   /\ \A k \in Nat : Digit(p, Value(p, f), k) = Coeff(f, k)
         /\ \A m \in 0 .. Raise(p, n) - 1 : \E f \in Below(p, n) : Value(p, f) = m
<1>0. p \in Nat \ {0} /\ p \in Nat
  OBVIOUS
<1> DEFINE Writes(e) == \A f \in Below(p, e) :
                          /\ Value(p, f) \in 0 .. Raise(p, e) - 1
                          /\ \A k \in Nat : Digit(p, Value(p, f), k) = Coeff(f, k)
           Reaches(e) == \A m \in 0 .. Raise(p, e) - 1 : \E f \in Below(p, e) : Value(p, f) = m
           G == {e \in Nat : Writes(e) /\ Reaches(e)}
<1>1. 0 \in G
  <2>1. Raise(p, 0) = 1
    BY <1>0, RaiseIs
  <2>2. Value(p, Zero) = 0 /\ Zero \in Below(p, 0)
    <3>1. DOMAIN Zero = {} /\ Zero \in Polys(p)
      BY <1>0, ZeroIs
    <3> QED
      BY <3>1, TotalOfNone DEF Value, Below
  <2>3. ASSUME NEW f \in Below(p, 0) PROVE f = Zero
    <3>1. f \in Polys(p) /\ DOMAIN f \subseteq Nat /\ \A k \in DOMAIN f : k < 0
      BY <1>0, PolyIs, PowersAre DEF Below
    <3>2. DOMAIN f = {}
      BY <3>1
    <3> QED
      BY <1>0, <3>1, <3>2, ZeroIs
  <2>4. \A k \in Nat : Digit(p, 0, k) = 0 /\ Coeff(Zero, k) = 0
    <3>1. ASSUME NEW k \in Nat PROVE Digit(p, 0, k) = 0
      <4>1. 0 < Raise(p, k) /\ 0 \in Nat
        BY RaiseGrows
      <4> QED
        BY <4>1, DigitType
    <3> QED
      BY <1>0, <3>1, ZeroIs
  <2>5. Writes(0)
    <3> SUFFICES ASSUME NEW f \in Below(p, 0)
                 PROVE  /\ Value(p, f) \in 0 .. Raise(p, 0) - 1
                        /\ \A k \in Nat : Digit(p, Value(p, f), k) = Coeff(f, k)
      OBVIOUS
    <3>1. f = Zero
      BY <2>3
    <3>2. 0 \in 0 .. Raise(p, 0) - 1
      BY <2>1
    <3> QED
      BY <2>2, <2>4, <3>1, <3>2
  <2>6. Reaches(0)
    <3> SUFFICES ASSUME NEW m \in 0 .. Raise(p, 0) - 1 PROVE \E f \in Below(p, 0) : Value(p, f) = m
      OBVIOUS
    <3>1. m = 0
      BY <2>1
    <3> QED
      BY <2>2, <3>1
  <2> HIDE DEF Writes, Reaches
  <2> QED
    BY <2>5, <2>6
<1>2. ASSUME NEW e \in G PROVE e + 1 \in G
  <2>0. e \in Nat /\ e + 1 \in Nat /\ Writes(e) /\ Reaches(e)
    OBVIOUS
  <2>1. PICK x \in Nat \ {0}, y \in Nat : x = Raise(p, e) /\ y = Raise(p, e + 1) /\ x < y
    <3>1. Raise(p, e) \in Nat \ {0} /\ Raise(p, e + 1) \in Nat \ {0}
      BY <2>0, RaiseGrows
    <3>2. Raise(p, e) < Raise(p, e + 1)
      <4>1. e < e + 1
        BY <2>0
      <4> QED
        BY <2>0, <4>1, RaiseGrows
    <3> QED
      BY <3>1, <3>2
  <2>2. Writes(e + 1)
    <3> SUFFICES ASSUME NEW f \in Below(p, e + 1)
                 PROVE  /\ Value(p, f) \in 0 .. Raise(p, e + 1) - 1
                        /\ \A k \in Nat : Digit(p, Value(p, f), k) = Coeff(f, k)
      OBVIOUS
    <3>1. CASE e \notin DOMAIN f
      <4>1. f \in Polys(p) /\ DOMAIN f \subseteq Nat /\ \A k \in DOMAIN f : k < e + 1
        BY <1>0, PolyIs, PowersAre DEF Below
      <4>2. \A k \in DOMAIN f : k < e
        BY <2>0, <3>1, <4>1
      <4>3. f \in Below(p, e)
        BY <4>1, <4>2 DEF Below
      <4>4. Value(p, f) \in 0 .. x - 1 /\ \A k \in Nat : Digit(p, Value(p, f), k) = Coeff(f, k)
        BY <2>0, <2>1, <4>3
      <4>5. Value(p, f) \in 0 .. y - 1
        BY <2>1, <4>4
      <4> QED
        BY <2>1, <4>4, <4>5
    <3>2. CASE e \in DOMAIN f
      <4>1. PICK q \in Below(p, e) : OneMore(q, f, e)
        BY <1>0, <2>0, <3>2, WithoutTop
      <4>2. f \in Polys(p) /\ q \in Polys(p)
        BY DEF Below
      <4>3. PICK c \in 1 .. p - 1 : c = f[e]
        BY <1>0, <3>2, <4>2, PolyIs
      <4>4. PICK v \in 0 .. x - 1 : v = Value(p, q)
        BY <2>0, <2>1, <4>1
      <4>5. Value(p, f) = Raise(p, e) * c + v
        BY <1>0, <3>2, <4>1, <4>2, <4>3, <4>4, ValueOfOneMore
      <4>6. c \in 0 .. p - 1 /\ v \in 0 .. Raise(p, e) - 1
        BY <2>1
      <4>7. ASSUME NEW k \in Nat
            PROVE  /\ Value(p, f) \in 0 .. Raise(p, e + 1) - 1
                   /\ Digit(p, Value(p, f), k) = Coeff(f, k)
        <5>1. /\ Raise(p, e) * c + v \in 0 .. Raise(p, e + 1) - 1
              /\ Digit(p, Raise(p, e) * c + v, k) = IF k = e THEN c ELSE Digit(p, v, k)
          BY <2>0, <4>6, DigitOfSum
        <5>2. Digit(p, v, k) = Coeff(q, k)
          BY <2>0, <4>1, <4>4
        <5>3. Coeff(f, k) = IF k = e THEN c ELSE Coeff(q, k)
          BY <3>2, <4>1, <4>3 DEF Coeff, OneMore
        <5> QED
          BY <4>5, <5>1, <5>2, <5>3
      <4>8. 0 \in Nat
        OBVIOUS
      <4> QED
        BY <4>7, <4>8
    <3> QED
      BY <3>1, <3>2
  <2>3. Reaches(e + 1)
    <3> SUFFICES ASSUME NEW m \in 0 .. Raise(p, e + 1) - 1
                 PROVE  \E f \in Below(p, e + 1) : Value(p, f) = m
      OBVIOUS
    <3>1. m \in Nat /\ m < y
      BY <2>1
    <3>2. PICK c \in Nat, v \in 0 .. x - 1 : m = x * c + v
      <4>1. m \div x \in Nat /\ m % x \in 0 .. x - 1 /\ m = x * (m \div x) + (m % x)
        BY <3>1, QuotientIs
      <4> QED
        BY <4>1
    <3>3. c < p
      <4>1. y = p * x
        BY <1>0, <2>0, <2>1, RaiseIs
      <4>2. c >= p => x * c >= p * x
        <5>1. c >= p => x * (c - p) >= 0
          OBVIOUS
        <5>2. x * (c - p) = x * c - p * x
          OBVIOUS
        <5> QED
          BY <5>1, <5>2
      <4>3. PICK z \in Int : z = x * c
        OBVIOUS
      <4> QED
        BY <3>1, <3>2, <4>1, <4>2, <4>3
    <3>4. v \in 0 .. Raise(p, e) - 1
      BY <2>1
    <3>5. PICK q \in Below(p, e) : Value(p, q) = v
      BY <2>0, <3>4
    <3>6. CASE c = 0
      <4>1. q \in Below(p, e + 1)
        <5>1. q \in Polys(p) /\ DOMAIN q \subseteq Nat /\ \A k \in DOMAIN q : k < e
          BY <1>0, PolyIs, PowersAre DEF Below
        <5>2. \A k \in DOMAIN q : k < e + 1
          BY <2>0, <5>1
        <5> QED
          BY <5>1, <5>2 DEF Below
      <4>2. m = v
        BY <3>2, <3>6
      <4> QED
        BY <3>5, <4>1, <4>2
    <3>7. CASE c # 0
      <4>1. c \in 1 .. p - 1
        BY <3>3, <3>7
      <4>2. PICK u \in Below(p, e + 1) : e \in DOMAIN u /\ OneMore(q, u, e) /\ u[e] = c
        BY <1>0, <2>0, <4>1, WithTop
      <4>3. u \in Polys(p) /\ q \in Polys(p)
        BY DEF Below
      <4>4. Value(p, u) = Raise(p, e) * u[e] + Value(p, q)
        BY <1>0, <4>2, <4>3, ValueOfOneMore
      <4>5. Value(p, u) = m
        BY <2>1, <3>2, <3>5, <4>2, <4>4
      <4> QED
        BY <4>5
    <3> QED
      BY <3>6, <3>7
  <2> HIDE DEF Writes, Reaches
  <2> QED
    BY <2>0, <2>2, <2>3
<1>3. G = Nat
  <2>1. G \in SUBSET Nat
    OBVIOUS
  <2> HIDE DEF G
  <2> QED
    BY <1>1, <1>2, <2>1, Counting
<1>4. Writes(n) /\ Reaches(n)
  <2> HIDE DEF Writes, Reaches
  <2> QED
    BY <1>3
<1> QED
  BY <1>4

-----------------------------------------------------------------------------
(* Polynomials modulo a polynomial                                         *)

LEMMA AddAssociates ==
  ASSUME NEW p \in Nat \ {0}, NEW f \in Polys(p), NEW g \in Polys(p), NEW h \in Polys(p)
  PROVE  Add(p, Add(p, f, g), h) = Add(p, f, Add(p, g, h))
<1>1. PICK u \in Polys(p), v \in Polys(p) : u = Add(p, f, g) /\ v = Add(p, g, h)
  BY PolyType
<1>2. PICK x \in Polys(p), y \in Polys(p) : x = Add(p, u, h) /\ y = Add(p, f, v)
  BY PolyType
<1>3. ASSUME NEW k \in Int PROVE Congruent(p, Coeff(x, k), Coeff(y, k))
  <2>1. PICK a \in Int, b \in Int, c \in Int, d \in Int, e \in Int, i \in Int, j \in Int :
          /\ a = Coeff(f, k) /\ b = Coeff(g, k) /\ c = Coeff(h, k)
          /\ d = Coeff(u, k) /\ e = Coeff(v, k) /\ i = Coeff(x, k) /\ j = Coeff(y, k)
    BY CoeffType
  <2>2. /\ Congruent(p, d, a + b) /\ Congruent(p, e, b + c)
        /\ Congruent(p, i, d + c) /\ Congruent(p, j, a + e)
    BY <1>1, <1>2, <2>1, SumCoeff
  <2>3. Congruent(p, a, a) /\ Congruent(p, c, c)
    BY CongruentTransitive
  <2>4. a + b \in Int /\ b + c \in Int /\ d + c \in Int /\ a + e \in Int
        /\ (a + b) + c \in Int /\ a + (b + c) = (a + b) + c
    OBVIOUS
  <2>5. Congruent(p, d + c, (a + b) + c) /\ Congruent(p, a + e, (a + b) + c)
    BY <2>2, <2>3, <2>4, CongruentSums
  <2>6. Congruent(p, i, (a + b) + c) /\ Congruent(p, j, (a + b) + c)
    BY <2>2, <2>4, <2>5, CongruentChain
  <2>7. Congruent(p, (a + b) + c, j)
    BY <2>4, <2>6, CongruentTransitive
  <2> QED
    BY <2>1, <2>4, <2>6, <2>7, CongruentChain
<1>4. x = y
  BY <1>3, SameModulo
<1> QED
  BY <1>1, <1>2, <1>4

LEMMA SubUndoes ==
  ASSUME NEW p \in Nat \ {0}, NEW f \in Polys(p), NEW g \in Polys(p)
  PROVE  Sub(p, f, g) \in Polys(p) /\ Add(p, Sub(p, f, g), g) = f
<1>1. PICK u \in Polys(p) : u = Sub(p, f, g)
  BY PolyType
<1>2. PICK x \in Polys(p) : x = Add(p, u, g)
  BY PolyType
<1>3. ASSUME NEW k \in Int PROVE Congruent(p, Coeff(x, k), Coeff(f, k))
  <2>1. PICK a \in Int, b \in Int, c \in Int, d \in Int :
          a = Coeff(f, k) /\ b = Coeff(g, k) /\ c = Coeff(u, k) /\ d = Coeff(x, k)
    BY <1>1, <1>2, CoeffType
  <2>2. Congruent(p, d, c + b)
    BY <1>2, <2>1, SumCoeff
  <2>3. c = (a - b) % p
    BY <1>1, <2>1, SubIs
  <2>4. a - b \in Int /\ c + b \in Int /\ (a - b) + b = a
    OBVIOUS
  <2>5. Congruent(p, c, a - b) /\ Congruent(p, b, b)
    BY <2>3, <2>4, Modulo, CongruentTransitive
  <2>6. Congruent(p, c + b, (a - b) + b)
    BY <2>4, <2>5, CongruentSums
  <2> QED
    BY <2>1, <2>2, <2>4, <2>6, CongruentChain
<1>4. x = f
  BY <1>3, SameModulo
<1> QED
  BY <1>1, <1>2, <1>4

\* Sums of polynomials, as the later proofs use them.
LEMMA PolySums ==
  ASSUME NEW p \in Nat \ {0, 1}, NEW a \in Polys(p), NEW b \in Polys(p)
  PROVE  /\ Add(p, a, b) \in Polys(p) /\ Sub(p, a, b) \in Polys(p) /\ Mul(p, a, b) \in Polys(p)
         /\ Add(p, a, b) = Add(p, b, a) /\ Mul(p, a, b) = Mul(p, b, a)
         /\ Zero \in Polys(p) /\ One \in Polys(p)
         /\ Add(p, a, Zero) = a /\ Add(p, Zero, a) = a
         /\ Mul(p, a, One) = a /\ Mul(p, One, a) = a
         /\ Mul(p, a, Zero) = Zero /\ Mul(p, Zero, a) = Zero
         /\ Add(p, Sub(p, a, b), b) = a
<1>1. p \in Nat \ {0}
  OBVIOUS
<1>2. Zero \in Polys(p) /\ One \in Polys(p)
  BY <1>1, ZeroIs, MulOfOne
<1>3. Add(p, Zero, a) = a /\ Add(p, a, Zero) = Add(p, Zero, a) /\ Add(p, a, b) = Add(p, b, a)
  BY <1>2, PolynomialRing
<1>4. Mul(p, One, a) = a /\ Mul(p, a, One) = Mul(p, One, a) /\ Mul(p, a, b) = Mul(p, b, a)
  BY <1>2, PolynomialRing
<1> QED
  BY <1>1, <1>2, <1>3, <1>4, PolyType, MulOfZero, SubUndoes

LEMMA SumsSwap ==
  ASSUME NEW p \in Nat \ {0, 1}, NEW a \in Polys(p), NEW b \in Polys(p), NEW c \in Polys(p),
         NEW d \in Polys(p)
  PROVE  Add(p, Add(p, a, b), Add(p, c, d)) = Add(p, Add(p, a, c), Add(p, b, d))
<1>1. p \in Nat \ {0}
  OBVIOUS
<1>2. Add(p, c, d) \in Polys(p) /\ Add(p, b, d) \in Polys(p)
  BY PolySums
<1>3. Add(p, Add(p, a, b), Add(p, c, d)) = Add(p, a, Add(p, b, Add(p, c, d)))
  BY <1>1, <1>2, AddAssociates
<1>4. Add(p, Add(p, a, c), Add(p, b, d)) = Add(p, a, Add(p, c, Add(p, b, d)))
  BY <1>1, <1>2, AddAssociates
<1>5. Add(p, b, Add(p, c, d)) = Add(p, Add(p, b, c), d)
  BY <1>1, AddAssociates
<1>6. Add(p, c, Add(p, b, d)) = Add(p, Add(p, c, b), d)
  BY <1>1, AddAssociates
<1>7. Add(p, b, c) = Add(p, c, b)
  BY PolySums
<1> QED
  BY <1>3, <1>4, <1>5, <1>6, <1>7

\* The difference is the one polynomial that completes b to a.
LEMMA SubIsUnique ==
  ASSUME NEW p \in Nat \ {0, 1}, NEW a \in Polys(p), NEW b \in Polys(p), NEW c \in Polys(p)
  PROVE  c = Sub(p, a, b) <=> a = Add(p, c, b)
<1>0. p \in Nat \ {0}
  OBVIOUS
<1>1. PICK n \in Polys(p) : Add(p, n, b) = Zero
  <2>1. Zero \in Polys(p)
    BY PolySums
  <2>2. Sub(p, Zero, b) \in Polys(p) /\ Add(p, Sub(p, Zero, b), b) = Zero
    BY <1>0, <2>1, SubUndoes
  <2> QED
    BY <2>2
<1>2. ASSUME NEW x \in Polys(p) PROVE Add(p, Add(p, x, b), n) = x
  <2>1. Add(p, Add(p, x, b), n) = Add(p, x, Add(p, b, n))
    BY <1>0, AddAssociates
  <2>2. Add(p, b, n) = Zero /\ Add(p, x, Zero) = x
    BY <1>1, PolySums
  <2> QED
    BY <2>1, <2>2
<1>3. Sub(p, a, b) \in Polys(p) /\ Add(p, Sub(p, a, b), b) = a
  BY PolySums
<1>4. ASSUME a = Add(p, c, b) PROVE c = Sub(p, a, b)
  <2>1. Add(p, Add(p, c, b), n) = c /\ Add(p, Add(p, Sub(p, a, b), b), n) = Sub(p, a, b)
    BY <1>2, <1>3
  <2> QED
    BY <1>3, <1>4, <2>1
<1> QED
  BY <1>3, <1>4

\* a and b differ by a multiple of g.
Same(p, g, a, b) == \E h \in Polys(p) : a = Add(p, b, Mul(p, h, g))

LEMMA SameIs ==
  ASSUME NEW p \in Nat \ {0, 1}, NEW g \in Polys(p), NEW a \in Polys(p), NEW b \in Polys(p)
  PROVE  /\ Same(p, g, a, a)
         /\ Same(p, g, a, b) => Same(p, g, b, a)
         /\ Same(p, g, a, b) <=> PolyDivides(p, g, Sub(p, a, b))
         /\ Same(p, g, a, Zero) <=> PolyDivides(p, g, a)
<1>0. p \in Nat \ {0} /\ Zero \in Polys(p)
  BY PolySums
<1>1. Same(p, g, a, a)
  <2>1. a = Add(p, a, Mul(p, Zero, g))
    BY PolySums
  <2> QED
    BY <1>0, <2>1 DEF Same
<1>2. ASSUME Same(p, g, a, b) PROVE Same(p, g, b, a)
  <2>1. PICK h \in Polys(p) : a = Add(p, b, Mul(p, h, g))
    BY <1>2 DEF Same
  <2>2. PICK i \in Polys(p) : Add(p, i, h) = Zero
    <3>1. Sub(p, Zero, h) \in Polys(p) /\ Add(p, Sub(p, Zero, h), h) = Zero
      BY <1>0, SubUndoes
    <3> QED
      BY <3>1
  <2>3. PICK x \in Polys(p), y \in Polys(p) : x = Mul(p, h, g) /\ y = Mul(p, i, g)
    BY PolySums
  <2>4. Add(p, x, y) = Zero
    <3>1. Mul(p, Add(p, h, i), g) = Add(p, x, y)
      BY <1>0, <2>3, MulDistributes
    <3>2. Add(p, h, i) = Zero /\ Mul(p, Zero, g) = Zero
      BY <2>2, PolySums
    <3> QED
      BY <3>1, <3>2
  <2>5. Add(p, Add(p, b, x), y) = Add(p, b, Add(p, x, y))
    BY <1>0, AddAssociates
  <2>6. Add(p, b, Zero) = b
    BY PolySums
  <2>7. b = Add(p, a, Mul(p, i, g))
    BY <2>1, <2>3, <2>4, <2>5, <2>6
  <2> QED
    BY <2>7 DEF Same
<1>3. ASSUME NEW h \in Polys(p)
      PROVE  a = Add(p, b, Mul(p, h, g)) <=> Mul(p, h, g) = Sub(p, a, b)
  <2>1. PICK x \in Polys(p) : x = Mul(p, h, g)
    BY PolySums
  <2>2. x = Sub(p, a, b) <=> a = Add(p, x, b)
    BY SubIsUnique
  <2>3. Add(p, x, b) = Add(p, b, x)
    BY PolySums
  <2> QED
    BY <2>1, <2>2, <2>3
<1>4. Same(p, g, a, b) <=> PolyDivides(p, g, Sub(p, a, b))
  BY <1>3 DEF Same, PolyDivides
<1>5. Same(p, g, a, Zero) <=> PolyDivides(p, g, a)
  <2>1. ASSUME NEW h \in Polys(p) PROVE Add(p, Zero, Mul(p, h, g)) = Mul(p, h, g)
    BY PolySums
  <2> QED
    BY <2>1 DEF Same, PolyDivides
<1> QED
  BY <1>1, <1>2, <1>4, <1>5

LEMMA SameChain ==
  ASSUME NEW p \in Nat \ {0, 1}, NEW g \in Polys(p), NEW a \in Polys(p), NEW b \in Polys(p),
         NEW c \in Polys(p), Same(p, g, a, b), Same(p, g, b, c)
  PROVE  Same(p, g, a, c)
<1>0. p \in Nat \ {0}
  OBVIOUS
<1>1. PICK h \in Polys(p) : a = Add(p, b, Mul(p, h, g))
  BY DEF Same
<1>2. PICK i \in Polys(p) : b = Add(p, c, Mul(p, i, g))
  BY DEF Same
<1>3. PICK x \in Polys(p), y \in Polys(p) : x = Mul(p, h, g) /\ y = Mul(p, i, g)
  BY PolySums
<1>4. Add(p, Add(p, c, y), x) = Add(p, c, Add(p, y, x))
  BY <1>0, AddAssociates
<1>5. Add(p, y, x) = Mul(p, Add(p, i, h), g)
  BY <1>0, <1>3, MulDistributes
<1>6. Add(p, i, h) \in Polys(p)
  BY PolySums
<1> QED
  BY <1>1, <1>2, <1>3, <1>4, <1>5, <1>6 DEF Same

LEMMA SameSums ==
  ASSUME NEW p \in Nat \ {0, 1}, NEW g \in Polys(p), NEW a \in Polys(p), NEW b \in Polys(p),
         NEW c \in Polys(p), NEW d \in Polys(p), Same(p, g, a, b), Same(p, g, c, d)
  PROVE  Same(p, g, Add(p, a, c), Add(p, b, d))
<1>0. p \in Nat \ {0}
  OBVIOUS
<1>1. PICK h \in Polys(p) : a = Add(p, b, Mul(p, h, g))
  BY DEF Same
<1>2. PICK i \in Polys(p) : c = Add(p, d, Mul(p, i, g))
  BY DEF Same
<1>3. PICK x \in Polys(p), y \in Polys(p) : x = Mul(p, h, g) /\ y = Mul(p, i, g)
  BY PolySums
<1>4. Add(p, Add(p, b, x), Add(p, d, y)) = Add(p, Add(p, b, d), Add(p, x, y))
  BY SumsSwap
<1>5. Add(p, x, y) = Mul(p, Add(p, h, i), g)
  BY <1>0, <1>3, MulDistributes
<1>6. Add(p, h, i) \in Polys(p)
  BY PolySums
<1> QED
  BY <1>1, <1>2, <1>3, <1>4, <1>5, <1>6 DEF Same

LEMMA SameMultiples ==
  ASSUME NEW p \in Nat \ {0, 1}, NEW g \in Polys(p), NEW a \in Polys(p), NEW b \in Polys(p),
         NEW c \in Polys(p), Same(p, g, a, b)
  PROVE  Same(p, g, Mul(p, c, a), Mul(p, c, b))
<1>0. p \in Nat \ {0}
  OBVIOUS
<1>1. PICK h \in Polys(p) : a = Add(p, b, Mul(p, h, g))
  BY DEF Same
<1>2. PICK x \in Polys(p) : x = Mul(p, h, g)
  BY PolySums
<1>3. Mul(p, c, Add(p, b, x)) = Add(p, Mul(p, c, b), Mul(p, c, x))
  BY <1>0, MulDistributes
<1>4. Mul(p, c, x) = Mul(p, Mul(p, c, h), g)
  BY <1>0, <1>2, MulAssociates
<1>5. Mul(p, c, h) \in Polys(p)
  BY PolySums
<1> QED
  BY <1>1, <1>2, <1>3, <1>4, <1>5 DEF Same

LEMMA SameProducts ==
  ASSUME NEW p \in Nat \ {0, 1}, NEW g \in Polys(p), NEW a \in Polys(p), NEW b \in Polys(p),
         NEW c \in Polys(p), NEW d \in Polys(p), Same(p, g, a, b), Same(p, g, c, d)
  PROVE  Same(p, g, Mul(p, a, c), Mul(p, b, d))
<1>1. Same(p, g, Mul(p, a, c), Mul(p, a, d))
  BY SameMultiples
<1>2. Same(p, g, Mul(p, d, a), Mul(p, d, b))
  BY SameMultiples
<1>3. Mul(p, d, a) = Mul(p, a, d) /\ Mul(p, d, b) = Mul(p, b, d)
  BY PolySums
<1>4. Mul(p, a, c) \in Polys(p) /\ Mul(p, a, d) \in Polys(p) /\ Mul(p, b, d) \in Polys(p)
  BY PolySums
<1> QED
  BY <1>1, <1>2, <1>3, <1>4, SameChain

-----------------------------------------------------------------------------
(* Degrees                                                                 *)

LEMMA DegreeIs ==
  ASSUME NEW p \in Nat \ {0}, NEW f \in Polys(p), NEW d \in Nat, Coeff(f, d) # 0,
         \A k \in Nat : k > d => Coeff(f, k) = 0
  PROVE  f # Zero /\ Degree(f) = d /\ f[Degree(f)] = Coeff(f, d)
<1>1. f # Zero
  BY ZeroIs
<1>2. Degree(f) \in DOMAIN f /\ Degree(f) \in Nat /\ \A k \in DOMAIN f : k <= Degree(f)
  BY <1>1, LeadTermIs
<1>3. d \in DOMAIN f
  BY PolyCoefficients
<1>4. Coeff(f, Degree(f)) # 0
  BY <1>2, PolyCoefficients
<1>5. ~ (Degree(f) > d)
  BY <1>2, <1>4
<1>6. Degree(f) = d
  BY <1>2, <1>3, <1>5
<1> QED
  BY <1>1, <1>3, <1>6 DEF Coeff

LEMMA ProductDegree ==
  ASSUME NEW p \in Nat \ {0, 1}, IsPrime(p), NEW f \in Polys(p), NEW g \in Polys(p),
         f # Zero, g # Zero
  PROVE  /\ Mul(p, f, g) # Zero /\ Degree(Mul(p, f, g)) = Degree(f) + Degree(g)
         /\ Mul(p, f, g)[Degree(f) + Degree(g)] = (f[Degree(f)] * g[Degree(g)]) % p
<1>0. p \in Nat \ {0}
  OBVIOUS
<1>1. PICK a \in Nat : a = Degree(f) /\ a \in DOMAIN f /\ f[a] \in 1 .. p - 1 /\ \A k \in DOMAIN f : k <= a
  BY <1>0, LeadTermIs
<1>2. PICK b \in Nat : b = Degree(g) /\ b \in DOMAIN g /\ g[b] \in 1 .. p - 1 /\ \A k \in DOMAIN g : k <= b
  BY <1>0, LeadTermIs
<1>3. PICK h \in Polys(p) : h = Mul(p, f, g)
  BY <1>0, PolyType
<1>4. DOMAIN f \subseteq Nat /\ IsFiniteSet(DOMAIN f)
  BY <1>0, PolyIs, PowersAre
<1>5. ASSUME NEW k \in Nat, NEW i \in DOMAIN f, k > a + b \/ (k = a + b /\ i # a)
      PROVE  Terms(f, g, k)[i] = 0
  <2>1. i \in Nat /\ i <= a
    BY <1>1, <1>4
  <2>2. k - i > b
    BY <1>5, <2>1
  <2>3. Coeff(g, k - i) = 0
    <3>1. PICK j \in Int : j = k - i /\ j > b
      BY <2>1, <2>2
    <3>2. j \notin DOMAIN g
      BY <1>2, <3>1
    <3> QED
      BY <3>1, <3>2 DEF Coeff
  <2>4. f[i] \in Int
    BY <1>0, PolyIs
  <2>5. f[i] * 0 = 0
    BY <2>4
  <2> QED
    BY <2>3, <2>5 DEF Terms
<1>6. ASSUME NEW k \in Nat, k > a + b PROVE Coeff(h, k) = 0
  <2>1. ProductCoeff(f, g, k) = 0
    BY <1>4, <1>5, <1>6, TotalOfZeros DEF ProductCoeff
  <2>2. k \in Int /\ 0 % p = 0
    OBVIOUS
  <2> QED
    BY <1>0, <1>3, <2>1, <2>2, MulIs
<1>7. Coeff(h, a + b) # 0 /\ Coeff(h, a + b) = (f[a] * g[b]) % p
  <2>1. PICK k \in Nat : k = a + b
    OBVIOUS
  <2>2. Integral(Terms(f, g, k), DOMAIN f)
    BY <1>0, TermsIntegral
  <2>3. ProductCoeff(f, g, k) = Terms(f, g, k)[a]
    <3>1. \A i \in DOMAIN f : i # a => Terms(f, g, k)[i] = 0
      BY <1>5, <2>1
    <3> QED
      BY <1>1, <1>4, <2>2, <3>1, TotalOfOne DEF ProductCoeff
  <2>4. Terms(f, g, k)[a] = f[a] * g[b]
    <3>1. k - a = b
      BY <2>1
    <3> QED
      BY <1>1, <1>2, <3>1 DEF Terms, Coeff
  <2>5. k \in Int
    OBVIOUS
  <2>6. Coeff(h, k) = (f[a] * g[b]) % p
    BY <1>0, <1>3, <2>3, <2>4, <2>5, MulIs
  <2>7. (f[a] * g[b]) % p \in 1 .. p - 1
    BY <1>1, <1>2, NoZeroDivisors
  <2> QED
    BY <2>1, <2>6, <2>7
<1>8. a + b \in Nat
  OBVIOUS
<1>9. h # Zero /\ Degree(h) = a + b /\ h[a + b] = Coeff(h, a + b)
  BY <1>0, <1>6, <1>7, <1>8, DegreeIs
<1> QED
  BY <1>1, <1>2, <1>3, <1>7, <1>9

LEMMA BelowIs ==
  ASSUME NEW p \in Nat \ {0}, NEW n \in Nat, NEW f \in Polys(p)
  PROVE  f \in Below(p, n) <=> \A k \in Nat : k >= n => Coeff(f, k) = 0
<1>1. DOMAIN f \subseteq Nat
  BY PolyIs, PowersAre
<1>2. \A k : Coeff(f, k) = 0 <=> k \notin DOMAIN f
  BY PolyCoefficients
<1>3. ASSUME f \in Below(p, n), NEW k \in Nat, k >= n PROVE Coeff(f, k) = 0
  <2>1. k \notin DOMAIN f
    BY <1>3 DEF Below
  <2> QED
    BY <1>2, <2>1
<1>4. ASSUME \A k \in Nat : k >= n => Coeff(f, k) = 0, NEW k \in DOMAIN f PROVE k < n
  <2>1. k \in Nat /\ ~ (k >= n)
    BY <1>1, <1>2, <1>4
  <2> QED
    BY <2>1
<1> QED
  BY <1>3, <1>4 DEF Below

LEMMA BelowDegree ==
  ASSUME NEW p \in Nat \ {0}, NEW n \in Nat, NEW f \in Polys(p)
  PROVE  f \in Below(p, n) <=> f = Zero \/ Degree(f) < n
<1>1. CASE f = Zero
  BY <1>1, ZeroIs DEF Below
<1>2. CASE f # Zero
  <2>1. Degree(f) \in DOMAIN f /\ Degree(f) \in Nat /\ \A k \in DOMAIN f : k <= Degree(f)
    BY <1>2, LeadTermIs
  <2>2. DOMAIN f \subseteq Nat
    BY PolyIs, PowersAre
  <2>3. Degree(f) < n => \A k \in DOMAIN f : k < n
    BY <2>1, <2>2
  <2> QED
    BY <1>2, <2>1, <2>3 DEF Below
<1> QED
  BY <1>1, <1>2

LEMMA BelowSums ==
  ASSUME NEW p \in Nat \ {0}, NEW n \in Nat, NEW f \in Below(p, n), NEW g \in Below(p, n)
  PROVE  Add(p, f, g) \in Below(p, n) /\ Sub(p, f, g) \in Below(p, n) /\ Zero \in Below(p, n)
<1>1. f \in Polys(p) /\ g \in Polys(p)
  BY DEF Below
<1>2. Add(p, f, g) \in Polys(p) /\ Sub(p, f, g) \in Polys(p)
  BY <1>1, PolyType
<1>3. (0 + 0) % p = 0 /\ (0 - 0) % p = 0
  OBVIOUS
<1>4. ASSUME NEW k \in Nat, k >= n PROVE Coeff(Add(p, f, g), k) = 0 /\ Coeff(Sub(p, f, g), k) = 0
  <2>1. Coeff(f, k) = 0 /\ Coeff(g, k) = 0
    BY <1>1, <1>4, BelowIs
  <2> QED
    BY <1>1, <1>3, <2>1, AddIs, SubIs
<1> QED
  BY <1>2, <1>4, BelowIs, BelowDegree, ZeroIs

\* No two polynomials below the degree of g differ by a multiple of g.
LEMMA SameBelow ==
  ASSUME NEW p \in Nat \ {0, 1}, IsPrime(p), NEW g \in Polys(p), g # Zero,
         NEW a \in Below(p, Degree(g)), NEW b \in Below(p, Degree(g)), Same(p, g, a, b)
  PROVE  a = b
<1>0. p \in Nat \ {0} /\ a \in Polys(p) /\ b \in Polys(p)
  BY DEF Below
<1>1. Degree(g) \in Nat
  BY <1>0, LeadTermIs
<1>2. PICK h \in Polys(p) : a = Add(p, b, Mul(p, h, g))
  BY DEF Same
<1>3. PICK x \in Polys(p) : x = Mul(p, h, g)
  BY PolySums
<1>4. CASE h # Zero
  <2>1. x # Zero /\ Degree(x) = Degree(h) + Degree(g)
    BY <1>3, <1>4, ProductDegree
  <2>2. Degree(h) \in Nat
    BY <1>0, <1>4, LeadTermIs
  <2>3. x \notin Below(p, Degree(g))
    BY <1>0, <1>1, <2>1, <2>2, BelowDegree
  <2>4. Add(p, b, x) = Add(p, x, b)
    BY <1>0, PolySums
  <2>5. x = Sub(p, a, b)
    BY <1>0, <1>2, <1>3, <2>4, SubIsUnique
  <2>6. Sub(p, a, b) \in Below(p, Degree(g))
    BY <1>0, <1>1, BelowSums
  <2> QED
    BY <2>3, <2>5, <2>6
<1>5. CASE h = Zero
  BY <1>0, <1>2, <1>5, PolySums
<1> QED
  BY <1>4, <1>5

LEMMA RemIs ==
  ASSUME NEW p \in Nat \ {0, 1}, IsPrime(p), NEW f \in Polys(p), NEW g \in Polys(p), g # Zero
  PROVE  /\ Rem(p, f, g) \in Below(p, Degree(g)) /\ Rem(p, f, g) \in Polys(p)
         /\ Same(p, g, f, Rem(p, f, g)) /\ Same(p, g, Rem(p, f, g), f)
<1>0. p \in Nat \ {0}
  OBVIOUS
<1>1. PICK q \in Polys(p), r \in Polys(p) :
        /\ DivMod(p, f, g) = <<q, r>>
        /\ Add(p, Mul(p, q, g), r) = f
        /\ r = Zero \/ Degree(r) < Degree(g)
  BY DivModExact
<1>2. Rem(p, f, g) = r
  BY <1>1 DEF Rem
<1>3. Degree(g) \in Nat
  BY <1>0, LeadTermIs
<1>4. r \in Below(p, Degree(g))
  BY <1>0, <1>1, <1>3, BelowDegree
<1>5. PICK x \in Polys(p) : x = Mul(p, q, g)
  BY PolySums
<1>6. f = Add(p, r, x)
  BY <1>1, <1>5, PolySums
<1>7. Same(p, g, f, r)
  BY <1>5, <1>6 DEF Same
<1>8. Same(p, g, r, f)
  BY <1>7, SameIs
<1> QED
  BY <1>2, <1>4, <1>7, <1>8

LEMMA RemSame ==
  ASSUME NEW p \in Nat \ {0, 1}, IsPrime(p), NEW g \in Polys(p), g # Zero,
         NEW a \in Polys(p), NEW b \in Polys(p)
  PROVE  /\ Same(p, g, a, b) <=> Rem(p, a, g) = Rem(p, b, g)
         /\ a \in Below(p, Degree(g)) => Rem(p, a, g) = a
         /\ PolyDivides(p, g, a) <=> Rem(p, a, g) = Zero
<1>0. p \in Nat \ {0} /\ Degree(g) \in Nat
  BY LeadTermIs
<1>1. /\ Rem(p, a, g) \in Below(p, Degree(g)) /\ Rem(p, a, g) \in Polys(p)
      /\ Rem(p, b, g) \in Below(p, Degree(g)) /\ Rem(p, b, g) \in Polys(p)
      /\ Same(p, g, a, Rem(p, a, g)) /\ Same(p, g, Rem(p, a, g), a)
      /\ Same(p, g, b, Rem(p, b, g)) /\ Same(p, g, Rem(p, b, g), b)
  BY RemIs
<1>2. ASSUME Same(p, g, a, b) PROVE Rem(p, a, g) = Rem(p, b, g)
  <2>1. Same(p, g, Rem(p, a, g), b)
    BY <1>1, <1>2, SameChain
  <2>2. Same(p, g, Rem(p, a, g), Rem(p, b, g))
    BY <1>1, <2>1, SameChain
  <2> QED
    BY <1>1, <2>2, SameBelow
<1>3. ASSUME Rem(p, a, g) = Rem(p, b, g) PROVE Same(p, g, a, b)
  BY <1>1, <1>3, SameChain
<1>4. ASSUME a \in Below(p, Degree(g)) PROVE Rem(p, a, g) = a
  BY <1>1, <1>4, SameBelow
<1>5. Zero \in Below(p, Degree(g)) /\ Zero \in Polys(p)
  BY <1>0, BelowDegree, ZeroIs
<1>6. ASSUME PolyDivides(p, g, a) PROVE Rem(p, a, g) = Zero
  <2>1. Same(p, g, a, Zero)
    BY <1>5, <1>6, SameIs
  <2>2. Same(p, g, Rem(p, a, g), Zero)
    BY <1>1, <1>5, <2>1, SameChain
  <2> QED
    BY <1>1, <1>5, <2>2, SameBelow
<1>7. ASSUME Rem(p, a, g) = Zero PROVE PolyDivides(p, g, a)
  BY <1>1, <1>5, <1>7, SameIs
<1> QED
  BY <1>2, <1>3, <1>4, <1>6, <1>7
=============================================================================

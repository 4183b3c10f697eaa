----------------------------- MODULE LdpcProofs -----------------------------
(***************************************************************************)
(* Proofs about the two LDPC codes and the fields below the second one, in *)
(* three parts.                                                            *)
(*                                                                         *)
(* The fields, for every prime and degree: elements and their numbers, the *)
(* laws of a quotient, orders and primitive elements, Rabin's test, the    *)
(* search for an irreducible polynomial, and the fields of matrix files.   *)
(* What they rest on is proved of the polynomials in PolynomialProofs.     *)
(*                                                                         *)
(* The non-binary code, for every matrix and every length: what a check    *)
(* tells a variable is the sum over all assignments to the others.  A      *)
(* check is first treated apart from its field, as a record g with its     *)
(* variables and tables that obeys Laws(g); then the tables of a field     *)
(* are shown to obey them.                                                 *)
(*                                                                         *)
(* The binary code, for every parity matrix, length of the key, estimate   *)
(* of the error and number of iterations.                                  *)
(***************************************************************************)
EXTENDS Arithmetic, PolynomialProofs

CONSTANTS AlistFiles, Rates, MaxIter    \* of BinaryLdpc

VARIABLES
  phase, file, rate, key, other, matrix, answer, v2f, f2v, llr, estimate, passes,
  leaked                                \* of BinaryLdpc

Binary == INSTANCE BinaryLdpc WITH Files <- AlistFiles, syndrome <- answer

-----------------------------------------------------------------------------
(* The elements of a quotient and their numbers                            *)

\* A field's record before its polynomial is known to be irreducible.
Quotient(F) ==
  /\ F.p \in Nat \ {0, 1} /\ IsPrime(F.p)
  /\ F.poly \in Polys(F.p) /\ F.n = Degree(F.poly) /\ F.n # 0
  /\ F.size = Raise(F.p, F.n)

Elements(F) == Below(F.p, F.n)

LEMMA QuotientHas ==
  ASSUME NEW F, Quotient(F)
  PROVE  /\ F.p \in Nat \ {0, 1} /\ F.p \in Nat \ {0} /\ F.poly # Zero /\ F.poly \in Polys(F.p)
         /\ F.n = Degree(F.poly) /\ F.n \in Nat \ {0}
         /\ F.size \in Nat \ {0, 1} /\ F.size = Raise(F.p, F.n)
         /\ Elements(F) \subseteq Polys(F.p) /\ Zero \in Elements(F)
<1>1. F.p \in Nat \ {0, 1} /\ F.p \in Nat \ {0} /\ IsPrime(F.p) /\ F.poly \in Polys(F.p)
      /\ F.n = Degree(F.poly) /\ F.n # 0 /\ F.size = Raise(F.p, F.n)
  BY DEF Quotient
<1>2. F.poly # Zero
  BY <1>1 DEF Degree, LeadTerm
<1>3. F.n \in Nat \ {0}
  BY <1>1, <1>2, LeadTermIs
<1>4. F.size \in Nat \ {0, 1}
  <2>0. F.p \in Nat /\ 0 \in Nat
    BY <1>1
  <2>1. Raise(F.p, 0) = 1 /\ 0 < F.n
    <3>1. 0 < F.n
      BY <1>3
    <3>3. Raise(F.p, 0) = 1
      BY <2>0, RaiseIs
    <3> QED
      BY <3>1, <3>3
  <2>2. Raise(F.p, 0) < Raise(F.p, F.n) /\ Raise(F.p, F.n) \in Nat
    BY <1>1, <1>3, <2>0, <2>1, RaiseGrows
  <2> QED
    BY <1>1, <2>1, <2>2
<1>5. Zero \in Elements(F)
  <2>1. Zero \in Polys(F.p)
    BY <1>1, ZeroIs
  <2> QED
    BY <1>1, <1>3, <2>1, BelowDegree DEF Elements
<1> QED
  BY <1>1, <1>2, <1>3, <1>4, <1>5 DEF Elements, Below

LEMMA Reduced ==
  ASSUME NEW F, Quotient(F), NEW f \in Polys(F.p)
  PROVE  /\ FromPoly(F, f) \in Elements(F)
         /\ Same(F.p, F.poly, f, FromPoly(F, f)) /\ Same(F.p, F.poly, FromPoly(F, f), f)
         /\ f \in Elements(F) => FromPoly(F, f) = f
<1>1. F.p \in Nat \ {0, 1} /\ IsPrime(F.p) /\ F.poly \in Polys(F.p) /\ F.poly # Zero
      /\ F.n = Degree(F.poly)
  BY QuotientHas DEF Quotient
<1>2. FromPoly(F, f) = Rem(F.p, f, F.poly)
  BY DEF FromPoly
<1> QED
  BY <1>1, <1>2, RemIs, RemSame DEF Elements

\* Numbers below the size and elements correspond.
LEMMA ElementsAre ==
  ASSUME NEW F, Quotient(F)
  PROVE  /\ \A m \in SymbolsOf(F) : Element(F, m) \in Elements(F) /\ AsInt(F, Element(F, m)) = m
         /\ \A a \in Elements(F) : AsInt(F, a) \in SymbolsOf(F) /\ Element(F, AsInt(F, a)) = a
         /\ AsInt(F, Zero) = 0 /\ Element(F, 0) = Zero
<1>1. F.p \in Nat \ {0, 1} /\ F.p \in Nat \ {0} /\ F.n \in Nat \ {0} /\ F.n \in Nat
      /\ F.size \in Nat \ {0, 1} /\ F.size = Raise(F.p, F.n)
      /\ Elements(F) \subseteq Polys(F.p) /\ Zero \in Elements(F)
  BY QuotientHas
<1> DEFINE digits(m) == [k \in 0 .. F.n |-> (m \div Raise(F.p, k)) % F.p]
<1>2. ASSUME NEW f \in Elements(F)
      PROVE  AsInt(F, f) \in SymbolsOf(F) /\ Element(F, AsInt(F, f)) = f
  <2>1. f \in Polys(F.p) /\ f \in Below(F.p, F.n)
    BY <1>1 DEF Elements
  <2>2. AsInt(F, f) = Value(F.p, f)
    BY <1>1, <2>1, FoldIsValue
  <2>3. /\ Value(F.p, f) \in 0 .. Raise(F.p, F.n) - 1
        /\ \A k \in Nat : Digit(F.p, Value(F.p, f), k) = Coeff(f, k)
    BY <1>1, <2>1, Positional
  <2>4. PICK m \in 0 .. F.size - 1 : m = AsInt(F, f)
    BY <1>1, <2>2, <2>3
  <2>5. m % F.size = m
    BY <1>1
  <2>6. Element(F, m) = FromPoly(F, Normal(F.p, digits(m)))
    BY <2>5 DEF Element
  <2>7. 0 .. F.n \in Powers
    BY <1>1 DEF Powers
  <2>8. \A k \in 0 .. F.n : digits(m)[k] = Coeff(f, k)
    <3> SUFFICES ASSUME NEW k \in 0 .. F.n PROVE digits(m)[k] = Coeff(f, k)
      OBVIOUS
    <3>1. digits(m)[k] = Digit(F.p, m, k)
      BY DEF Digit
    <3>2. k \in Nat
      BY <1>1
    <3>3. Digit(F.p, m, k) = Coeff(f, k)
      BY <2>2, <2>3, <2>4, <3>2
    <3> QED
      BY <3>1, <3>3
  <2>9. \A k \in Nat : Coeff(f, k) \in 0 .. F.p - 1 /\ (k > F.n => Coeff(f, k) = 0)
    BY <1>1, <2>1, PolyCoefficients, BelowIs
  <2>10. digits(m) \in [0 .. F.n -> Int]
    <3>1. ASSUME NEW k \in 0 .. F.n PROVE digits(m)[k] \in Int
      <4>1. k \in Nat
        BY <1>1
      <4>2. Coeff(f, k) \in Int
        BY <1>1, <2>9, <4>1
      <4> HIDE DEF digits
      <4> QED
        BY <2>8, <4>2
    <3> QED
      BY <3>1
  <2>11. PICK c \in [0 .. F.n -> Int] : c = digits(m) /\ \A k \in 0 .. F.n : c[k] = Coeff(f, k)
    BY <2>8, <2>10
  <2>12. Normal(F.p, c) \in Polys(F.p) /\ \A k \in Nat : Coeff(Normal(F.p, c), k) = Coeff(c, k) % F.p
    BY <1>1, <2>7, NormalIs
  <2>13. ASSUME NEW k \in Nat PROVE Coeff(Normal(F.p, c), k) = Coeff(f, k)
    <3>1. PICK x \in 0 .. F.p - 1 : x = Coeff(f, k)
      BY <2>9
    <3>2. x % F.p = x
      <4>1. PICK p \in Nat \ {0} : p = F.p
        BY <1>1
      <4>2. x \in 0 .. p - 1
        BY <4>1
      <4>3. x % p = x
        BY <4>2
      <4> QED
        BY <4>1, <4>3
    <3>3. Coeff(c, k) = x
      <4>1. DOMAIN c = 0 .. F.n
        OBVIOUS
      <4>2. CASE k <= F.n
        <5>1. k \in 0 .. F.n
          BY <1>1, <4>2
        <5>2. c[k] = x
          BY <2>11, <3>1, <5>1
        <5> QED
          BY <4>1, <5>1, <5>2 DEF Coeff
      <4>3. CASE k > F.n
        BY <1>1, <2>9, <3>1, <4>1, <4>3 DEF Coeff
      <4> QED
        BY <1>1, <4>2, <4>3
    <3> QED
      BY <2>12, <3>1, <3>2, <3>3
  <2>14. Normal(F.p, c) = f
    BY <1>1, <2>1, <2>12, <2>13, SamePoly
  <2>15. FromPoly(F, f) = f
    BY <2>1, Reduced
  <2> QED
    BY <2>4, <2>6, <2>11, <2>14, <2>15 DEF SymbolsOf
<1>3. ASSUME NEW m \in SymbolsOf(F) PROVE Element(F, m) \in Elements(F) /\ AsInt(F, Element(F, m)) = m
  <2>1. m \in 0 .. Raise(F.p, F.n) - 1
    BY <1>1 DEF SymbolsOf
  <2>2. PICK f \in Below(F.p, F.n) : Value(F.p, f) = m
    BY <1>1, <2>1, Positional
  <2>3. f \in Elements(F) /\ f \in Polys(F.p)
    BY <1>1, <2>2 DEF Elements
  <2>4. AsInt(F, f) = m
    BY <1>1, <2>2, <2>3, FoldIsValue
  <2>5. Element(F, m) = f
    BY <1>2, <2>3, <2>4
  <2> QED
    BY <2>3, <2>4, <2>5
<1>4. AsInt(F, Zero) = 0
  <2>1. Zero \in Polys(F.p) /\ DOMAIN Zero = {}
    BY <1>1, ZeroIs
  <2>2. Value(F.p, Zero) = 0
    BY <2>1, TotalOfNone DEF Value
  <2> QED
    BY <1>1, <2>1, <2>2, FoldIsValue
<1> QED
  BY <1>1, <1>2, <1>3, <1>4

\* Plus and Minus need not reduce.
LEMMA SumsReduced ==
  ASSUME NEW F, Quotient(F), NEW a \in Elements(F), NEW b \in Elements(F)
  PROVE  /\ Plus(F, a, b) = Add(F.p, a, b) /\ Minus(F, a, b) = Sub(F.p, a, b)
         /\ Add(F.p, a, b) \in Elements(F) /\ Sub(F.p, a, b) \in Elements(F)
         /\ Times(F, a, b) \in Elements(F) /\ Mul(F.p, a, b) \in Polys(F.p)
<1>1. F.p \in Nat \ {0} /\ F.n \in Nat /\ Elements(F) \subseteq Polys(F.p)
  BY QuotientHas
<1>2. Add(F.p, a, b) \in Elements(F) /\ Sub(F.p, a, b) \in Elements(F)
  BY <1>1, BelowSums DEF Elements
<1>3. Mul(F.p, a, b) \in Polys(F.p)
  BY <1>1, PolyType
<1> QED
  BY <1>1, <1>2, <1>3, Reduced DEF Plus, Minus, Times

(* The numbers of the elements add up as a group, whatever the polynomial: *)
(* PlusOf and MinusOf undo one another (finite_field.rs).                  *)
THEOREM NumbersAdd ==
  ASSUME NEW F, Quotient(F) PROVE SymbolsAdd(F)
<1> DEFINE S == SymbolsOf(F)
           E == Elements(F)
<1>1. F.p \in Nat \ {0, 1} /\ F.p \in Nat \ {0} /\ F.size \in Nat \ {0, 1} /\ E \subseteq Polys(F.p)
  BY QuotientHas
<1>2. \A m \in S : Element(F, m) \in E /\ AsInt(F, Element(F, m)) = m
  BY ElementsAre
<1>3. \A a \in E : AsInt(F, a) \in S /\ Element(F, AsInt(F, a)) = a
  BY ElementsAre
<1>4. 0 \in S /\ Element(F, 0) = Zero /\ Zero \in E
  BY ElementsAre, QuotientHas DEF SymbolsOf
<1> HIDE DEF S, E
<1>5. ASSUME NEW a \in S, NEW b \in S
      PROVE  /\ PlusOf(F, a, b) = AsInt(F, Add(F.p, Element(F, a), Element(F, b)))
             /\ MinusOf(F, a, b) = AsInt(F, Sub(F.p, Element(F, a), Element(F, b)))
             /\ PlusOf(F, a, b) \in S /\ MinusOf(F, a, b) \in S /\ TimesOf(F, a, b) \in S
             /\ Element(F, PlusOf(F, a, b)) = Add(F.p, Element(F, a), Element(F, b))
             /\ Element(F, MinusOf(F, a, b)) = Sub(F.p, Element(F, a), Element(F, b))
  <2>1. Element(F, a) \in E /\ Element(F, b) \in E
    BY <1>2
  <2>2. /\ Plus(F, Element(F, a), Element(F, b)) = Add(F.p, Element(F, a), Element(F, b))
        /\ Minus(F, Element(F, a), Element(F, b)) = Sub(F.p, Element(F, a), Element(F, b))
        /\ Add(F.p, Element(F, a), Element(F, b)) \in E
        /\ Sub(F.p, Element(F, a), Element(F, b)) \in E
        /\ Times(F, Element(F, a), Element(F, b)) \in E
    BY <2>1, SumsReduced DEF E
  <2> QED
    BY <1>3, <2>2 DEF PlusOf, MinusOf, TimesOf
<1>6. ASSUME NEW a \in S, NEW b \in S
      PROVE  PlusOf(F, a, b) = PlusOf(F, b, a) /\ PlusOf(F, a, 0) = a
  <2>1. Element(F, a) \in Polys(F.p) /\ Element(F, b) \in Polys(F.p)
    BY <1>1, <1>2
  <2>2. /\ Add(F.p, Element(F, a), Element(F, b)) = Add(F.p, Element(F, b), Element(F, a))
        /\ Add(F.p, Element(F, a), Zero) = Element(F, a)
    BY <1>1, <2>1, PolySums
  <2> QED
    BY <1>2, <1>4, <1>5, <2>2
<1>7. ASSUME NEW a \in S, NEW b \in S, NEW c \in S
      PROVE  PlusOf(F, PlusOf(F, a, b), c) = PlusOf(F, a, PlusOf(F, b, c))
  <2>1. Element(F, a) \in Polys(F.p) /\ Element(F, b) \in Polys(F.p) /\ Element(F, c) \in Polys(F.p)
    BY <1>1, <1>2
  <2>2. PlusOf(F, a, b) \in S /\ PlusOf(F, b, c) \in S
    BY <1>5
  <2>3. Add(F.p, Add(F.p, Element(F, a), Element(F, b)), Element(F, c))
        = Add(F.p, Element(F, a), Add(F.p, Element(F, b), Element(F, c)))
    BY <1>1, <2>1, AddAssociates
  <2> QED
    BY <1>5, <2>2, <2>3
<1>8. ASSUME NEW a \in S, NEW b \in S, NEW c \in S
      PROVE  PlusOf(F, b, c) = a <=> c = MinusOf(F, a, b)
  <2>1. Element(F, a) \in Polys(F.p) /\ Element(F, b) \in Polys(F.p) /\ Element(F, c) \in Polys(F.p)
    BY <1>1, <1>2
  <2>2. Element(F, c) = Sub(F.p, Element(F, a), Element(F, b))
        <=> Element(F, a) = Add(F.p, Element(F, c), Element(F, b))
    BY <1>1, <2>1, SubIsUnique
  <2>3. Add(F.p, Element(F, c), Element(F, b)) = Add(F.p, Element(F, b), Element(F, c))
    BY <1>1, <2>1, PolySums
  <2>4. PlusOf(F, b, c) = a <=> Element(F, a) = Add(F.p, Element(F, b), Element(F, c))
    BY <1>2, <1>5
  <2>5. c = MinusOf(F, a, b) <=> Element(F, c) = Sub(F.p, Element(F, a), Element(F, b))
    BY <1>2, <1>5
  <2> QED
    BY <2>2, <2>3, <2>4, <2>5
<1>9. \A a, b \in S : {PlusOf(F, a, b), MinusOf(F, a, b), TimesOf(F, a, b)} \subseteq S
  BY <1>5
<1>10. \A a, b \in S : PlusOf(F, a, b) = PlusOf(F, b, a) /\ PlusOf(F, a, 0) = a
  BY <1>6
<1>11. \A a, b, c \in S : /\ PlusOf(F, PlusOf(F, a, b), c) = PlusOf(F, a, PlusOf(F, b, c))
                          /\ PlusOf(F, b, c) = a <=> c = MinusOf(F, a, b)
  BY <1>7, <1>8
<1> QED
  BY <1>1, <1>9, <1>10, <1>11 DEF SymbolsAdd, S

-----------------------------------------------------------------------------
(* Powers of polynomials, from the power 0 on                              *)

Exp(p, f, k) == IF k = 0 THEN One ELSE Pow(p, f, k)

LEMMA ExpIs ==
  ASSUME NEW p \in Nat \ {0, 1}, NEW f \in Polys(p), NEW k \in Nat
  PROVE  /\ Exp(p, f, k) \in Polys(p) /\ Exp(p, f, 0) = One /\ Exp(p, f, 1) = f
         /\ Exp(p, f, k + 1) = Mul(p, f, Exp(p, f, k))
<1>1. CASE k = 0
  <2>1. Exp(p, f, 1) = f /\ Exp(p, f, 0) = One
    BY PowExact DEF Exp
  <2>2. One \in Polys(p) /\ Mul(p, f, One) = f
    BY PolySums
  <2> QED
    BY <1>1, <2>1, <2>2
<1>2. CASE k # 0
  <2>1. k \in Nat \ {0} /\ k + 1 # 0
    BY <1>2
  <2>2. Pow(p, f, k) \in Polys(p) /\ Pow(p, f, 1) = f /\ Pow(p, f, k + 1) = Mul(p, f, Pow(p, f, k))
    BY <2>1, PowExact
  <2> QED
    BY <2>1, <2>2 DEF Exp
<1> QED
  BY <1>1, <1>2

LEMMA MulAt ==
  ASSUME NEW p \in Nat \ {0, 1}, NEW a \in Polys(p), NEW b \in Polys(p), NEW c \in Polys(p)
  PROVE  /\ Mul(p, a, b) \in Polys(p) /\ Mul(p, a, b) = Mul(p, b, a)
         /\ Mul(p, Mul(p, a, b), c) = Mul(p, a, Mul(p, b, c))
         /\ Mul(p, a, Mul(p, b, c)) = Mul(p, b, Mul(p, a, c))
<1>1. Mul(p, Mul(p, a, b), c) = Mul(p, a, Mul(p, b, c)) /\ Mul(p, a, b) \in Polys(p)
      /\ Mul(p, a, b) = Mul(p, b, a)
  BY PolynomialRing
<1>2. Mul(p, Mul(p, b, a), c) = Mul(p, b, Mul(p, a, c))
  BY PolynomialRing
<1> QED
  BY <1>1, <1>2

LEMMA ExpAdds ==
  ASSUME NEW p \in Nat \ {0, 1}, NEW f \in Polys(p), NEW j \in Nat, NEW k \in Nat
  PROVE  Exp(p, f, j + k) = Mul(p, Exp(p, f, j), Exp(p, f, k))
<1> DEFINE G == {i \in Nat : Exp(p, f, i + k) = Mul(p, Exp(p, f, i), Exp(p, f, k))}
<1>1. 0 \in G
  <2>1. Exp(p, f, k) \in Polys(p) /\ Exp(p, f, 0) = One
    BY ExpIs
  <2>2. Mul(p, One, Exp(p, f, k)) = Exp(p, f, k)
    BY <2>1, PolySums
  <2> QED
    BY <2>1, <2>2
<1>2. ASSUME NEW i \in G PROVE i + 1 \in G
  <2>1. i \in Nat /\ i + k \in Nat /\ i + 1 \in Nat /\ (i + 1) + k = (i + k) + 1
    OBVIOUS
  <2>2. /\ Exp(p, f, (i + k) + 1) = Mul(p, f, Exp(p, f, i + k))
        /\ Exp(p, f, i + 1) = Mul(p, f, Exp(p, f, i))
        /\ Exp(p, f, i) \in Polys(p) /\ Exp(p, f, k) \in Polys(p)
    BY <2>1, ExpIs
  <2>3. Mul(p, Mul(p, f, Exp(p, f, i)), Exp(p, f, k)) = Mul(p, f, Mul(p, Exp(p, f, i), Exp(p, f, k)))
    BY <2>2, MulAt
  <2> QED
    BY <2>1, <2>2, <2>3
<1>3. G = Nat
  <2> HIDE DEF G
  <2>1. G \in SUBSET Nat
    BY DEF G
  <2> QED
    BY <1>1, <1>2, <2>1, Counting
<1> QED
  BY <1>3

LEMMA ExpMultiplies ==
  ASSUME NEW p \in Nat \ {0, 1}, NEW f \in Polys(p), NEW j \in Nat, NEW k \in Nat
  PROVE  Exp(p, Exp(p, f, j), k) = Exp(p, f, j * k)
<1> DEFINE e == Exp(p, f, j)
           G == {i \in Nat : Exp(p, e, i) = Exp(p, f, j * i)}
<1>0. e \in Polys(p)
  BY ExpIs
<1> HIDE DEF e
<1>1. 0 \in G
  <2>1. j * 0 = 0
    OBVIOUS
  <2> QED
    BY <1>0, <2>1, ExpIs
<1>2. ASSUME NEW i \in G PROVE i + 1 \in G
  <2>1. i \in Nat /\ j * i \in Nat /\ i + 1 \in Nat /\ j * (i + 1) = j + j * i
    OBVIOUS
  <2>2. Exp(p, e, i + 1) = Mul(p, e, Exp(p, e, i))
    BY <1>0, <2>1, ExpIs
  <2>3. PICK m \in Nat : m = j * i
    BY <2>1
  <2>4. Exp(p, f, j + m) = Mul(p, e, Exp(p, f, m))
    BY <2>3, ExpAdds DEF e
  <2> QED
    BY <2>1, <2>2, <2>3, <2>4
<1>3. G = Nat
  <2> HIDE DEF G
  <2>1. G \in SUBSET Nat
    BY DEF G
  <2> QED
    BY <1>1, <1>2, <2>1, Counting
<1> QED
  BY <1>3 DEF e

LEMMA ExpOfProduct ==
  ASSUME NEW p \in Nat \ {0, 1}, NEW f \in Polys(p), NEW g \in Polys(p), NEW k \in Nat
  PROVE  /\ Exp(p, Mul(p, f, g), k) = Mul(p, Exp(p, f, k), Exp(p, g, k))
         /\ Exp(p, One, k) = One
<1>0. One \in Polys(p) /\ Mul(p, One, One) = One /\ Mul(p, f, g) \in Polys(p)
  BY PolySums
<1> DEFINE G == {i \in Nat : /\ Exp(p, Mul(p, f, g), i) = Mul(p, Exp(p, f, i), Exp(p, g, i))
                             /\ Exp(p, One, i) = One}
<1>1. 0 \in G
  BY <1>0, ExpIs
<1>2. ASSUME NEW i \in G PROVE i + 1 \in G
  <2>1. i \in Nat /\ i + 1 \in Nat
    OBVIOUS
  <2>2. Exp(p, One, i + 1) = One
    BY <1>0, <2>1, ExpIs
  <2>3. PICK x \in Polys(p), y \in Polys(p) : x = Exp(p, f, i) /\ y = Exp(p, g, i)
    BY <2>1, ExpIs
  <2>4. Exp(p, Mul(p, f, g), i + 1) = Mul(p, Mul(p, f, g), Mul(p, x, y))
    BY <1>0, <2>1, <2>3, ExpIs
  <2>5. Exp(p, f, i + 1) = Mul(p, f, x) /\ Exp(p, g, i + 1) = Mul(p, g, y)
    BY <2>1, <2>3, ExpIs
  <2>6. Mul(p, x, y) \in Polys(p) /\ Mul(p, g, y) \in Polys(p)
    BY MulAt
  <2>7. Mul(p, Mul(p, f, g), Mul(p, x, y)) = Mul(p, f, Mul(p, g, Mul(p, x, y)))
    BY <2>6, MulAt
  <2>8. Mul(p, g, Mul(p, x, y)) = Mul(p, x, Mul(p, g, y))
    BY MulAt
  <2>9. Mul(p, Mul(p, f, x), Mul(p, g, y)) = Mul(p, f, Mul(p, x, Mul(p, g, y)))
    BY <2>6, MulAt
  <2> QED
    BY <2>1, <2>2, <2>4, <2>5, <2>7, <2>8, <2>9
<1>3. G = Nat
  <2> HIDE DEF G
  <2>1. G \in SUBSET Nat
    BY DEF G
  <2> QED
    BY <1>1, <1>2, <2>1, Counting
<1> QED
  BY <1>3

LEMMA SameExp ==
  ASSUME NEW p \in Nat \ {0, 1}, NEW g \in Polys(p), NEW a \in Polys(p), NEW b \in Polys(p),
         Same(p, g, a, b), NEW k \in Nat
  PROVE  Same(p, g, Exp(p, a, k), Exp(p, b, k))
<1> DEFINE G == {i \in Nat : Same(p, g, Exp(p, a, i), Exp(p, b, i))}
<1>1. 0 \in G
  <2>1. One \in Polys(p)
    BY PolySums
  <2> QED
    BY <2>1, ExpIs, SameIs
<1>2. ASSUME NEW i \in G PROVE i + 1 \in G
  <2>1. i \in Nat /\ i + 1 \in Nat
    OBVIOUS
  <2>2. PICK x \in Polys(p), y \in Polys(p) : x = Exp(p, a, i) /\ y = Exp(p, b, i)
    BY <2>1, ExpIs
  <2>3. Exp(p, a, i + 1) = Mul(p, a, x) /\ Exp(p, b, i + 1) = Mul(p, b, y)
    BY <2>1, <2>2, ExpIs
  <2>4. Same(p, g, x, y)
    BY <2>2
  <2>5. Same(p, g, Mul(p, a, x), Mul(p, b, y))
    BY <2>4, SameProducts
  <2> QED
    BY <2>1, <2>3, <2>5
<1>3. G = Nat
  <2> HIDE DEF G
  <2>1. G \in SUBSET Nat
    BY DEF G
  <2> QED
    BY <1>1, <1>2, <2>1, Counting
<1> QED
  BY <1>3

-----------------------------------------------------------------------------
(* The elements of a quotient are a commutative ring                       *)

\* Polynomials have the same remainder if they differ by a multiple of F.poly.
LEMMA ReducesSame ==
  ASSUME NEW F, Quotient(F), NEW x \in Polys(F.p), NEW y \in Polys(F.p)
  PROVE  FromPoly(F, x) = FromPoly(F, y) <=> Same(F.p, F.poly, x, y)
BY QuotientHas, RemSame DEF FromPoly, Quotient

\* The remainder of a product depends on those of its factors.
LEMMA ReduceProduct ==
  ASSUME NEW F, Quotient(F), NEW x \in Polys(F.p), NEW y \in Polys(F.p)
  PROVE  /\ FromPoly(F, Mul(F.p, x, y)) = Times(F, FromPoly(F, x), FromPoly(F, y))
         /\ FromPoly(F, Add(F.p, x, y)) = Add(F.p, FromPoly(F, x), FromPoly(F, y))
<1>1. F.p \in Nat \ {0, 1} /\ F.p \in Nat \ {0} /\ F.poly \in Polys(F.p)
      /\ Elements(F) \subseteq Polys(F.p)
  BY QuotientHas
<1>2. PICK u \in Elements(F), v \in Elements(F) :
        /\ u = FromPoly(F, x) /\ v = FromPoly(F, y)
        /\ Same(F.p, F.poly, x, u) /\ Same(F.p, F.poly, y, v)
  BY Reduced
<1>3. u \in Polys(F.p) /\ v \in Polys(F.p)
  BY <1>1
<1>4. Same(F.p, F.poly, Mul(F.p, x, y), Mul(F.p, u, v))
      /\ Same(F.p, F.poly, Add(F.p, x, y), Add(F.p, u, v))
  BY <1>1, <1>2, <1>3, SameProducts, SameSums
<1>5. /\ Mul(F.p, x, y) \in Polys(F.p) /\ Mul(F.p, u, v) \in Polys(F.p)
      /\ Add(F.p, x, y) \in Polys(F.p) /\ Add(F.p, u, v) \in Polys(F.p)
  BY <1>1, <1>3, PolySums
<1>6. /\ FromPoly(F, Mul(F.p, x, y)) = FromPoly(F, Mul(F.p, u, v))
      /\ FromPoly(F, Add(F.p, x, y)) = FromPoly(F, Add(F.p, u, v))
  BY <1>4, <1>5, ReducesSame
<1>7. FromPoly(F, Add(F.p, u, v)) = Add(F.p, u, v)
  BY SumsReduced DEF Plus
<1> QED
  BY <1>2, <1>6, <1>7 DEF Times

LEMMA OneIsElement ==
  ASSUME NEW F, Quotient(F)
  PROVE  /\ One \in Elements(F) /\ One # Zero /\ OneOf(F) = One
         /\ FromPoly(F, One) = One /\ FromPoly(F, Zero) = Zero
<1>1. F.p \in Nat \ {0, 1} /\ F.p \in Nat \ {0} /\ F.n \in Nat \ {0} /\ Zero \in Elements(F)
      /\ Elements(F) \subseteq Polys(F.p)
  BY QuotientHas
<1>2. One \in Polys(F.p)
  BY <1>1, PolySums
<1>3. DOMAIN One = {0}
  BY DEF One, Monomial
<1>4. One \in Elements(F)
  BY <1>1, <1>2, <1>3 DEF Elements, Below
<1>5. One # Zero
  BY <1>1, <1>3, ZeroIs
<1>6. FromPoly(F, One) = One /\ FromPoly(F, Zero) = Zero
  BY <1>1, <1>2, <1>4, Reduced
<1> QED
  BY <1>4, <1>5, <1>6 DEF OneOf, One

LEMMA TimesLaws ==
  ASSUME NEW F, Quotient(F), NEW a \in Elements(F), NEW b \in Elements(F), NEW c \in Elements(F)
  PROVE  /\ Times(F, a, b) \in Elements(F) /\ Times(F, a, b) = Times(F, b, a)
         /\ Times(F, Times(F, a, b), c) = Times(F, a, Times(F, b, c))
         /\ Times(F, a, Add(F.p, b, c)) = Add(F.p, Times(F, a, b), Times(F, a, c))
         /\ Times(F, Add(F.p, b, c), a) = Add(F.p, Times(F, b, a), Times(F, c, a))
         /\ Times(F, One, a) = a /\ Times(F, a, One) = a
         /\ Times(F, Zero, a) = Zero /\ Times(F, a, Zero) = Zero
<1>1. F.p \in Nat \ {0, 1} /\ F.p \in Nat \ {0} /\ F.poly \in Polys(F.p)
      /\ Elements(F) \subseteq Polys(F.p) /\ Zero \in Elements(F)
  BY QuotientHas
<1>2. a \in Polys(F.p) /\ b \in Polys(F.p) /\ c \in Polys(F.p)
  BY <1>1
<1>3. /\ Mul(F.p, a, b) \in Polys(F.p) /\ Mul(F.p, b, c) \in Polys(F.p) /\ Mul(F.p, a, c) \in Polys(F.p)
      /\ Add(F.p, b, c) \in Polys(F.p)
      /\ Mul(F.p, a, b) = Mul(F.p, b, a) /\ Mul(F.p, a, c) = Mul(F.p, c, a)
      /\ Mul(F.p, a, One) = a /\ Mul(F.p, One, a) = a
      /\ Mul(F.p, a, Zero) = Zero /\ Mul(F.p, Zero, a) = Zero
  BY <1>1, <1>2, PolySums
<1>4. /\ FromPoly(F, a) = a /\ FromPoly(F, b) = b /\ FromPoly(F, c) = c
      /\ FromPoly(F, Zero) = Zero
  BY <1>1, <1>2, Reduced
<1>5. Times(F, a, b) \in Elements(F) /\ Times(F, a, b) = Times(F, b, a)
  BY <1>3, Reduced DEF Times
<1>6. Times(F, Times(F, a, b), c) = Times(F, a, Times(F, b, c))
  <2>1. Mul(F.p, Mul(F.p, a, b), c) = Mul(F.p, a, Mul(F.p, b, c))
    BY <1>1, <1>2, MulAt
  <2>2. FromPoly(F, Mul(F.p, Mul(F.p, a, b), c)) = Times(F, FromPoly(F, Mul(F.p, a, b)), c)
    BY <1>2, <1>3, <1>4, ReduceProduct
  <2>3. FromPoly(F, Mul(F.p, a, Mul(F.p, b, c))) = Times(F, a, FromPoly(F, Mul(F.p, b, c)))
    BY <1>2, <1>3, <1>4, ReduceProduct
  <2> QED
    BY <2>1, <2>2, <2>3 DEF Times
<1>7. Times(F, a, Add(F.p, b, c)) = Add(F.p, Times(F, a, b), Times(F, a, c))
  <2>1. Mul(F.p, a, Add(F.p, b, c)) = Add(F.p, Mul(F.p, a, b), Mul(F.p, a, c))
    BY <1>1, <1>2, PolynomialRing
  <2>2. FromPoly(F, Add(F.p, Mul(F.p, a, b), Mul(F.p, a, c)))
        = Add(F.p, FromPoly(F, Mul(F.p, a, b)), FromPoly(F, Mul(F.p, a, c)))
    BY <1>3, ReduceProduct
  <2> QED
    BY <2>1, <2>2 DEF Times
<1>8. Times(F, Add(F.p, b, c), a) = Add(F.p, Times(F, b, a), Times(F, c, a))
  <2>1. Mul(F.p, Add(F.p, b, c), a) = Mul(F.p, a, Add(F.p, b, c))
    BY <1>1, <1>2, <1>3, PolySums
  <2> QED
    BY <1>3, <1>7, <2>1 DEF Times
<1>9. /\ Times(F, One, a) = a /\ Times(F, a, One) = a
      /\ Times(F, Zero, a) = Zero /\ Times(F, a, Zero) = Zero
  BY <1>3, <1>4 DEF Times
<1> QED
  BY <1>5, <1>6, <1>7, <1>8, <1>9

\* Powers in the quotient, from the power 0 on.
PowerOf(F, a, k) == FromPoly(F, Exp(F.p, a, k))

LEMMA PowerIs ==
  ASSUME NEW F, Quotient(F), NEW a \in Elements(F), NEW k \in Nat
  PROVE  /\ PowerOf(F, a, k) \in Elements(F) /\ PowerOf(F, a, 0) = One /\ PowerOf(F, a, 1) = a
         /\ PowerOf(F, a, k + 1) = Times(F, a, PowerOf(F, a, k))
         /\ k # 0 => PowerOf(F, a, k) = Power(F, a, k)
         /\ PowerOf(F, One, k) = One
<1>1. F.p \in Nat \ {0, 1} /\ Elements(F) \subseteq Polys(F.p)
  BY QuotientHas
<1>2. a \in Polys(F.p)
  BY <1>1
<1>3. /\ Exp(F.p, a, k) \in Polys(F.p) /\ Exp(F.p, a, 0) = One /\ Exp(F.p, a, 1) = a
      /\ Exp(F.p, a, k + 1) = Mul(F.p, a, Exp(F.p, a, k))
  BY <1>1, <1>2, ExpIs
<1>4. FromPoly(F, a) = a /\ PowerOf(F, a, k) \in Elements(F)
  BY <1>2, <1>3, Reduced DEF PowerOf
<1>5. PowerOf(F, a, k + 1) = Times(F, a, PowerOf(F, a, k))
  BY <1>2, <1>3, <1>4, ReduceProduct DEF PowerOf
<1>6. FromPoly(F, One) = One
  BY OneIsElement
<1>7. Exp(F.p, One, k) = One
  BY <1>1, <1>2, ExpOfProduct
<1> QED
  BY <1>3, <1>4, <1>5, <1>6, <1>7 DEF PowerOf, Power, Exp

LEMMA PowerLaws ==
  ASSUME NEW F, Quotient(F), NEW a \in Elements(F), NEW b \in Elements(F),
         NEW j \in Nat, NEW k \in Nat
  PROVE  /\ PowerOf(F, a, j + k) = Times(F, PowerOf(F, a, j), PowerOf(F, a, k))
         /\ PowerOf(F, PowerOf(F, a, j), k) = PowerOf(F, a, j * k)
         /\ PowerOf(F, Times(F, a, b), k) = Times(F, PowerOf(F, a, k), PowerOf(F, b, k))
<1>1. F.p \in Nat \ {0, 1} /\ Elements(F) \subseteq Polys(F.p) /\ F.poly \in Polys(F.p)
  BY QuotientHas
<1>2. a \in Polys(F.p) /\ b \in Polys(F.p)
  BY <1>1
<1>3. /\ Exp(F.p, a, j) \in Polys(F.p) /\ Exp(F.p, a, k) \in Polys(F.p)
      /\ Exp(F.p, b, k) \in Polys(F.p) /\ Mul(F.p, a, b) \in Polys(F.p)
  BY <1>1, <1>2, ExpIs, PolySums
<1>4. PowerOf(F, a, j + k) = Times(F, PowerOf(F, a, j), PowerOf(F, a, k))
  <2>1. Exp(F.p, a, j + k) = Mul(F.p, Exp(F.p, a, j), Exp(F.p, a, k))
    BY <1>1, <1>2, ExpAdds
  <2> QED
    BY <1>3, <2>1, ReduceProduct DEF PowerOf
<1>5. ASSUME NEW x \in Polys(F.p) PROVE PowerOf(F, FromPoly(F, x), k) = FromPoly(F, Exp(F.p, x, k))
  <2>1. PICK y \in Elements(F) : y = FromPoly(F, x) /\ Same(F.p, F.poly, y, x)
    BY Reduced
  <2>2. y \in Polys(F.p)
    BY <1>1
  <2>3. Same(F.p, F.poly, Exp(F.p, y, k), Exp(F.p, x, k))
    BY <1>1, <2>1, <2>2, SameExp
  <2>4. Exp(F.p, y, k) \in Polys(F.p) /\ Exp(F.p, x, k) \in Polys(F.p)
    BY <1>1, <2>2, ExpIs
  <2> QED
    BY <2>1, <2>3, <2>4, ReducesSame DEF PowerOf
<1>6. PowerOf(F, PowerOf(F, a, j), k) = PowerOf(F, a, j * k)
  <2>1. Exp(F.p, Exp(F.p, a, j), k) = Exp(F.p, a, j * k)
    BY <1>1, <1>2, ExpMultiplies
  <2>2. PowerOf(F, FromPoly(F, Exp(F.p, a, j)), k) = FromPoly(F, Exp(F.p, Exp(F.p, a, j), k))
    BY <1>3, <1>5
  <2> QED
    BY <2>1, <2>2 DEF PowerOf
<1>7. PowerOf(F, Times(F, a, b), k) = Times(F, PowerOf(F, a, k), PowerOf(F, b, k))
  <2>1. PowerOf(F, Times(F, a, b), k) = FromPoly(F, Exp(F.p, Mul(F.p, a, b), k))
    BY <1>3, <1>5 DEF Times
  <2>2. Exp(F.p, Mul(F.p, a, b), k) = Mul(F.p, Exp(F.p, a, k), Exp(F.p, b, k))
    BY <1>1, <1>2, ExpOfProduct
  <2> QED
    BY <1>3, <2>1, <2>2, ReduceProduct DEF PowerOf
<1> QED
  BY <1>4, <1>6, <1>7

-----------------------------------------------------------------------------
(* Quotients without zero divisors                                         *)

Domain(F) ==
  /\ Quotient(F)
  /\ \A a, b \in Elements(F) : Times(F, a, b) = Zero => a = Zero \/ b = Zero

Units(F) == Elements(F) \ {Zero}

LEMMA Cancels ==
  ASSUME NEW F, Domain(F), NEW a \in Units(F), NEW b \in Elements(F), NEW c \in Elements(F)
  PROVE  /\ Times(F, a, b) = Times(F, a, c) => b = c
         /\ b # Zero => Times(F, a, b) \in Units(F)
<1>1. Quotient(F) /\ \A x, y \in Elements(F) : Times(F, x, y) = Zero => x = Zero \/ y = Zero
  BY DEF Domain
<1>2. F.p \in Nat \ {0, 1} /\ F.p \in Nat \ {0} /\ Elements(F) \subseteq Polys(F.p)
  BY <1>1, QuotientHas
<1>3. a \in Elements(F) /\ a # Zero
  BY DEF Units
<1>4. ASSUME Times(F, a, b) = Times(F, a, c) PROVE b = c
  <2>1. PICK d \in Elements(F) : d = Sub(F.p, b, c)
    BY <1>1, SumsReduced
  <2>2. b = Add(F.p, d, c)
    BY <1>2, <2>1, SubIsUnique
  <2>3. PICK x \in Elements(F), y \in Elements(F) : x = Times(F, a, d) /\ y = Times(F, a, c)
    BY <1>1, <1>3, TimesLaws
  <2>4. y = Add(F.p, x, y)
    BY <1>1, <1>3, <1>4, <2>2, <2>3, TimesLaws
  <2>5. x = Sub(F.p, y, y)
    BY <1>2, <2>4, SubIsUnique
  <2>6. x = Zero
    BY <1>2, <2>5, PolynomialRing
  <2>7. d = Zero
    BY <1>1, <1>3, <2>3, <2>6
  <2>8. Add(F.p, Zero, c) = c
    BY <1>2, PolySums
  <2> QED
    BY <2>2, <2>7, <2>8
<1>5. Times(F, a, b) \in Elements(F)
  BY <1>1, <1>3, TimesLaws
<1>6. b # Zero => Times(F, a, b) # Zero
  BY <1>1, <1>3
<1> QED
  BY <1>4, <1>5, <1>6 DEF Units

LEMMA UnitPowers ==
  ASSUME NEW F, Domain(F), NEW a \in Units(F), NEW k \in Nat
  PROVE  PowerOf(F, a, k) \in Units(F) /\ One \in Units(F)
<1>0. Quotient(F) /\ a \in Elements(F)
  BY DEF Domain, Units
<1>1. One \in Units(F)
  BY <1>0, OneIsElement DEF Units
<1> DEFINE G == {i \in Nat : PowerOf(F, a, i) \in Units(F)}
<1>2. 0 \in G
  BY <1>0, <1>1, PowerIs
<1>3. ASSUME NEW i \in G PROVE i + 1 \in G
  <2>1. PowerOf(F, a, i + 1) = Times(F, a, PowerOf(F, a, i))
    BY <1>0, PowerIs
  <2>2. PowerOf(F, a, i) \in Elements(F) /\ PowerOf(F, a, i) # Zero
    BY DEF Units
  <2>3. Times(F, a, PowerOf(F, a, i)) \in Units(F)
    BY <2>2, Cancels
  <2> QED
    BY <2>1, <2>3
<1>4. G = Nat
  <2> HIDE DEF G
  <2>1. G \in SUBSET Nat
    BY DEF G
  <2> QED
    BY <1>2, <1>3, <2>1, Counting
<1> QED
  BY <1>1, <1>4

LEMMA HowMany ==
  ASSUME NEW F, Quotient(F)
  PROVE  /\ IsFiniteSet(Elements(F)) /\ Cardinality(Elements(F)) = F.size
         /\ IsFiniteSet(Units(F)) /\ Cardinality(Units(F)) = F.size - 1
<1> DEFINE S == 0 .. F.size - 1
           b == [m \in S |-> Element(F, m)]
<1>1. F.size \in Nat \ {0, 1} /\ Zero \in Elements(F)
  BY QuotientHas
<1>2. /\ \A m \in S : Element(F, m) \in Elements(F) /\ AsInt(F, Element(F, m)) = m
      /\ \A a \in Elements(F) : AsInt(F, a) \in S /\ Element(F, AsInt(F, a)) = a
  BY ElementsAre DEF SymbolsOf
<1>3. IsFiniteSet(S) /\ Cardinality(S) = F.size
  <2>1. PICK q \in Nat \ {0, 1} : q = F.size
    BY <1>1
  <2>2. IsFiniteSet(0 .. q - 1) /\ Cardinality(0 .. q - 1) = IF 0 > q - 1 THEN 0 ELSE (q - 1) - 0 + 1
    BY FS_Interval
  <2> QED
    BY <2>1, <2>2
<1> HIDE DEF S
<1>4. b \in Bijection(S, Elements(F))
  BY <1>2 DEF Bijection, Injection, Surjection, IsInjective
<1>5. IsFiniteSet(Elements(F)) /\ Cardinality(Elements(F)) = Cardinality(S)
  <2> HIDE DEF b
  <2>1. ExistsBijection(S, Elements(F))
    BY <1>4 DEF ExistsBijection
  <2> QED
    BY <1>3, <2>1, FS_Bijection
<1>6. /\ IsFiniteSet(Elements(F) \ {Zero})
      /\ Cardinality(Elements(F) \ {Zero}) = Cardinality(Elements(F)) - 1
  BY <1>1, <1>5, FS_RemoveElement
<1> QED
  BY <1>3, <1>5, <1>6 DEF Units

\* Among the first powers of an element one is repeated, so one is 1.
LEMMA PowerReturns ==
  ASSUME NEW F, Domain(F), NEW a \in Units(F)
  PROVE  \E k \in 1 .. F.size - 1 : PowerOf(F, a, k) = One
<1>0. Quotient(F) /\ a \in Elements(F)
  BY DEF Domain, Units
<1>1. PICK q \in Nat \ {0, 1} : q = F.size
  BY <1>0, QuotientHas
<1> DEFINE S == 0 .. q - 1
           f == [i \in S |-> PowerOf(F, a, i)]
<1>2. IsFiniteSet(S) /\ Cardinality(S) = q
  <2>1. IsFiniteSet(0 .. q - 1) /\ Cardinality(0 .. q - 1) = IF 0 > q - 1 THEN 0 ELSE (q - 1) - 0 + 1
    BY FS_Interval
  <2> QED
    BY <2>1
<1>3. IsFiniteSet(Units(F)) /\ Cardinality(Units(F)) = q - 1
  BY <1>0, <1>1, HowMany
<1>4. f \in [S -> Units(F)]
  BY UnitPowers
<1>5. Cardinality(Units(F)) < Cardinality(S)
  BY <1>2, <1>3
<1>6. \E x, y \in S : x # y /\ f[x] = f[y]
  <2> HIDE DEF f, S
  <2> QED
    BY <1>2, <1>3, <1>4, <1>5, FS_PigeonHole
<1>7. PICK i \in S, j \in S : i < j /\ PowerOf(F, a, i) = PowerOf(F, a, j)
  BY <1>6
<1>8. PICK k \in 1 .. q - 1 : j = i + k
  BY <1>7
<1>9. k \in Nat /\ i \in Nat
  OBVIOUS
<1>10. Times(F, PowerOf(F, a, i), PowerOf(F, a, k)) = Times(F, PowerOf(F, a, i), One)
  <2>1. PowerOf(F, a, i + k) = Times(F, PowerOf(F, a, i), PowerOf(F, a, k))
    BY <1>0, <1>9, PowerLaws
  <2>2. PowerOf(F, a, i) \in Elements(F)
    BY <1>0, <1>9, PowerIs
  <2>3. Times(F, PowerOf(F, a, i), One) = PowerOf(F, a, i)
    BY <1>0, <2>2, TimesLaws
  <2> QED
    BY <1>7, <1>8, <2>1, <2>3
<1>11. PowerOf(F, a, i) \in Units(F) /\ PowerOf(F, a, k) \in Elements(F) /\ One \in Elements(F)
  BY <1>9, UnitPowers DEF Units
<1>12. PowerOf(F, a, k) = One
  BY <1>10, <1>11, Cancels
<1> QED
  BY <1>1, <1>12

-----------------------------------------------------------------------------
(* Orders                                                                  *)

\* A set of numbers that is closed under differences consists of the multiples of one.
LEMMA GapsRepeat ==
  ASSUME NEW S \in SUBSET Nat, \A i \in S, j \in Nat : i + j \in S <=> j \in S,
         NEW d \in S \ {0}
  PROVE  \E e \in S \ {0} : \A j \in Nat : j \in S <=> Divides(e, j)
<1>1. PICK e \in S \ {0} : \A i \in S \ {0} : e <= i
  <2>1. S \ {0} \in SUBSET Nat /\ S \ {0} # {}
    OBVIOUS
  <2> QED
    BY <2>1, LeastNumber
<1>2. e \in Nat \ {0} /\ e \in S
  OBVIOUS
<1> DEFINE G == {q \in Nat : \A r \in Nat : e * q + r \in S <=> r \in S}
<1>3. 0 \in G
  OBVIOUS
<1>4. ASSUME NEW q \in G PROVE q + 1 \in G
  <2> SUFFICES ASSUME NEW r \in Nat PROVE e * (q + 1) + r \in S <=> r \in S
    OBVIOUS
  <2>1. PICK v \in Nat : v = e * q
    BY <1>2
  <2>2. e * (q + 1) + r = e + (v + r)
    BY <1>2, <2>1
  <2>3. v + r \in S <=> r \in S
    BY <2>1
  <2>4. e + (v + r) \in S <=> v + r \in S
    BY <1>2
  <2> QED
    BY <2>2, <2>3, <2>4
<1>5. G = Nat
  <2> HIDE DEF G
  <2>1. G \in SUBSET Nat
    BY DEF G
  <2> QED
    BY <1>3, <1>4, <2>1, Counting
<1>6. ASSUME NEW j \in Nat PROVE j \in S <=> Divides(e, j)
  <2>1. PICK q \in Nat, r \in 0 .. e - 1 : j = e * q + r
    <3>1. /\ j \div e \in Nat /\ j % e \in 0 .. e - 1 /\ j = e * (j \div e) + (j % e)
      BY <1>2, QuotientIs
    <3>2. PICK q \in Nat : q = j \div e
      BY <3>1
    <3>3. PICK r \in 0 .. e - 1 : r = j % e
      BY <3>1
    <3> QED
      BY <3>1, <3>2, <3>3
  <2>2. r \in Nat
    BY <1>2
  <2>3. j \in S <=> r \in S
    BY <1>5, <2>1, <2>2
  <2>4. r \in S <=> r = 0
    <3>1. r \in S => r = 0
      <4> SUFFICES ASSUME r \in S, r # 0 PROVE FALSE
        OBVIOUS
      <4>1. e <= r
        BY <1>1
      <4> QED
        BY <1>2, <2>1, <4>1
    <3>2. 0 \in S
      <4>1. e + 0 \in S <=> 0 \in S
        BY <1>2
      <4> QED
        BY <1>2, <4>1
    <3> QED
      BY <3>1, <3>2
  <2>split. PICK v \in Nat : v = q * e /\ j = v + r
    BY <1>2, <2>1
  <2>5. r = 0 => Divides(e, j)
    <3>1. r = 0 => j = q * e
      BY <2>split
    <3>2. q \in Int
      OBVIOUS
    <3> QED
      BY <3>1, <3>2 DEF Divides
  <2>6. Divides(e, j) => r = 0
    <3> SUFFICES ASSUME Divides(e, j) PROVE r = 0
      OBVIOUS
    <3>1. PICK z \in Int : j = z * e
      BY DEF Divides
    <3>2. PICK y \in Int : y = z - q
      OBVIOUS
    <3>3. y * e = r
      <4>1. (z - q) * e = z * e - q * e
        BY <1>2
      <4>2. y * e = j - v
        BY <2>split, <3>1, <3>2, <4>1
      <4>3. j - v = r
        BY <2>1, <2>split
      <4> QED
        BY <4>2, <4>3
    <3>4. y = 0
      <4>1. - e < r /\ r < e
        BY <1>2, <2>1
      <4>2. - e < y * e /\ y * e < e
        BY <3>3, <4>1
      <4> QED
        BY <1>2, <4>2, SmallMultiple
    <3>5. 0 * e = 0
      BY <1>2
    <3> QED
      BY <3>3, <3>4, <3>5
  <2> QED
    BY <2>3, <2>4, <2>5, <2>6
<1> QED
  BY <1>6

\* The powers of a that are 1 are those of the multiples of k.
HasOrder(F, a, k) ==
  k \in Nat \ {0} /\ \A i \in Nat : PowerOf(F, a, i) = One <=> Divides(k, i)

LEMMA OrderExists ==
  ASSUME NEW F, Domain(F), NEW a \in Units(F)
  PROVE  \E k \in 1 .. F.size - 1 : HasOrder(F, a, k)
<1>0. Quotient(F) /\ a \in Elements(F) /\ F.size \in Nat
  BY QuotientHas DEF Domain, Units
<1> DEFINE K == {k \in Nat : PowerOf(F, a, k) = One}
<1>1. PICK j \in 1 .. F.size - 1 : PowerOf(F, a, j) = One
  BY PowerReturns
<1>2. j \in K \ {0}
  BY <1>0, <1>1
<1>3. ASSUME NEW i \in K, NEW n \in Nat PROVE i + n \in K <=> n \in K
  <2>1. PowerOf(F, a, i + n) = Times(F, PowerOf(F, a, i), PowerOf(F, a, n))
    BY <1>0, PowerLaws
  <2>2. PICK x \in Elements(F) : x = PowerOf(F, a, n)
    BY <1>0, PowerIs
  <2>3. Times(F, One, x) = x
    BY <1>0, TimesLaws
  <2> QED
    BY <2>1, <2>2, <2>3
<1>4. K \in SUBSET Nat
  OBVIOUS
<1>5. PICK k \in K \ {0} : \A n \in Nat : n \in K <=> Divides(k, n)
  <2> HIDE DEF K
  <2> QED
    BY <1>2, <1>3, <1>4, GapsRepeat
<1>6. HasOrder(F, a, k) /\ k \in Nat \ {0}
  BY <1>5 DEF HasOrder
<1>7. k \in 1 .. j
  <2>1. Divides(k, j) /\ j \in Nat \ {0}
    BY <1>0, <1>2, <1>5
  <2> QED
    BY <1>6, <2>1, DivisorBelow
<1> QED
  BY <1>0, <1>6, <1>7

-----------------------------------------------------------------------------
(* Numbers without a common divisor                                        *)

Coprime(a, b) == \E x, y \in Int : x * a + y * b = 1

LEMMA CommonPrime ==
  ASSUME NEW a \in Nat \ {0}, NEW b \in Nat
  PROVE  \/ Coprime(a, b)
         \/ \E q \in Nat \ {0, 1} : IsPrime(q) /\ Divides(q, a) /\ Divides(q, b)
<1>1. PICK x \in Int, y \in Int, g \in Nat :
        /\ x * a + y * b = g /\ Divides(g, a) /\ Divides(g, b)
  <2>1. /\ Egcd(a, b)[1] \in Int /\ Egcd(a, b)[2] \in Int /\ Egcd(a, b)[3] \in Nat
        /\ Egcd(a, b)[1] * a + Egcd(a, b)[2] * b = Egcd(a, b)[3]
        /\ Divides(Egcd(a, b)[3], a) /\ Divides(Egcd(a, b)[3], b)
    BY EgcdExact
  <2> QED
    BY <2>1
<1>2. g # 0
  <2> SUFFICES ASSUME g = 0 PROVE FALSE
    OBVIOUS
  <2>1. PICK k \in Int : a = k * 0
    BY <1>1 DEF Divides
  <2> QED
    BY <2>1
<1>3. CASE g = 1
  BY <1>1, <1>3 DEF Coprime
<1>4. CASE g # 1
  <2>1. g \in Nat \ {0, 1} /\ g \in 2 .. g /\ Divides(g, g)
    BY <1>2, <1>4 DEF Divides
  <2>2. PICK q \in PrimeFactors(g) : Divides(q, g) /\ q \in 2 .. g /\ IsPrime(q)
    BY <2>1, PrimeFactorsAre
  <2>3. q \in Nat \ {0, 1} /\ q \in Int
    BY <2>2
  <2>4. Divides(q, a) /\ Divides(q, b)
    BY <1>1, <2>2, <2>3, DividesChain
  <2> QED
    BY <2>2, <2>3, <2>4
<1> QED
  BY <1>3, <1>4

LEMMA PrimesCoprime ==
  ASSUME NEW q \in Nat \ {0, 1}, IsPrime(q), NEW r \in Nat \ {0, 1}, IsPrime(r), q # r
  PROVE  Coprime(q, r)
<1>1. \A d \in Nat \ {0, 1} : ~ (Divides(d, q) /\ Divides(d, r))
  <2> SUFFICES ASSUME NEW d \in Nat \ {0, 1}, Divides(d, q), Divides(d, r) PROVE FALSE
    OBVIOUS
  <2>1. (d = 1 \/ d = q) /\ (d = 1 \/ d = r)
    BY PrimeHasNoDivisor
  <2> QED
    BY <2>1
<1> QED
  BY <1>1, CommonPrime

\* What divides a product and has no common divisor with one factor divides the other.
LEMMA CoprimeDivides ==
  ASSUME NEW u \in Int, NEW t \in Int, Coprime(u, t), NEW j \in Int
  PROVE  /\ Divides(t, j * u) => Divides(t, j)
         /\ Divides(u, j * t) => Divides(u, j)
         /\ Divides(u, j) /\ Divides(t, j) => Divides(u * t, j)
<1>1. PICK x \in Int, y \in Int : x * u + y * t = 1
  BY DEF Coprime
<1>2. j = x * (j * u) + y * (j * t)
  <2>1. j * (x * u + y * t) = x * (j * u) + y * (j * t)
    OBVIOUS
  <2> QED
    BY <1>1, <2>1
<1>3. ASSUME Divides(t, j * u) PROVE Divides(t, j)
  <2>1. PICK k \in Int : j * u = k * t
    BY <1>3 DEF Divides
  <2>2. j = x * (k * t) + y * (j * t)
    BY <1>2, <2>1
  <2>3. x * (k * t) + y * (j * t) = (x * k + y * j) * t
    OBVIOUS
  <2>4. x * k + y * j \in Int
    OBVIOUS
  <2> QED
    BY <2>2, <2>3, <2>4 DEF Divides
<1>4. ASSUME Divides(u, j * t) PROVE Divides(u, j)
  <2>1. PICK k \in Int : j * t = k * u
    BY <1>4 DEF Divides
  <2>2. j = x * (j * u) + y * (k * u)
    BY <1>2, <2>1
  <2>3. x * (j * u) + y * (k * u) = (x * j + y * k) * u
    OBVIOUS
  <2>4. x * j + y * k \in Int
    OBVIOUS
  <2> QED
    BY <2>2, <2>3, <2>4 DEF Divides
<1>5. ASSUME Divides(u, j), Divides(t, j) PROVE Divides(u * t, j)
  <2>1. PICK k \in Int, l \in Int : j = k * u /\ j = l * t
    BY <1>5 DEF Divides
  <2>2. x * (j * u) = (x * l) * (u * t)
    <3>1. j * u = (l * t) * u
      BY <2>1
    <3>2. x * ((l * t) * u) = (x * l) * (u * t)
      OBVIOUS
    <3> QED
      BY <3>1, <3>2
  <2>3. y * (j * t) = (y * k) * (u * t)
    <3>1. j * t = (k * u) * t
      BY <2>1
    <3>2. y * ((k * u) * t) = (y * k) * (u * t)
      OBVIOUS
    <3> QED
      BY <3>1, <3>2
  <2>4. j = (x * l + y * k) * (u * t)
    <3>1. (x * l + y * k) * (u * t) = (x * l) * (u * t) + (y * k) * (u * t)
      OBVIOUS
    <3> QED
      BY <1>2, <2>2, <2>3, <3>1
  <2>5. x * l + y * k \in Int
    OBVIOUS
  <2> QED
    BY <2>4, <2>5 DEF Divides
<1> QED
  BY <1>3, <1>4, <1>5

\* k has a divisor t = r * s of which s divides m, and t has no divisor in common
\* with m / s.
Parts(m, k, r, s, t, u, w) ==
  r > 1 /\ t = r * s /\ m = u * s /\ k = w * t /\ Coprime(u, t)

LEMMA PartOfOrder ==
  ASSUME NEW m \in Nat \ {0}, NEW k \in Nat \ {0}, ~ Divides(k, m)
  PROVE  \E r, s, t, u, w \in Nat \ {0} : Parts(m, k, r, s, t, u, w)
<1> DEFINE T == {t \in Nat \ {0} : Divides(t, k) /\ ~ Divides(t, m)}
<1>1. PICK t \in T : \A v \in T : t <= v
  <2>1. k \in T
    <3>1. k = 1 * k
      OBVIOUS
    <3> QED
      BY <3>1 DEF Divides
  <2>2. T \in SUBSET Nat /\ T # {}
    BY <2>1
  <2> HIDE DEF T
  <2> QED
    BY <2>2, LeastNumber
<1>2. t \in Nat \ {0} /\ Divides(t, k) /\ ~ Divides(t, m)
  BY <1>1
<1>3. t # 1
  <2>1. m = m * 1
    OBVIOUS
  <2> QED
    BY <1>2, <2>1 DEF Divides
\* A prime divisor of t leaves a smaller divisor of k, which divides m.
<1>4. ASSUME NEW q \in Nat \ {0, 1}, Divides(q, t)
      PROVE  \E v \in Nat \ {0} : t = q * v /\ Divides(v, m)
  <2>1. PICK v \in 1 .. t : t = v * q
    BY <1>2, <1>4, DivisorBelow
  <2>2. v \in Nat \ {0} /\ v < t
    <3>1. v * q > v * 1
      BY <2>1
    <3> QED
      BY <2>1, <3>1
  <2>3. Divides(v, t)
    <3>1. t = q * v
      BY <2>1, <2>2
    <3> QED
      BY <3>1 DEF Divides
  <2>4. Divides(v, k)
    BY <1>2, <2>2, <2>3, DividesChain
  <2>5. Divides(v, m)
    BY <1>1, <2>2, <2>4
  <2>6. t = q * v
    BY <2>1, <2>2
  <2> QED
    BY <2>2, <2>5, <2>6
<1>5. PICK r \in Nat \ {0, 1} : IsPrime(r) /\ Divides(r, t)
  <2>1. t \in Nat \ {0, 1} /\ t \in 2 .. t /\ Divides(t, t)
    BY <1>2, <1>3 DEF Divides
  <2>2. PICK r \in PrimeFactors(t) : Divides(r, t) /\ r \in 2 .. t /\ IsPrime(r)
    BY <2>1, PrimeFactorsAre
  <2> QED
    BY <2>2
<1>6. PICK s \in Nat \ {0} : t = r * s /\ Divides(s, m)
  BY <1>4, <1>5
<1>7. PICK u \in 1 .. m : m = u * s
  BY <1>6, DivisorBelow
<1>8. PICK w \in 1 .. k : k = w * t
  BY <1>2, DivisorBelow
<1>9. u \in Nat \ {0} /\ w \in Nat \ {0}
  BY <1>7, <1>8
<1>10. ~ Divides(r, u)
  <2> SUFFICES ASSUME Divides(r, u) PROVE FALSE
    OBVIOUS
  <2>1. PICK v \in Int : u = v * r
    BY DEF Divides
  <2>2. m = (v * r) * s
    BY <1>7, <2>1
  <2>3. (v * r) * s = v * (r * s)
    OBVIOUS
  <2>4. m = v * t
    BY <1>6, <2>2, <2>3
  <2> QED
    BY <1>2, <2>4 DEF Divides
<1>11. ASSUME NEW q \in Nat \ {0, 1}, IsPrime(q), Divides(q, u), Divides(q, t)
       PROVE  FALSE
  <2>1. q # r
    BY <1>10, <1>11
  <2>2. PICK x \in Int, y \in Int : x * q + y * r = 1
    BY <1>5, <1>11, <2>1, PrimesCoprime DEF Coprime
  <2>3. PICK v \in Nat \ {0} : t = q * v /\ Divides(v, m)
    BY <1>4, <1>11
  <2>4. PICK z \in Int : m = z * v
    BY <2>3 DEF Divides
  <2>5. q * m = z * t
    <3>1. q * (z * v) = z * (q * v)
      OBVIOUS
    <3> QED
      BY <2>3, <2>4, <3>1
  <2>6. r * m = u * t
    <3>1. r * (u * s) = u * (r * s)
      BY <1>9
    <3> QED
      BY <1>6, <1>7, <3>1
  <2>7. m = x * (q * m) + y * (r * m)
    <3>1. m * (x * q + y * r) = x * (q * m) + y * (r * m)
      OBVIOUS
    <3> QED
      BY <2>2, <3>1
  <2>8. x * (z * t) + y * (u * t) = (x * z + y * u) * t
    BY <1>2, <1>9
  <2>9. m = (x * z + y * u) * t
    BY <2>5, <2>6, <2>7, <2>8
  <2>10. x * z + y * u \in Int
    BY <1>9
  <2> QED
    BY <1>2, <2>9, <2>10 DEF Divides
<1>12. Coprime(u, t)
  BY <1>2, <1>9, <1>11, CommonPrime
<1>13. Parts(m, k, r, s, t, u, w)
  BY <1>5, <1>6, <1>7, <1>8, <1>12 DEF Parts
<1>14. r \in Nat \ {0}
  OBVIOUS
<1> HIDE DEF T
<1> QED
  BY <1>2, <1>9, <1>13, <1>14

-----------------------------------------------------------------------------
(* The highest order                                                       *)

\* Elements whose orders do not divide one another make one of a higher order.
LEMMA OrdersJoin ==
  ASSUME NEW F, Domain(F), NEW a \in Units(F), NEW b \in Units(F),
         NEW m, HasOrder(F, a, m), NEW k, HasOrder(F, b, k), ~ Divides(k, m)
  PROVE  \E c \in Units(F), n \in 1 .. F.size - 1 : HasOrder(F, c, n) /\ n > m
<1>0. Quotient(F) /\ a \in Elements(F) /\ b \in Elements(F) /\ m \in Nat \ {0} /\ k \in Nat \ {0}
  BY DEF Domain, Units, HasOrder
<1>parts. PICK r \in Nat \ {0}, s \in Nat \ {0}, t \in Nat \ {0}, u \in Nat \ {0}, w \in Nat \ {0} :
           Parts(m, k, r, s, t, u, w)
  BY <1>0, PartOfOrder
<1>1. r > 1 /\ t = r * s /\ m = u * s /\ k = w * t /\ Coprime(u, t)
  BY <1>parts DEF Parts
<1>2. PICK x \in Units(F), y \in Units(F) : x = PowerOf(F, a, s) /\ y = PowerOf(F, b, w)
  BY UnitPowers
<1>3. x \in Elements(F) /\ y \in Elements(F)
  BY DEF Units
<1>4. PICK c \in Units(F) : c = Times(F, x, y)
  BY <1>3, Cancels DEF Units
<1>5. PICK n \in 1 .. F.size - 1 : HasOrder(F, c, n)
  BY OrderExists
<1>6. F.size \in Nat /\ n \in Nat \ {0} /\ PowerOf(F, c, n) = One
  <2>1. F.size \in Nat
    BY <1>0, QuotientHas
  <2>2. n \in Nat \ {0}
    BY <2>1
  <2>3. n = 1 * n
    BY <2>2
  <2> QED
    BY <1>5, <2>1, <2>2, <2>3 DEF HasOrder, Divides
<1>7. ASSUME NEW e \in Nat
      PROVE  /\ Times(F, PowerOf(F, a, s * (n * e)), PowerOf(F, b, w * (n * e))) = One
             /\ PowerOf(F, a, s * (n * e)) \in Elements(F) /\ PowerOf(F, b, w * (n * e)) \in Elements(F)
  <2>1. PICK i \in Nat : i = n * e
    BY <1>6
  <2>2. PowerOf(F, PowerOf(F, c, n), e) = PowerOf(F, c, n * e)
    BY <1>0, <1>4, <1>6, PowerLaws DEF Units
  <2>3. PowerOf(F, One, e) = One
    BY <1>0, PowerIs
  <2>4. PowerOf(F, c, i) = Times(F, PowerOf(F, x, i), PowerOf(F, y, i))
    BY <1>0, <1>3, <1>4, <2>1, PowerLaws
  <2>5. PowerOf(F, x, i) = PowerOf(F, a, s * i)
    BY <1>0, <1>2, <2>1, PowerLaws
  <2>6. PowerOf(F, y, i) = PowerOf(F, b, w * i)
    BY <1>0, <1>2, <2>1, PowerLaws
  <2>7. s * i \in Nat /\ w * i \in Nat
    BY <2>1
  <2>8. PowerOf(F, a, s * i) \in Elements(F) /\ PowerOf(F, b, w * i) \in Elements(F)
    BY <1>0, <2>7, PowerIs
  <2> QED
    BY <1>6, <2>1, <2>2, <2>3, <2>4, <2>5, <2>6, <2>8
<1>8. \A z \in Elements(F) : Times(F, One, z) = z /\ Times(F, z, One) = z
  BY <1>0, TimesLaws
<1>9. Divides(t, n)
  <2>1. PICK i \in Nat, j \in Nat : i = s * (n * u) /\ j = w * (n * u)
    BY <1>6
  <2>2. PowerOf(F, a, i) = One
    <3>1. s * (n * u) = n * (u * s)
      BY <1>6
    <3>2. Divides(m, i)
      BY <1>1, <1>6, <2>1, <3>1 DEF Divides
    <3> QED
      BY <3>2 DEF HasOrder
  <2>3. PowerOf(F, b, j) = One
    BY <1>7, <1>8, <2>1, <2>2
  <2>4. PICK z \in Int : j = z * k
    BY <2>3 DEF HasOrder, Divides
  <2>5. w * (n * u) = w * (z * t)
    <3>1. z * (w * t) = w * (z * t)
      OBVIOUS
    <3> QED
      BY <1>1, <2>1, <2>4, <3>1
  <2>6. n * u = z * t
    <3>1. PICK v \in Int, v2 \in Int : v = n * u /\ v2 = z * t
      BY <1>6
    <3>2. w * v = w * v2
      BY <2>5, <3>1
    <3>3. v = v2
      BY <3>2
    <3> QED
      BY <3>1, <3>3
  <2>7. Divides(t, n * u)
    BY <2>6 DEF Divides
  <2> QED
    BY <1>1, <1>6, <2>7, CoprimeDivides
<1>10. Divides(u, n)
  <2>1. PICK i \in Nat, j \in Nat : i = s * (n * t) /\ j = w * (n * t)
    BY <1>6
  <2>2. PowerOf(F, b, j) = One
    <3>1. w * (n * t) = n * (w * t)
      BY <1>6
    <3>2. Divides(k, j)
      BY <1>1, <1>6, <2>1, <3>1 DEF Divides
    <3> QED
      BY <3>2 DEF HasOrder
  <2>3. PowerOf(F, a, i) = One
    BY <1>7, <1>8, <2>1, <2>2
  <2>4. PICK z \in Int : i = z * m
    BY <2>3 DEF HasOrder, Divides
  <2>5. s * (n * t) = s * (z * u)
    <3>1. z * (u * s) = s * (z * u)
      OBVIOUS
    <3> QED
      BY <1>1, <2>1, <2>4, <3>1
  <2>6. n * t = z * u
    <3>1. PICK v \in Int, v2 \in Int : v = n * t /\ v2 = z * u
      BY <1>6
    <3>2. s * v = s * v2
      BY <2>5, <3>1
    <3>3. v = v2
      BY <3>2
    <3> QED
      BY <3>1, <3>3
  <2>7. Divides(u, n * t)
    BY <2>6 DEF Divides
  <2> QED
    BY <1>1, <1>6, <2>7, CoprimeDivides
<1>11. n > m
  <2>1. Divides(u * t, n)
    BY <1>1, <1>6, <1>9, <1>10, CoprimeDivides
  <2>2. PICK v \in Nat \ {0} : v = u * t
    <3>1. u * t > 0
      OBVIOUS
    <3> QED
      BY <3>1
  <2>3. v \in 1 .. n
    BY <1>6, <2>1, <2>2, DivisorBelow
  <2>4. v = r * m
    <3>1. u * (r * s) = r * (u * s)
      OBVIOUS
    <3> QED
      BY <1>1, <2>2, <3>1
  <2>5. r * m > m
    <3>1. (r - 1) * m > 0
      BY <1>0, <1>1
    <3>2. r * m = (r - 1) * m + m
      BY <1>0
    <3>3. PICK g \in Int : g = (r - 1) * m
      BY <1>0
    <3> QED
      BY <1>0, <3>1, <3>2, <3>3
  <2> QED
    BY <1>0, <2>3, <2>4, <2>5
<1> QED
  BY <1>5, <1>11

LEMMA HighestOrder ==
  ASSUME NEW F, Domain(F)
  PROVE  \E m \in 1 .. F.size - 1, a \in Units(F) :
           HasOrder(F, a, m) /\ \A y \in Units(F) : PowerOf(F, y, m) = One
<1>0. Quotient(F) /\ F.size \in Nat /\ One \in Units(F)
  BY UnitPowers, QuotientHas, OneIsElement DEF Domain, Units
<1> DEFINE M == {n \in Nat : \E k \in 1 .. F.size - 1, a \in Units(F) :
                               HasOrder(F, a, k) /\ n = F.size - k}
<1>1. M # {}
  <2>1. PICK k \in 1 .. F.size - 1 : HasOrder(F, One, k)
    BY <1>0, OrderExists
  <2>2. F.size - k \in M
    BY <1>0, <2>1
  <2> QED
    BY <2>2
<1>2. PICK n \in M : \A i \in M : n <= i
  <2>1. M \in SUBSET Nat
    OBVIOUS
  <2> HIDE DEF M
  <2> QED
    BY <1>1, <2>1, LeastNumber
<1>3. PICK m \in 1 .. F.size - 1, a \in Units(F) : HasOrder(F, a, m) /\ n = F.size - m
  OBVIOUS
<1>4. ASSUME NEW y \in Units(F) PROVE PowerOf(F, y, m) = One
  <2>1. PICK k \in 1 .. F.size - 1 : HasOrder(F, y, k)
    BY OrderExists
  <2>2. Divides(k, m)
    <3> SUFFICES ASSUME ~ Divides(k, m) PROVE FALSE
      OBVIOUS
    <3>1. PICK c \in Units(F), o \in 1 .. F.size - 1 : HasOrder(F, c, o) /\ o > m
      BY <1>3, <2>1, OrdersJoin
    <3>2. F.size - o \in M
      BY <1>0, <3>1
    <3>3. n <= F.size - o
      BY <1>2, <3>2
    <3> QED
      BY <1>0, <1>3, <3>1, <3>3
  <2>3. m \in Nat
    BY <1>0
  <2> QED
    BY <2>1, <2>2, <2>3 DEF HasOrder
<1> QED
  BY <1>3, <1>4

-----------------------------------------------------------------------------
(* Roots                                                                   *)

\* h evaluates the polynomial with the coefficients c, the leading one first, at y.
Horner(F, m, c, y, h) ==
  /\ h \in [0 .. m -> Elements(F)] /\ h[0] = c[0]
  /\ \A k \in 0 .. m - 1 : h[k + 1] = Add(F.p, Times(F, y, h[k]), c[k + 1])

Roots(F, m, c) == {y \in Elements(F) : \E h : Horner(F, m, c, y, h) /\ h[m] = Zero}

LEMMA ElementSums ==
  ASSUME NEW F, Quotient(F), NEW a \in Elements(F), NEW b \in Elements(F), NEW c \in Elements(F)
  PROVE  /\ Add(F.p, a, b) \in Elements(F) /\ Sub(F.p, a, b) \in Elements(F)
         /\ Add(F.p, a, b) = Add(F.p, b, a)
         /\ Add(F.p, Add(F.p, a, b), c) = Add(F.p, a, Add(F.p, b, c))
         /\ Add(F.p, a, Zero) = a /\ Add(F.p, Zero, a) = a
         /\ a = Add(F.p, Sub(F.p, a, b), b)
         /\ Sub(F.p, a, b) = Zero <=> a = b
<1>1. F.p \in Nat \ {0, 1} /\ F.p \in Nat \ {0} /\ Elements(F) \subseteq Polys(F.p)
      /\ Zero \in Elements(F)
  BY QuotientHas
<1>2. a \in Polys(F.p) /\ b \in Polys(F.p) /\ c \in Polys(F.p) /\ Zero \in Polys(F.p)
  BY <1>1
<1>3. Add(F.p, a, b) \in Elements(F) /\ Sub(F.p, a, b) \in Elements(F)
  BY SumsReduced
<1>4. Add(F.p, Add(F.p, a, b), c) = Add(F.p, a, Add(F.p, b, c))
  BY <1>1, <1>2, AddAssociates
<1>5. /\ Add(F.p, a, b) = Add(F.p, b, a) /\ Add(F.p, a, Zero) = a /\ Add(F.p, Zero, a) = a
      /\ Add(F.p, Sub(F.p, a, b), b) = a /\ Add(F.p, Zero, b) = b
  BY <1>1, <1>2, PolySums
<1>6. Zero = Sub(F.p, a, b) <=> a = Add(F.p, Zero, b)
  BY <1>1, <1>2, SubIsUnique
<1> QED
  BY <1>3, <1>4, <1>5, <1>6

LEMMA HornerExists ==
  ASSUME NEW F, Quotient(F), NEW m \in Nat, NEW c \in [0 .. m -> Elements(F)], NEW y \in Elements(F)
  PROVE  \E h : Horner(F, m, c, y, h)
<1> DEFINE step == [k \in 0 .. m - 1 |-> [v \in Elements(F) |-> Add(F.p, Times(F, y, v), c[k + 1])]]
<1>1. ASSUME NEW k \in 0 .. m - 1, NEW v \in Elements(F)
      PROVE  /\ step[k][v] = Add(F.p, Times(F, y, v), c[k + 1])
             /\ Add(F.p, Times(F, y, v), c[k + 1]) \in Elements(F)
  <2>1. Times(F, y, v) \in Elements(F) /\ c[k + 1] \in Elements(F)
    BY TimesLaws
  <2> QED
    BY <2>1, ElementSums
<1>2. c[0] \in Elements(F)
  OBVIOUS
<1> HIDE DEF step
<1>3. PICK h : Steps(h, Elements(F), m, c[0], step)
  BY <1>1, <1>2, StepsExist
<1>4. h \in [0 .. m -> Elements(F)] /\ h[0] = c[0] /\ \A k \in 0 .. m - 1 : h[k + 1] = step[k][h[k]]
  BY <1>3 DEF Steps
<1>5. ASSUME NEW k \in 0 .. m - 1 PROVE h[k + 1] = Add(F.p, Times(F, y, h[k]), c[k + 1])
  <2>1. h[k] \in Elements(F)
    BY <1>4
  <2> QED
    BY <1>1, <1>4, <2>1
<1> QED
  BY <1>4, <1>5 DEF Horner

LEMMA RootTurn ==
  ASSUME NEW F, Quotient(F), NEW z \in Elements(F), NEW r \in Elements(F), NEW y \in Elements(F),
         y = Add(F.p, z, r), NEW v \in Elements(F), NEW g \in Elements(F), NEW c \in Elements(F)
  PROVE  /\ Add(F.p, Times(F, y, g), c) = Add(F.p, Times(F, z, g), Add(F.p, Times(F, r, g), c))
         /\ Add(F.p, Times(F, y, Add(F.p, Times(F, z, v), g)), c)
            = Add(F.p, Times(F, z, Add(F.p, Times(F, y, v), g)), Add(F.p, Times(F, r, g), c))
<1>1. PICK zv \in Elements(F), yv \in Elements(F), zg \in Elements(F), rg \in Elements(F),
           yg \in Elements(F) :
        /\ zv = Times(F, z, v) /\ yv = Times(F, y, v) /\ zg = Times(F, z, g)
        /\ rg = Times(F, r, g) /\ yg = Times(F, y, g)
  BY TimesLaws
<1>2. yg = Add(F.p, zg, rg)
  BY <1>1, TimesLaws
<1>3. Add(F.p, yg, c) = Add(F.p, zg, Add(F.p, rg, c))
  BY <1>2, ElementSums
<1>4. PICK x \in Elements(F) : x = Times(F, y, zv) /\ x = Times(F, z, yv)
  <2>1. Times(F, y, zv) = Times(F, Times(F, y, z), v)
    BY <1>1, TimesLaws
  <2>2. Times(F, z, yv) = Times(F, Times(F, z, y), v)
    BY <1>1, TimesLaws
  <2>3. Times(F, y, z) = Times(F, z, y) /\ Times(F, y, zv) \in Elements(F)
    BY TimesLaws
  <2> QED
    BY <2>1, <2>2, <2>3
<1>5. Times(F, y, Add(F.p, zv, g)) = Add(F.p, x, yg)
  BY <1>1, <1>4, TimesLaws
<1>6. Times(F, z, Add(F.p, yv, g)) = Add(F.p, x, zg)
  BY <1>1, <1>4, TimesLaws
<1>7. Add(F.p, Add(F.p, x, yg), c) = Add(F.p, x, Add(F.p, yg, c))
  BY ElementSums
<1>8. Add(F.p, rg, c) \in Elements(F)
  BY ElementSums
<1>9. Add(F.p, Add(F.p, x, zg), Add(F.p, rg, c)) = Add(F.p, x, Add(F.p, zg, Add(F.p, rg, c)))
  BY <1>8, ElementSums
<1> QED
  BY <1>1, <1>3, <1>5, <1>6, <1>7, <1>9

\* The other roots of a polynomial are roots of what is left when it is divided by
\* x - r, whose coefficients are the values of g.
LEMMA RootOut ==
  ASSUME NEW F, Domain(F), NEW m \in Nat, NEW c \in [0 .. m + 1 -> Elements(F)],
         NEW r \in Elements(F), NEW g, Horner(F, m + 1, c, r, g), g[m + 1] = Zero,
         NEW y \in Roots(F, m + 1, c), y # r
  PROVE  y \in Roots(F, m, [k \in 0 .. m |-> g[k]])
<1> DEFINE b == [k \in 0 .. m |-> g[k]]
<1>0. Quotient(F) /\ y \in Elements(F) /\ Zero \in Elements(F)
  BY QuotientHas DEF Domain, Roots
<1>1. /\ g \in [0 .. m + 1 -> Elements(F)] /\ g[0] = c[0]
      /\ \A k \in 0 .. m : g[k + 1] = Add(F.p, Times(F, r, g[k]), c[k + 1])
  BY DEF Horner
<1>2. PICK h : /\ h \in [0 .. m + 1 -> Elements(F)] /\ h[0] = c[0] /\ h[m + 1] = Zero
               /\ \A k \in 0 .. m : h[k + 1] = Add(F.p, Times(F, y, h[k]), c[k + 1])
  BY DEF Roots, Horner
<1>3. b \in [0 .. m -> Elements(F)]
  BY <1>1
<1>4. PICK i : Horner(F, m, b, y, i)
  <2> HIDE DEF b
  <2> QED
    BY <1>0, <1>3, HornerExists
<1>5. /\ i \in [0 .. m -> Elements(F)] /\ i[0] = g[0]
      /\ \A k \in 0 .. m - 1 : i[k + 1] = Add(F.p, Times(F, y, i[k]), g[k + 1])
  <2>1. b[0] = g[0] /\ \A k \in 0 .. m - 1 : b[k + 1] = g[k + 1]
    OBVIOUS
  <2> HIDE DEF b
  <2> QED
    BY <1>4, <2>1 DEF Horner
<1>6. PICK z \in Elements(F) : z = Sub(F.p, y, r) /\ y = Add(F.p, z, r) /\ z # Zero
  BY <1>0, ElementSums
<1> DEFINE G == {k \in Nat : k <= m => h[k + 1] = Add(F.p, Times(F, z, i[k]), g[k + 1])}
<1>7. 0 \in G
  <2>1. h[0 + 1] = Add(F.p, Times(F, y, h[0]), c[0 + 1]) /\ g[0 + 1] = Add(F.p, Times(F, r, g[0]), c[0 + 1])
    BY <1>1, <1>2
  <2>2. c[0] \in Elements(F) /\ c[0 + 1] \in Elements(F)
    OBVIOUS
  <2>3. Add(F.p, Times(F, y, c[0]), c[0 + 1])
        = Add(F.p, Times(F, z, c[0]), Add(F.p, Times(F, r, c[0]), c[0 + 1]))
    BY <1>0, <1>6, <2>2, RootTurn
  <2> QED
    BY <1>1, <1>2, <1>5, <2>1, <2>3
<1>8. ASSUME NEW k \in G PROVE k + 1 \in G
  <2> SUFFICES ASSUME k + 1 <= m
               PROVE  h[(k + 1) + 1] = Add(F.p, Times(F, z, i[k + 1]), g[(k + 1) + 1])
    OBVIOUS
  <2>1. k \in 0 .. m - 1 /\ k + 1 \in 0 .. m /\ k \in 0 .. m /\ (k + 1) + 1 \in 0 .. m + 1
    OBVIOUS
  <2>2. h[k + 1] = Add(F.p, Times(F, z, i[k]), g[k + 1])
    BY <2>1
  <2>3. i[k + 1] = Add(F.p, Times(F, y, i[k]), g[k + 1])
    BY <1>5, <2>1
  <2>4. /\ h[(k + 1) + 1] = Add(F.p, Times(F, y, h[k + 1]), c[(k + 1) + 1])
        /\ g[(k + 1) + 1] = Add(F.p, Times(F, r, g[k + 1]), c[(k + 1) + 1])
    BY <1>1, <1>2, <2>1
  <2>5. i[k] \in Elements(F) /\ g[k + 1] \in Elements(F) /\ c[(k + 1) + 1] \in Elements(F)
    BY <1>1, <1>5, <2>1
  <2>6. PICK v \in Elements(F), w \in Elements(F), d \in Elements(F) :
          v = i[k] /\ w = g[k + 1] /\ d = c[(k + 1) + 1]
    BY <2>5
  <2>7. Add(F.p, Times(F, y, Add(F.p, Times(F, z, v), w)), d)
        = Add(F.p, Times(F, z, Add(F.p, Times(F, y, v), w)), Add(F.p, Times(F, r, w), d))
    BY <1>0, <1>6, RootTurn
  <2> QED
    BY <2>2, <2>3, <2>4, <2>6, <2>7
<1>9. G = Nat
  <2> HIDE DEF G
  <2>1. G \in SUBSET Nat
    BY DEF G
  <2> QED
    BY <1>7, <1>8, <2>1, Counting
<1>10. Zero = Add(F.p, Times(F, z, i[m]), Zero)
  BY <1>2, <1>9
<1>11. i[m] \in Elements(F)
  BY <1>5
<1>12. Times(F, z, i[m]) \in Elements(F)
  BY <1>0, <1>11, TimesLaws
<1>13. Add(F.p, Times(F, z, i[m]), Zero) = Times(F, z, i[m])
  BY <1>0, <1>12, ElementSums
<1>14. i[m] = Zero
  BY <1>6, <1>10, <1>11, <1>13 DEF Domain
<1> QED
  BY <1>0, <1>4, <1>14 DEF Roots

LEMMA FewRoots ==
  ASSUME NEW F, Domain(F), NEW m \in Nat, NEW c \in [0 .. m -> Elements(F)], c[0] # Zero
  PROVE  IsFiniteSet(Roots(F, m, c)) /\ Cardinality(Roots(F, m, c)) <= m
<1>0. Quotient(F)
  BY DEF Domain
<1>1. \A j \in Nat : \A d \in [0 .. j -> Elements(F)] :
        IsFiniteSet(Roots(F, j, d)) /\ Cardinality(Roots(F, j, d)) \in Nat
  <2> SUFFICES ASSUME NEW j \in Nat, NEW d \in [0 .. j -> Elements(F)]
               PROVE  IsFiniteSet(Roots(F, j, d)) /\ Cardinality(Roots(F, j, d)) \in Nat
    OBVIOUS
  <2>1. IsFiniteSet(Roots(F, j, d))
    BY <1>0, HowMany, FS_Subset DEF Roots
  <2> QED
    BY <2>1, FS_CardinalityType
<1> DEFINE G == {j \in Nat : \A d \in [0 .. j -> Elements(F)] :
                               d[0] # Zero => Cardinality(Roots(F, j, d)) <= j}
<1>2. 0 \in G
  <2> SUFFICES ASSUME NEW d \in [0 .. 0 -> Elements(F)], d[0] # Zero
               PROVE  Cardinality(Roots(F, 0, d)) <= 0
    OBVIOUS
  <2>1. Roots(F, 0, d) = {}
    BY DEF Roots, Horner
  <2>2. Cardinality({}) = 0
    BY FS_EmptySet
  <2>3. Cardinality(Roots(F, 0, d)) = 0
    BY <2>1, <2>2
  <2> QED
    BY <2>3
<1>3. ASSUME NEW j \in G PROVE j + 1 \in G
  <2> SUFFICES ASSUME NEW d \in [0 .. j + 1 -> Elements(F)], d[0] # Zero
               PROVE  Cardinality(Roots(F, j + 1, d)) <= j + 1
    OBVIOUS
  <2>0. j \in Nat /\ j + 1 \in Nat
    OBVIOUS
  <2>1. CASE Roots(F, j + 1, d) = {}
    <3>1. Cardinality({}) = 0
      BY FS_EmptySet
    <3>2. Cardinality(Roots(F, j + 1, d)) = 0
      BY <2>1, <3>1
    <3> QED
      BY <2>0, <3>2
  <2>2. CASE Roots(F, j + 1, d) # {}
    <3>1. PICK r \in Roots(F, j + 1, d) : TRUE
      BY <2>2
    <3>2. PICK g : Horner(F, j + 1, d, r, g) /\ g[j + 1] = Zero
      BY DEF Roots
    <3> DEFINE b == [k \in 0 .. j |-> g[k]]
    <3>3. b \in [0 .. j -> Elements(F)] /\ b[0] # Zero
      BY <2>0, <3>2 DEF Horner
    <3>4. r \in Elements(F)
      BY DEF Roots
    <3>5. Roots(F, j + 1, d) \subseteq Roots(F, j, b) \cup {r}
      <4> SUFFICES ASSUME NEW y \in Roots(F, j + 1, d), y # r PROVE y \in Roots(F, j, b)
        OBVIOUS
      <4> QED
        BY <2>0, <3>2, <3>4, RootOut
    <3> HIDE DEF b
    <3>6. Cardinality(Roots(F, j, b)) <= j
      BY <3>3
    <3>7. IsFiniteSet(Roots(F, j, b)) /\ Cardinality(Roots(F, j, b)) \in Nat
      BY <1>1, <2>0, <3>3
    <3>8. /\ IsFiniteSet(Roots(F, j, b) \cup {r})
          /\ Cardinality(Roots(F, j, b) \cup {r}) <= Cardinality(Roots(F, j, b)) + 1
          /\ Cardinality(Roots(F, j, b) \cup {r}) \in Nat
      <4>1. PICK R : R = Roots(F, j, b)
        OBVIOUS
      <4>2. IsFiniteSet(R) /\ Cardinality(R) \in Nat
        BY <3>7, <4>1
      <4>3. /\ IsFiniteSet(R \cup {r})
            /\ Cardinality(R \cup {r}) = IF r \in R THEN Cardinality(R) ELSE Cardinality(R) + 1
        BY <4>2, FS_AddElement
      <4>4. Cardinality(R \cup {r}) \in Nat /\ Cardinality(R \cup {r}) <= Cardinality(R) + 1
        BY <4>2, <4>3
      <4> QED
        BY <4>1, <4>3, <4>4
    <3>9. Cardinality(Roots(F, j + 1, d)) <= Cardinality(Roots(F, j, b) \cup {r})
      BY <3>5, <3>8, FS_Subset
    <3>10. Cardinality(Roots(F, j + 1, d)) \in Nat
      BY <1>1, <2>0
    <3> QED
      BY <2>0, <3>6, <3>7, <3>8, <3>9, <3>10
  <2> QED
    BY <2>1, <2>2
<1>4. G = Nat
  <2> HIDE DEF G
  <2>1. G \in SUBSET Nat
    BY DEF G
  <2> QED
    BY <1>2, <1>3, <2>1, Counting
<1> QED
  BY <1>1, <1>4

\* All elements but zero are powers of one of them.
THEOREM UnitsAreCyclic ==
  ASSUME NEW F, Domain(F)
  PROVE  \E a \in Units(F) :
           HasOrder(F, a, F.size - 1) /\ \A y \in Units(F) : PowerOf(F, y, F.size - 1) = One
<1>0. Quotient(F) /\ F.size \in Nat \ {0, 1} /\ Zero \in Elements(F) /\ One \in Elements(F) /\ One # Zero
  BY QuotientHas, OneIsElement DEF Domain
<1>1. PICK m \in 1 .. F.size - 1, a \in Units(F) :
        HasOrder(F, a, m) /\ \A y \in Units(F) : PowerOf(F, y, m) = One
  BY HighestOrder
<1>2. m \in Nat \ {0} /\ m \in Nat
  BY <1>0
<1>3. PICK n \in Elements(F) : n = Sub(F.p, Zero, One) /\ Zero = Add(F.p, n, One)
  BY <1>0, ElementSums
<1>4. Zero = Add(F.p, One, n)
  BY <1>0, <1>3, ElementSums
<1> DEFINE c == [k \in 0 .. m |-> IF k = 0 THEN One ELSE IF k = m THEN n ELSE Zero]
<1>5. c \in [0 .. m -> Elements(F)] /\ c[0] # Zero
  BY <1>0, <1>2
<1>6. Units(F) \subseteq Roots(F, m, c)
  <2> SUFFICES ASSUME NEW y \in Units(F) PROVE y \in Roots(F, m, c)
    OBVIOUS
  <2>0. y \in Elements(F)
    BY DEF Units
  <2> DEFINE h == [k \in 0 .. m |-> IF k < m THEN PowerOf(F, y, k) ELSE Zero]
  <2>1. h \in [0 .. m -> Elements(F)]
    <3>1. ASSUME NEW k \in 0 .. m PROVE h[k] \in Elements(F)
      <4>1. k \in Nat
        BY <1>2
      <4>2. PowerOf(F, y, k) \in Elements(F)
        BY <1>0, <2>0, <4>1, PowerIs
      <4> QED
        BY <1>0, <4>2
    <3> QED
      BY <3>1
  <2>2. h[0] = c[0] /\ h[m] = Zero
    <3>1. PowerOf(F, y, 0) = One
      BY <1>0, <2>0, PowerIs
    <3> QED
      BY <1>2, <3>1
  <2>3. ASSUME NEW k \in 0 .. m - 1
        PROVE  h[k + 1] = Add(F.p, Times(F, y, h[k]), c[k + 1])
    <3>1. k \in Nat /\ h[k] = PowerOf(F, y, k) /\ k + 1 \in 0 .. m /\ k + 1 # 0 /\ k + 1 \in Nat
      BY <1>2
    <3>2. PowerOf(F, y, k + 1) = Times(F, y, PowerOf(F, y, k)) /\ PowerOf(F, y, k + 1) \in Elements(F)
      BY <1>0, <2>0, <3>1, PowerIs
    <3>3. CASE k + 1 < m
      <4>1. c[k + 1] = Zero /\ h[k + 1] = PowerOf(F, y, k + 1)
        BY <3>1, <3>3
      <4>2. Add(F.p, PowerOf(F, y, k + 1), Zero) = PowerOf(F, y, k + 1)
        BY <1>0, <3>2, ElementSums
      <4> QED
        BY <3>1, <3>2, <4>1, <4>2
    <3>4. CASE k + 1 = m
      <4>1. c[k + 1] = n /\ h[k + 1] = Zero
        BY <1>2, <3>1, <3>4
      <4>2. PowerOf(F, y, k + 1) = One
        BY <1>1, <3>4
      <4> QED
        BY <1>4, <3>1, <3>2, <4>1, <4>2
    <3> QED
      BY <1>2, <3>3, <3>4
  <2> HIDE DEF h, c
  <2>4. Horner(F, m, c, y, h)
    BY <2>1, <2>2, <2>3 DEF Horner
  <2> QED
    BY <2>0, <2>2, <2>4 DEF Roots
<1> HIDE DEF c
<1>7. IsFiniteSet(Roots(F, m, c)) /\ Cardinality(Roots(F, m, c)) <= m
  BY <1>2, <1>5, FewRoots
<1>8. Cardinality(Units(F)) <= Cardinality(Roots(F, m, c)) /\ Cardinality(Roots(F, m, c)) \in Nat
  BY <1>6, <1>7, FS_Subset, FS_CardinalityType
<1>9. Cardinality(Units(F)) = F.size - 1
  BY <1>0, HowMany
<1>10. m = F.size - 1
  BY <1>0, <1>7, <1>8, <1>9
<1> QED
  BY <1>1, <1>10

-----------------------------------------------------------------------------
(* Irreducible polynomials                                                 *)

Irreducible(p, g) ==
  /\ g \in Polys(p) /\ Degree(g) # 0
  /\ \A a, b \in Polys(p) : Mul(p, a, b) = g => Degree(a) = 0 \/ Degree(b) = 0

LEMMA PolyDividesChain ==
  ASSUME NEW p \in Nat \ {0, 1}, NEW a \in Polys(p), NEW b \in Polys(p), NEW c \in Polys(p),
         PolyDivides(p, a, b), PolyDivides(p, b, c)
  PROVE  PolyDivides(p, a, c)
<1>1. PICK h \in Polys(p) : Mul(p, h, b) = c
  BY DEF PolyDivides
<1>2. p \in Nat \ {0}
  OBVIOUS
<1> QED
  BY <1>1, <1>2, DividesMultiple

LEMMA DegreeType ==
  ASSUME NEW p \in Nat \ {0}, NEW f \in Polys(p)
  PROVE  /\ Degree(f) \in Nat
         /\ Degree(f) # 0 => f # Zero
         /\ Degree(Zero) = 0
<1>1. Degree(Zero) = 0
  BY DEF Degree, LeadTerm
<1>2. f # Zero => Degree(f) \in Nat
  BY LeadTermIs
<1> QED
  BY <1>1, <1>2

\* A polynomial of degree 0 that is not zero has an inverse.
LEMMA ConstantInverse ==
  ASSUME NEW p \in Nat \ {0, 1}, IsPrime(p), NEW z \in Polys(p), z # Zero, Degree(z) = 0
  PROVE  \E e \in Polys(p) : Mul(p, e, z) = One
<1>0. p \in Nat \ {0}
  OBVIOUS
<1> DEFINE m == [k \in DOMAIN z |-> IF LeadTerm(z)[2] = 1 THEN z[k]
                                    ELSE (Egcd(LeadTerm(z)[2], p)[1] * z[k]) % p]
<1>1. m \in Polys(p) /\ m # Zero /\ LeadTerm(m)[2] = 1 /\ Associates(p, m, z)
  BY Normalised
<1>2. DOMAIN m = DOMAIN z
  OBVIOUS
<1> HIDE DEF m
<1>3. PICK u \in Polys(p), v \in Polys(p) : m = Mul(p, u, z) /\ z = Mul(p, v, m)
  BY <1>1 DEF Associates
<1>4. DOMAIN z = {0}
  <2>1. 0 \in DOMAIN z /\ \A k \in DOMAIN z : k <= 0
    BY <1>0, LeadTermIs
  <2>2. DOMAIN z \subseteq Nat
    BY <1>0, PolyIs, PowersAre
  <2> QED
    BY <2>1, <2>2
<1>5. m[0] = 1
  <2>1. Degree(m) \in DOMAIN m /\ LeadTerm(m) = <<Degree(m), m[Degree(m)]>>
    BY <1>0, <1>1, LeadTermIs
  <2> QED
    BY <1>1, <1>2, <1>4, <2>1
<1>6. One \in Polys(p) /\ DOMAIN One = {0} /\ One[0] = 1
  BY PolySums DEF One, Monomial
<1>7. m = One
  <2>1. \A k \in Nat : Coeff(m, k) = Coeff(One, k)
    BY <1>2, <1>4, <1>5, <1>6 DEF Coeff
  <2> QED
    BY <1>0, <1>1, <1>6, <2>1, SamePoly
<1> QED
  BY <1>3, <1>7

\* What divides a constant that is not zero is a constant.
LEMMA DivisorDegree ==
  ASSUME NEW p \in Nat \ {0, 1}, IsPrime(p), NEW g \in Polys(p), NEW f \in Polys(p), f # Zero,
         PolyDivides(p, g, f)
  PROVE  Degree(g) <= Degree(f)
<1>1. p \in Nat \ {0}
  OBVIOUS
<1>2. PICK h \in Polys(p) : Mul(p, h, g) = f
  BY DEF PolyDivides
<1>3. h # Zero /\ g # Zero
  BY <1>1, <1>2, MulOfZero
<1>4. Degree(f) = Degree(h) + Degree(g)
  BY <1>2, <1>3, ProductDegree
<1>5. Degree(h) \in Nat /\ Degree(g) \in Nat
  BY <1>1, DegreeType
<1> QED
  BY <1>4, <1>5

\* Modulo an irreducible polynomial there are no zero divisors.
LEMMA IrreducibleDomain ==
  ASSUME NEW F, Quotient(F), Irreducible(F.p, F.poly)
  PROVE  Domain(F)
<1>0. PICK p \in Nat \ {0, 1} : p = F.p
  BY QuotientHas
<1>1. PICK g \in Polys(p) : g = F.poly
  BY <1>0, QuotientHas
<1>2. PICK n \in Nat \ {0} : n = Degree(g) /\ n = F.n
  BY <1>1, QuotientHas
<1>3. g # Zero /\ IsPrime(p) /\ p \in Nat \ {0} /\ Elements(F) = Below(p, n) /\ Elements(F) \subseteq Polys(p)
  BY <1>0, <1>1, <1>2, QuotientHas DEF Quotient, Elements
<1> SUFFICES ASSUME NEW a \in Elements(F), NEW b \in Elements(F), Times(F, a, b) = Zero, a # Zero
             PROVE  b = Zero
  BY DEF Domain
<1>4. a \in Polys(p) /\ b \in Polys(p)
  BY <1>3
<1>5. PolyDivides(p, g, Mul(p, a, b))
  <2>1. Rem(p, Mul(p, a, b), g) = Zero
    BY <1>0, <1>1 DEF Times, FromPoly
  <2>2. Mul(p, a, b) \in Polys(p)
    BY <1>4, PolySums
  <2> QED
    BY <1>3, <2>1, <2>2, RemSame
<1> DEFINE I == {x \in Polys(p) : x # Zero /\ PolyDivides(p, g, Mul(p, x, b))}
           D == {k \in Nat : \E x \in I : k = Degree(x)}
<1>6. a \in I
  BY <1>4, <1>5
<1>7. ASSUME NEW x \in Polys(p) PROVE Degree(x) \in Nat
  BY <1>3, DegreeType
<1>8. PICK z \in I : \A x \in I : Degree(z) <= Degree(x)
  <2>1. D \in SUBSET Nat /\ D # {}
    BY <1>6, <1>7
  <2> HIDE DEF D
  <2>2. PICK d \in D : \A k \in D : d <= k
    BY <2>1, LeastNumber
  <2>3. PICK z \in I : d = Degree(z)
    BY DEF D
  <2>4. \A x \in I : Degree(x) \in D
    BY <1>7 DEF D
  <2> QED
    BY <2>2, <2>3, <2>4
<1>9. z \in Polys(p) /\ z # Zero /\ PolyDivides(p, g, Mul(p, z, b))
  OBVIOUS
<1>10. Degree(z) < n
  <2>1. Degree(a) < n
    BY <1>2, <1>3, <1>4, BelowDegree
  <2> QED
    BY <1>2, <1>4, <1>6, <1>7, <1>8, <1>9, <2>1
<1>11. PICK q \in Polys(p), r \in Polys(p) :
         Add(p, Mul(p, q, z), r) = g /\ (r = Zero \/ Degree(r) < Degree(z))
  BY <1>3, <1>9, DivModExact
<1>12. r = Zero
  <2> SUFFICES ASSUME r # Zero PROVE FALSE
    OBVIOUS
  <2>1. PolyDivides(p, g, Mul(p, r, b))
    <3>1. Mul(p, g, b) = Add(p, Mul(p, Mul(p, q, z), b), Mul(p, r, b))
      <4>1. Mul(p, q, z) \in Polys(p)
        BY <1>9, PolySums
      <4> QED
        BY <1>3, <1>4, <1>11, <4>1, MulDistributes
    <3>2. Mul(p, Mul(p, q, z), b) = Mul(p, q, Mul(p, z, b))
      BY <1>4, <1>9, MulAt
    <3>3. PolyDivides(p, g, Mul(p, g, b))
      <4>1. Mul(p, g, b) = Mul(p, b, g)
        BY <1>4, PolySums
      <4> QED
        BY <1>4, <4>1 DEF PolyDivides
    <3>4. Mul(p, z, b) \in Polys(p) /\ Mul(p, r, b) \in Polys(p)
      BY <1>4, <1>9, PolySums
    <3> QED
      BY <1>9, <3>1, <3>2, <3>3, <3>4, DividesRest
  <2>2. r \in I
    BY <2>1
  <2>3. Degree(z) <= Degree(r)
    BY <1>8, <2>2
  <2> QED
    BY <1>7, <1>9, <1>11, <2>3
<1>13. g = Mul(p, q, z)
  <2>1. Mul(p, q, z) \in Polys(p)
    BY <1>9, PolySums
  <2> QED
    BY <1>11, <1>12, <2>1, PolySums
<1>14. Degree(z) = 0
  <2>1. Degree(q) = 0 \/ Degree(z) = 0
    BY <1>0, <1>1, <1>9, <1>13 DEF Irreducible
  <2>2. q # Zero
    BY <1>3, <1>9, <1>13, MulOfZero
  <2>3. n = Degree(q) + Degree(z)
    BY <1>2, <1>3, <1>9, <1>13, <2>2, ProductDegree
  <2> QED
    BY <1>7, <1>9, <1>10, <2>1, <2>3
<1>15. PICK e \in Polys(p) : Mul(p, e, z) = One
  BY <1>3, <1>9, <1>14, ConstantInverse
<1>16. Mul(p, e, Mul(p, z, b)) = b
  <2>1. Mul(p, Mul(p, e, z), b) = Mul(p, e, Mul(p, z, b))
    BY <1>4, <1>9, MulAt
  <2>2. Mul(p, One, b) = b
    BY <1>4, PolySums
  <2> QED
    BY <1>15, <2>1, <2>2
<1>17. PolyDivides(p, g, b)
  <2>1. Mul(p, z, b) \in Polys(p)
    BY <1>4, <1>9, PolySums
  <2> QED
    BY <1>3, <1>9, <1>16, <2>1, DividesMultiple
<1>18. Rem(p, b, g) = Zero /\ Rem(p, b, g) = b
  <2>1. b \in Below(p, Degree(g))
    BY <1>2, <1>3
  <2> QED
    BY <1>3, <1>4, <1>17, <2>1, RemSame
<1> QED
  BY <1>18

\* A polynomial that is no constant has an irreducible divisor, of a smaller
\* degree if it is not irreducible itself.
LEMMA IrreducibleDivisor ==
  ASSUME NEW p \in Nat \ {0, 1}, IsPrime(p), NEW f \in Polys(p), Degree(f) # 0
  PROVE  \E g \in Polys(p) : /\ Irreducible(p, g) /\ PolyDivides(p, g, f)
                             /\ ~ Irreducible(p, f) => Degree(g) < Degree(f)
<1>0. p \in Nat \ {0} /\ f # Zero
  BY DegreeType
<1>1. ASSUME NEW x \in Polys(p) PROVE Degree(x) \in Nat /\ (Degree(x) # 0 => x # Zero)
  BY <1>0, DegreeType
<1> DEFINE I == {x \in Polys(p) : Degree(x) # 0 /\ PolyDivides(p, x, f)}
           D == {k \in Nat : \E x \in I : k = Degree(x)}
<1>2. f \in I
  <2>1. One \in Polys(p) /\ Mul(p, One, f) = f
    BY PolySums
  <2> QED
    BY <2>1 DEF PolyDivides
<1>3. PICK g \in I : \A x \in I : Degree(g) <= Degree(x)
  <2>1. D \in SUBSET Nat /\ D # {}
    BY <1>1, <1>2
  <2> HIDE DEF D
  <2>2. PICK d \in D : \A k \in D : d <= k
    BY <2>1, LeastNumber
  <2>3. PICK z \in I : d = Degree(z)
    BY DEF D
  <2>4. \A x \in I : Degree(x) \in D
    BY <1>1 DEF D
  <2> QED
    BY <2>2, <2>3, <2>4
<1>4. g \in Polys(p) /\ Degree(g) # 0 /\ PolyDivides(p, g, f)
  OBVIOUS
\* A proper factor of a divisor is a divisor of a smaller degree.
<1>5. ASSUME NEW h \in Polys(p), h # Zero, PolyDivides(p, h, f), NEW a \in Polys(p), NEW b \in Polys(p),
             Mul(p, a, b) = h, Degree(a) # 0, Degree(b) # 0
      PROVE  b \in I /\ Degree(b) < Degree(h)
  <2>1. a # Zero /\ b # Zero
    BY <1>1, <1>5
  <2>2. Degree(h) = Degree(a) + Degree(b)
    BY <1>5, <2>1, ProductDegree
  <2>3. PolyDivides(p, b, h)
    BY <1>5 DEF PolyDivides
  <2>4. PolyDivides(p, b, f)
    BY <1>5, <2>3, PolyDividesChain
  <2>5. Degree(a) \in Nat /\ Degree(b) \in Nat
    BY <1>1
  <2> QED
    BY <1>5, <2>2, <2>4, <2>5
<1>6. Irreducible(p, g)
  <2> SUFFICES ASSUME NEW a \in Polys(p), NEW b \in Polys(p), Mul(p, a, b) = g,
                      Degree(a) # 0, Degree(b) # 0
               PROVE  FALSE
    BY <1>4 DEF Irreducible
  <2>1. b \in I /\ Degree(b) < Degree(g)
    BY <1>1, <1>4, <1>5
  <2>2. Degree(g) <= Degree(b)
    BY <1>3, <2>1
  <2> QED
    BY <1>1, <1>4, <2>1, <2>2
<1>7. ASSUME ~ Irreducible(p, f) PROVE Degree(g) < Degree(f)
  <2>1. PICK a \in Polys(p), b \in Polys(p) : Mul(p, a, b) = f /\ Degree(a) # 0 /\ Degree(b) # 0
    BY <1>7 DEF Irreducible
  <2>2. b \in I /\ Degree(b) < Degree(f)
    BY <1>0, <1>2, <1>5, <2>1
  <2>3. Degree(g) <= Degree(b)
    BY <1>3, <2>2
  <2> QED
    BY <1>1, <1>4, <2>1, <2>2, <2>3
<1> QED
  BY <1>4, <1>6, <1>7

-----------------------------------------------------------------------------
(* Rabin's test                                                            *)

X == Monomial(1, 1)

LEMMA PowerOfX ==
  ASSUME NEW p \in Nat \ {0, 1}, NEW k \in Nat
  PROVE  X \in Polys(p) /\ Exp(p, X, k) = Monomial(k, 1) /\ Monomial(k, 1) \in Polys(p)
<1>0. p \in Nat \ {0} /\ 1 \in 1 .. p - 1
  OBVIOUS
<1>1. ASSUME NEW i \in Nat PROVE Monomial(i, 1) \in Polys(p)
  BY <1>0, MonomialIs
<1>2. X \in Polys(p)
  <2>1. 1 \in Nat
    OBVIOUS
  <2> QED
    BY <1>1, <2>1 DEF X
<1> DEFINE G == {i \in Nat : Exp(p, X, i) = Monomial(i, 1)}
<1>3. 0 \in G
  BY <1>2, ExpIs DEF One
<1>4. ASSUME NEW i \in G PROVE i + 1 \in G
  <2>1. i \in Nat /\ i + 1 \in Nat
    OBVIOUS
  <2>2. Exp(p, X, i + 1) = Mul(p, X, Monomial(i, 1))
    BY <1>2, ExpIs
  <2>3. Mul(p, X, Monomial(i, 1)) \in Polys(p)
    BY <1>1, <1>2, PolySums
  <2>4. ASSUME NEW j \in Nat
        PROVE  Coeff(Mul(p, X, Monomial(i, 1)), j) = Coeff(Monomial(i + 1, 1), j)
    <3>1. Coeff(Mul(p, X, Monomial(i, 1)), j) = (1 * Coeff(Monomial(i, 1), j - 1)) % p
      <4>1. 1 \in Nat /\ j \in Int
        OBVIOUS
      <4>2. PICK g \in Polys(p) : g = Monomial(i, 1)
        BY <1>1, <2>1
      <4>3. Coeff(Mul(p, Monomial(1, 1), g), j) = (1 * Coeff(g, j - 1)) % p
        BY <1>0, <4>1, MonomialProduct
      <4> QED
        BY <4>2, <4>3 DEF X
    <3>2. 1 * 1 = 1 /\ 1 * 0 = 0 /\ 1 % p = 1 /\ 0 % p = 0
      BY <1>0
    <3>3. CASE j = i + 1
      <4>1. Coeff(Monomial(i, 1), j - 1) = 1 /\ Coeff(Monomial(i + 1, 1), j) = 1
        BY <2>1, <3>3 DEF Coeff, Monomial
      <4> QED
        BY <3>1, <3>2, <4>1
    <3>4. CASE j # i + 1
      <4>1. j - 1 # i
        BY <2>1, <3>4
      <4>2. Coeff(Monomial(i, 1), j - 1) = 0 /\ Coeff(Monomial(i + 1, 1), j) = 0
        BY <3>4, <4>1 DEF Coeff, Monomial
      <4> QED
        BY <3>1, <3>2, <4>2
    <3> QED
      BY <3>3, <3>4
  <2>5. Mul(p, X, Monomial(i, 1)) = Monomial(i + 1, 1)
    BY <1>0, <1>1, <2>1, <2>3, <2>4, SamePoly
  <2> QED
    BY <2>1, <2>2, <2>5
<1>5. G = Nat
  <2> HIDE DEF G
  <2>1. G \in SUBSET Nat
    BY DEF G
  <2> QED
    BY <1>3, <1>4, <2>1, Counting
<1> QED
  BY <1>1, <1>2, <1>5

\* What x_power_minus_x makes is x^k - x.
LEMMA XPowerMinusXIs ==
  ASSUME NEW p \in Nat \ {0, 1}, NEW k \in Nat \ {0, 1}
  PROVE  /\ XPowerMinusX(p, k) = Sub(p, Exp(p, X, k), X)
         /\ XPowerMinusX(p, k) \in Polys(p)
         /\ XPowerMinusX(p, k) # Zero /\ Degree(XPowerMinusX(p, k)) = k
<1>0. p \in Nat \ {0} /\ k \in Nat /\ 1 \in 1 .. p - 1
  OBVIOUS
<1>1. Exp(p, X, k) = Monomial(k, 1) /\ Monomial(k, 1) \in Polys(p) /\ X \in Polys(p)
  BY <1>0, PowerOfX
<1> DEFINE c == [i \in {1, k} |-> IF i = k THEN 1 ELSE p - 1]
<1>2. XPowerMinusX(p, k) = Normal(p, c)
  BY DEF XPowerMinusX
<1>3. {1, k} \in Powers
  <2>1. {1, k} \in SUBSET (0 .. k)
    BY <1>0
  <2> QED
    BY <1>0, <2>1 DEF Powers
<1>4. c \in [{1, k} -> Int]
  BY <1>0
<1> HIDE DEF c
<1>5. \A i : Normal(p, c) \in Polys(p) /\ Coeff(Normal(p, c), i) = Coeff(c, i) % p
  BY <1>0, <1>3, <1>4, NormalIs
<1>6. ASSUME NEW i \in Nat
      PROVE  /\ Coeff(c, i) = IF i = k THEN 1 ELSE IF i = 1 THEN p - 1 ELSE 0
             /\ Coeff(Monomial(k, 1), i) = IF i = k THEN 1 ELSE 0
             /\ Coeff(X, i) = IF i = 1 THEN 1 ELSE 0
  BY DEF c, Coeff, Monomial, X
<1>7. (p - 1) % p = (0 - 1) % p
  <2>1. (p - 1) - (0 - 1) = 1 * p
    OBVIOUS
  <2>2. Congruent(p, p - 1, 0 - 1)
    BY <2>1 DEF Congruent
  <2>3. p - 1 \in Int /\ 0 - 1 \in Int
    OBVIOUS
  <2> QED
    BY <1>0, <2>2, <2>3, SameRemainder
<1>8. Sub(p, Monomial(k, 1), X) \in Polys(p)
      /\ \A i \in Nat : Coeff(Sub(p, Monomial(k, 1), X), i) = (Coeff(Monomial(k, 1), i) - Coeff(X, i)) % p
  BY <1>0, <1>1, SubIs
<1>9. ASSUME NEW i \in Nat PROVE Coeff(Normal(p, c), i) = Coeff(Sub(p, Monomial(k, 1), X), i)
  <2>1. Coeff(Normal(p, c), i) = Coeff(c, i) % p
    BY <1>5
  <2>2. Coeff(Sub(p, Monomial(k, 1), X), i) = (Coeff(Monomial(k, 1), i) - Coeff(X, i)) % p
    BY <1>8
  <2>3. CASE i = k
    <3>1. Coeff(c, i) = 1 /\ Coeff(Monomial(k, 1), i) - Coeff(X, i) = 1
      BY <1>6, <2>3
    <3> QED
      BY <2>1, <2>2, <3>1
  <2>4. CASE i # k /\ i = 1
    <3>1. Coeff(c, i) = p - 1 /\ Coeff(Monomial(k, 1), i) = 0 /\ Coeff(X, i) = 1
      BY <1>6, <2>4
    <3> QED
      BY <1>7, <2>1, <2>2, <3>1
  <2>5. CASE i # k /\ i # 1
    <3>1. Coeff(c, i) = 0 /\ Coeff(Monomial(k, 1), i) - Coeff(X, i) = 0
      BY <1>6, <2>5
    <3> QED
      BY <2>1, <2>2, <3>1
  <2> QED
    BY <2>3, <2>4, <2>5
<1>10. Normal(p, c) = Sub(p, Monomial(k, 1), X)
  BY <1>0, <1>5, <1>8, <1>9, SamePoly
<1>11. Normal(p, c) # Zero /\ Degree(Normal(p, c)) = k
  <2>1. 1 % p = 1 /\ 0 % p = 0
    BY <1>0
  <2>2. Coeff(Normal(p, c), k) # 0
    BY <1>0, <1>5, <1>6, <2>1
  <2>3. ASSUME NEW i \in Nat, i > k PROVE Coeff(Normal(p, c), i) = 0
    BY <1>5, <1>6, <2>1, <2>3
  <2> QED
    BY <1>0, <1>5, <2>2, <2>3, DegreeIs
<1> QED
  BY <1>1, <1>2, <1>5, <1>10, <1>11

\* The quotient by g.
By(p, g) == [p |-> p, poly |-> g, n |-> Degree(g), size |-> Raise(p, Degree(g))]

LEMMA ByIs ==
  ASSUME NEW p \in Nat \ {0, 1}, IsPrime(p), NEW g \in Polys(p), Degree(g) # 0
  PROVE  /\ Quotient(By(p, g)) /\ By(p, g).p = p /\ By(p, g).poly = g
         /\ By(p, g).n = Degree(g) /\ By(p, g).size = Raise(p, Degree(g))
         /\ Irreducible(p, g) => Domain(By(p, g))
<1>1. Quotient(By(p, g)) /\ By(p, g).p = p /\ By(p, g).poly = g
      /\ By(p, g).n = Degree(g) /\ By(p, g).size = Raise(p, Degree(g))
  BY DEF By, Quotient
<1> QED
  BY <1>1, IrreducibleDomain

\* The power of a remainder is the remainder of the power.
LEMMA PowerOfRest ==
  ASSUME NEW F, Quotient(F), NEW x \in Polys(F.p), NEW k \in Nat
  PROVE  PowerOf(F, FromPoly(F, x), k) = FromPoly(F, Exp(F.p, x, k))
<1>1. F.p \in Nat \ {0, 1} /\ Elements(F) \subseteq Polys(F.p) /\ F.poly \in Polys(F.p)
  BY QuotientHas
<1>2. PICK y \in Elements(F) : y = FromPoly(F, x) /\ Same(F.p, F.poly, y, x)
  BY Reduced
<1>3. y \in Polys(F.p)
  BY <1>1
<1>4. Same(F.p, F.poly, Exp(F.p, y, k), Exp(F.p, x, k))
  BY <1>1, <1>2, <1>3, SameExp
<1>5. Exp(F.p, y, k) \in Polys(F.p) /\ Exp(F.p, x, k) \in Polys(F.p)
  BY <1>1, <1>3, ExpIs
<1> QED
  BY <1>2, <1>4, <1>5, ReducesSame DEF PowerOf

\* The elements to the power of their number are themselves.
LEMMA AllFixed ==
  ASSUME NEW F, Domain(F), NEW y \in Elements(F)
  PROVE  PowerOf(F, y, F.size) = y
<1>1. Quotient(F) /\ F.size \in Nat \ {0, 1} /\ Zero \in Elements(F)
  BY QuotientHas DEF Domain
<1>2. PICK m \in Nat : m = F.size - 1 /\ F.size = m + 1
  BY <1>1
<1>3. PowerOf(F, y, m + 1) = Times(F, y, PowerOf(F, y, m)) /\ PowerOf(F, y, m) \in Elements(F)
  BY <1>1, PowerIs
<1>4. CASE y = Zero
  BY <1>1, <1>2, <1>3, <1>4, TimesLaws
<1>5. CASE y # Zero
  <2>1. PowerOf(F, y, m) = One
    BY <1>2, <1>5, UnitsAreCyclic DEF Units
  <2> QED
    BY <1>1, <1>2, <1>3, <2>1, TimesLaws
<1> QED
  BY <1>4, <1>5

\* The numbers k for which y^(p^k) = y.
Fixing(F, y) == {k \in Nat : PowerOf(F, y, Raise(F.p, k)) = y}

LEMMA FixingIs ==
  ASSUME NEW F, Quotient(F), NEW y \in Elements(F)
  PROVE  \A i \in Fixing(F, y), j \in Nat : i + j \in Fixing(F, y) <=> j \in Fixing(F, y)
<1> SUFFICES ASSUME NEW i \in Fixing(F, y), NEW j \in Nat
             PROVE  i + j \in Fixing(F, y) <=> j \in Fixing(F, y)
  OBVIOUS
<1>1. F.p \in Nat /\ i \in Nat
  BY QuotientHas DEF Fixing
<1>2. PICK a \in Nat, b \in Nat : a = Raise(F.p, i) /\ b = Raise(F.p, j)
  BY <1>1, RaiseIs
<1>3. Raise(F.p, i + j) = a * b
  <2>1. Raise(F.p, i + j) = Raise(F.p, i) * Raise(F.p, j)
    BY <1>1, RaiseAdds
  <2> QED
    BY <1>2, <2>1
<1>4. PowerOf(F, PowerOf(F, y, a), b) = PowerOf(F, y, a * b)
  BY PowerLaws
<1>5. PowerOf(F, y, a) = y
  BY <1>2 DEF Fixing
<1>6. PowerOf(F, y, Raise(F.p, i + j)) = PowerOf(F, y, Raise(F.p, j))
  BY <1>2, <1>3, <1>4, <1>5
<1> QED
  BY <1>1, <1>6 DEF Fixing

\* g divides x^(p^k) - x if k fixes x modulo g.
LEMMA DividesFixing ==
  ASSUME NEW p \in Nat \ {0, 1}, IsPrime(p), NEW g \in Polys(p), Degree(g) # 0, NEW k \in Nat \ {0}
  PROVE  /\ PolyDivides(p, g, XPowerMinusX(p, Raise(p, k)))
              <=> k \in Fixing(By(p, g), FromPoly(By(p, g), X))
         /\ XPowerMinusX(p, Raise(p, k)) \in Polys(p) /\ XPowerMinusX(p, Raise(p, k)) # Zero
<1> DEFINE F == By(p, g)
<1>1. Quotient(F) /\ F.p = p /\ F.poly = g
  BY ByIs
<1>2. PICK q \in Nat \ {0, 1} : q = Raise(p, k)
  <2>1. Raise(p, 0) < Raise(p, k) /\ Raise(p, 0) = 1 /\ Raise(p, k) \in Nat
    <3>1. p \in Nat /\ 0 \in Nat /\ k \in Nat /\ 0 < k
      OBVIOUS
    <3>2. Raise(p, 0) < Raise(p, k)
      BY <3>1, RaiseGrows
    <3> QED
      BY <3>1, <3>2, RaiseIs
  <2> QED
    BY <2>1
<1>3. XPowerMinusX(p, q) = Sub(p, Exp(p, X, q), X) /\ XPowerMinusX(p, q) \in Polys(p)
      /\ XPowerMinusX(p, q) # Zero
  BY XPowerMinusXIs
<1>4. X \in Polys(p) /\ Exp(p, X, q) \in Polys(p)
  <2>1. q \in Nat
    OBVIOUS
  <2> QED
    BY <2>1, PowerOfX
<1>5. PolyDivides(p, g, Sub(p, Exp(p, X, q), X)) <=> Same(p, g, Exp(p, X, q), X)
  BY <1>4, SameIs
<1> HIDE DEF F
<1>6. Same(p, g, Exp(p, X, q), X) <=> FromPoly(F, Exp(p, X, q)) = FromPoly(F, X)
  BY <1>1, <1>4, ReducesSame
<1>7. FromPoly(F, Exp(p, X, q)) = PowerOf(F, FromPoly(F, X), q)
  BY <1>1, <1>2, <1>4, PowerOfRest
<1>8. k \in Fixing(F, FromPoly(F, X)) <=> PowerOf(F, FromPoly(F, X), q) = FromPoly(F, X)
  BY <1>1, <1>2 DEF Fixing
<1> QED
  BY <1>2, <1>3, <1>5, <1>6, <1>7, <1>8 DEF F

\* The degree of an irreducible g fixes x modulo g.
LEMMA DegreeFixes ==
  ASSUME NEW p \in Nat \ {0, 1}, IsPrime(p), NEW g, Irreducible(p, g)
  PROVE  /\ Degree(g) \in Nat \ {0} /\ g \in Polys(p)
         /\ Degree(g) \in Fixing(By(p, g), FromPoly(By(p, g), X))
         /\ FromPoly(By(p, g), X) \in Elements(By(p, g))
<1> DEFINE F == By(p, g)
<1>1. g \in Polys(p) /\ Degree(g) # 0
  BY DEF Irreducible
<1>2. Quotient(F) /\ Domain(F) /\ F.p = p /\ F.size = Raise(p, Degree(g))
  BY <1>1, ByIs
<1>3. Degree(g) \in Nat \ {0}
  BY <1>1, DegreeType
<1>4. X \in Polys(p)
  BY <1>3, PowerOfX
<1> HIDE DEF F
<1>5. FromPoly(F, X) \in Elements(F)
  BY <1>2, <1>4, Reduced
<1>6. PowerOf(F, FromPoly(F, X), F.size) = FromPoly(F, X)
  BY <1>2, <1>5, AllFixed
<1>7. Degree(g) \in Fixing(F, FromPoly(F, X))
  BY <1>2, <1>3, <1>6 DEF Fixing
<1> QED
  BY <1>1, <1>3, <1>5, <1>7 DEF F

(* A polynomial that passes Rabin's test is irreducible (polynomial.rs     *)
(* is_irreducible).                                                        *)
THEOREM TestedIsIrreducible ==
  ASSUME NEW p \in Nat \ {0, 1}, IsPrime(p), NEW f \in Polys(p), Degree(f) # 0, IsIrreducible(p, f)
  PROVE  Irreducible(p, f)
<1> SUFFICES ASSUME ~ Irreducible(p, f) PROVE FALSE
  OBVIOUS
<1>0. p \in Nat \ {0}
  OBVIOUS
<1>1. PICK n \in Nat \ {0} : n = Degree(f)
  BY <1>0, DegreeType
<1>2. f # Zero
  BY <1>0, DegreeType
<1>3. PICK g \in Polys(p) : Irreducible(p, g) /\ PolyDivides(p, g, f) /\ Degree(g) < n
  BY <1>1, IrreducibleDivisor
<1>4. PICK d \in Nat \ {0} : d = Degree(g)
  BY <1>3, DegreeFixes
<1> DEFINE x == FromPoly(By(p, g), X)
           S == Fixing(By(p, g), x)
<1>5. d \in S /\ x \in Elements(By(p, g)) /\ Quotient(By(p, g))
  BY <1>3, <1>4, DegreeFixes, ByIs
<1>6. \A k \in Nat \ {0} :
        /\ PolyDivides(p, g, XPowerMinusX(p, Raise(p, k))) <=> k \in S
        /\ XPowerMinusX(p, Raise(p, k)) \in Polys(p) /\ XPowerMinusX(p, Raise(p, k)) # Zero
  BY <1>4, DividesFixing
<1>7. n \in S
  <2>1. PolyDivides(p, f, XPowerMinusX(p, Raise(p, n)))
    BY <1>1, <1>2, <1>6, RemSame DEF IsIrreducible
  <2> QED
    BY <1>3, <1>6, <2>1, PolyDividesChain
<1>8. S \in SUBSET Nat /\ \A i \in S, j \in Nat : i + j \in S <=> j \in S
  <2>1. S \in SUBSET Nat
    BY DEF Fixing
  <2> HIDE DEF x
  <2> QED
    BY <1>5, <2>1, FixingIs
<1> HIDE DEF S, x
<1>9. PICK e \in S \ {0} : \A j \in Nat : j \in S <=> Divides(e, j)
  <2>1. d \in S \ {0}
    BY <1>5
  <2> QED
    BY <1>8, <2>1, GapsRepeat
<1>10. e \in Nat \ {0} /\ Divides(e, d) /\ Divides(e, n)
  BY <1>5, <1>7, <1>8, <1>9
<1>11. e \in 1 .. n - 1
  <2>1. e \in 1 .. d
    BY <1>10, DivisorBelow
  <2> QED
    BY <1>3, <1>4, <2>1
<1>12. PICK r \in PrimeFactors(n) : n \div r \in 1 .. n - 1 /\ Divides(e, n \div r)
  BY <1>10, <1>11, ProperDivisor
<1>13. PICK k \in Nat \ {0} : k = n \div r
  BY <1>12
<1>14. PICK b \in Polys(p) : b = XPowerMinusX(p, Raise(p, k)) /\ b # Zero /\ PolyDivides(p, g, b)
  <2>1. k \in S
    BY <1>9, <1>12, <1>13
  <2> QED
    BY <1>6, <2>1
<1>15. IsOne(PolyGcd(p, f, b))
  BY <1>1, <1>12, <1>13, <1>14 DEF IsIrreducible
<1>16. PolyGcd(p, f, b) \in Polys(p) /\ PolyDivides(p, g, PolyGcd(p, f, b))
  BY <1>3, <1>14, PolyGcdExact
<1>17. PICK c \in Polys(p) : c = PolyGcd(p, f, b) /\ DOMAIN c = {0}
  BY <1>15, <1>16 DEF IsOne
<1>18. c # Zero /\ Degree(c) = 0
  <2>1. c # Zero
    BY <1>0, <1>17, ZeroIs
  <2> QED
    BY <1>0, <1>17, <2>1, LeadTermIs
<1>19. Degree(g) <= 0
  BY <1>16, <1>17, <1>18, DivisorDegree
<1> QED
  BY <1>4, <1>19

-----------------------------------------------------------------------------
(* The tables of the decoder                                               *)

\* h to the power q - 2 inverts h.
LEMMA PowerInverts ==
  ASSUME NEW F, Domain(F), F.size > 2, NEW h \in Units(F)
  PROVE  Power(F, h, F.size - 2) \in Units(F) /\ Times(F, h, Power(F, h, F.size - 2)) = One
<1>1. Quotient(F) /\ F.size \in Nat \ {0, 1} /\ h \in Elements(F)
  BY QuotientHas DEF Domain, Units
<1>2. PICK k \in Nat \ {0} : k = F.size - 2 /\ F.size - 1 = k + 1
  BY <1>1
<1>3. PowerOf(F, h, k + 1) = One
  BY <1>2, UnitsAreCyclic
<1>4. PowerOf(F, h, k + 1) = Times(F, h, PowerOf(F, h, k)) /\ PowerOf(F, h, k) = Power(F, h, k)
  BY <1>1, PowerIs
<1>5. PowerOf(F, h, k) \in Units(F)
  BY UnitPowers
<1> QED
  BY <1>2, <1>3, <1>4, <1>5

(* In a field of more than two elements the tables of mult_idx and sum_idx *)
(* solve the equations they are for (decoder.rs 116-143).                  *)
THEOREM TablesAreExact ==
  ASSUME NEW F, Domain(F), F.size > 2 PROVE TablesSolve(F)
<1> DEFINE S == SymbolsOf(F)
           E == Elements(F)
<1>0. Quotient(F)
  BY DEF Domain
<1>1. F.p \in Nat \ {0, 1} /\ F.p \in Nat \ {0} /\ E \subseteq Polys(F.p)
  BY <1>0, QuotientHas
<1>2. \A m \in S : Element(F, m) \in E /\ AsInt(F, Element(F, m)) = m
  BY <1>0, ElementsAre
<1>3. \A a \in E : AsInt(F, a) \in S /\ Element(F, AsInt(F, a)) = a
  BY <1>0, ElementsAre
<1>4. Element(F, 0) = Zero /\ 0 \in S
  BY <1>0, ElementsAre, QuotientHas DEF SymbolsOf
<1> HIDE DEF S, E
<1>5. ASSUME NEW h \in S \ {0} PROVE Element(F, h) \in Units(F)
  BY <1>2, <1>4 DEF Units, E
<1>6. ASSUME NEW a \in S, NEW b \in S
      PROVE  /\ Element(F, PlusOf(F, a, b)) = Add(F.p, Element(F, a), Element(F, b))
             /\ Element(F, MinusOf(F, a, b)) = Minus(F, Element(F, a), Element(F, b))
             /\ Element(F, TimesOf(F, a, b)) = Times(F, Element(F, a), Element(F, b))
             /\ Minus(F, Element(F, a), Element(F, b)) = Sub(F.p, Element(F, a), Element(F, b))
             /\ Minus(F, Element(F, a), Element(F, b)) \in E
             /\ PlusOf(F, a, b) \in S /\ MinusOf(F, a, b) \in S /\ TimesOf(F, a, b) \in S
  <2>1. Element(F, a) \in E /\ Element(F, b) \in E
    BY <1>2
  <2>2. /\ Plus(F, Element(F, a), Element(F, b)) = Add(F.p, Element(F, a), Element(F, b))
        /\ Minus(F, Element(F, a), Element(F, b)) = Sub(F.p, Element(F, a), Element(F, b))
        /\ Add(F.p, Element(F, a), Element(F, b)) \in E
        /\ Sub(F.p, Element(F, a), Element(F, b)) \in E
        /\ Times(F, Element(F, a), Element(F, b)) \in E
    BY <1>0, <2>1, SumsReduced DEF E
  <2> QED
    BY <1>3, <2>2 DEF PlusOf, MinusOf, TimesOf
<1>7. ASSUME NEW h \in S \ {0}, NEW a \in S, NEW b \in S
      PROVE  Tables(F).add[<<b, h, a>>] = PlusOf(F, b, TimesOf(F, h, a))
  <2>1. Tables(F).add[<<b, h, a>>] = AddProduct(F, b, h, a)
    BY DEF Tables, S
  <2>2. /\ Element(F, a) \in E /\ Element(F, h) \in E /\ Element(F, b) \in E
    BY <1>2
  <2>3. Times(F, Element(F, a), Element(F, h)) = Times(F, Element(F, h), Element(F, a))
    BY <1>0, <2>2, TimesLaws DEF E
  <2>4. PlusOf(F, b, TimesOf(F, h, a))
        = AsInt(F, Add(F.p, Element(F, b), Times(F, Element(F, h), Element(F, a))))
    <3>1. TimesOf(F, h, a) \in S /\ h \in S
      BY <1>6
    <3>2. PlusOf(F, b, TimesOf(F, h, a)) \in S
      BY <1>6, <3>1
    <3>3. Element(F, PlusOf(F, b, TimesOf(F, h, a)))
          = Add(F.p, Element(F, b), Times(F, Element(F, h), Element(F, a)))
      BY <1>6, <3>1
    <3> QED
      BY <1>2, <3>2, <3>3
  <2> QED
    BY <2>1, <2>3, <2>4 DEF AddProduct, PlusAssign
<1>8. ASSUME NEW h \in S \ {0}, NEW a \in S, NEW b \in S, NEW z \in S
      PROVE  Tables(F).sum[<<z, h>>][<<a, b>>] = MinusOf(F, MinusOf(F, z, TimesOf(F, h, a)), b)
  <2>1. TimesOf(F, h, a) \in S /\ Element(F, TimesOf(F, h, a)) = Times(F, Element(F, h), Element(F, a))
    BY <1>6
  <2>2. MinusOf(F, z, TimesOf(F, h, a)) \in S
        /\ Element(F, MinusOf(F, z, TimesOf(F, h, a)))
           = Minus(F, Element(F, z), Times(F, Element(F, h), Element(F, a)))
    BY <1>6, <2>1
  <2>3. MinusOf(F, MinusOf(F, z, TimesOf(F, h, a)), b) \in S
        /\ Element(F, MinusOf(F, MinusOf(F, z, TimesOf(F, h, a)), b))
           = Minus(F, Minus(F, Element(F, z), Times(F, Element(F, h), Element(F, a))), Element(F, b))
    BY <1>6, <2>2
  <2>4. Tables(F).sum[<<z, h>>][<<a, b>>]
        = AsInt(F, Minus(F, Minus(F, Element(F, z), Times(F, Element(F, h), Element(F, a))),
                         Element(F, b)))
    <3>1. Tables(F).sum[<<z, h>>] = SumIdx(F, z, h)
      BY DEF Tables, S
    <3> QED
      BY <3>1 DEF SumIdx, S
  <2> QED
    BY <1>2, <2>3, <2>4
<1>9. ASSUME NEW h \in S \ {0}, NEW a \in S, NEW b \in S
      PROVE  /\ Tables(F).mult[h][<<a, b>>] \in S
             /\ \A e \in S : e = Tables(F).mult[h][<<a, b>>]
                               <=> PlusOf(F, b, TimesOf(F, h, e)) = a
  <2>1. PICK u \in Units(F), v \in Units(F) :
          u = Element(F, h) /\ v = Power(F, u, F.size - 2) /\ Times(F, u, v) = One
    BY <1>5, PowerInverts
  <2>2. PICK x \in E, y \in E : x = Element(F, a) /\ y = Element(F, b)
    BY <1>2
  <2>3. PICK d \in E : d = Minus(F, x, y) /\ d = Sub(F.p, x, y)
    BY <1>6, <2>2
  <2>4. u \in E /\ v \in E
    BY DEF Units, E
  <2>5. Times(F, v, u) = One
    BY <1>0, <2>1, <2>4, TimesLaws DEF E
  <2>6. ASSUME NEW e \in S
        PROVE  Element(F, e) = Times(F, v, d) <=> PlusOf(F, b, TimesOf(F, h, e)) = a
    <3>1. PICK w \in E : w = Element(F, e)
      BY <1>2
    <3>2. PICK m \in E : m = Times(F, u, w)
      BY <1>0, <2>4, TimesLaws DEF E
    <3>3. w = Times(F, v, m)
      BY <1>0, <2>4, <2>5, <3>2, TimesLaws DEF E
    <3>4. w = Times(F, v, d) <=> m = d
      <4>1. w = Times(F, v, d) => Times(F, v, m) = Times(F, v, d)
        BY <3>3
      <4>2. Times(F, v, m) = Times(F, v, d) => m = d
        BY Cancels DEF E
      <4> QED
        BY <3>3, <4>1, <4>2
    <3>5. m = d <=> x = Add(F.p, m, y)
      BY <1>1, <2>3, SubIsUnique
    <3>6. Add(F.p, m, y) = Add(F.p, y, m)
      BY <1>1, PolySums
    <3>7. TimesOf(F, h, e) \in S /\ Element(F, TimesOf(F, h, e)) = m
      BY <1>6, <2>1, <3>1, <3>2
    <3>8. PlusOf(F, b, TimesOf(F, h, e)) \in S
          /\ Element(F, PlusOf(F, b, TimesOf(F, h, e))) = Add(F.p, y, m)
      BY <1>6, <2>2, <3>7
    <3>9. PlusOf(F, b, TimesOf(F, h, e)) = a <=> Add(F.p, y, m) = x
      BY <1>2, <2>2, <3>8
    <3> QED
      BY <3>1, <3>4, <3>5, <3>6, <3>9
  <2>7. Times(F, v, d) \in E
    BY <1>0, <2>4, TimesLaws DEF E
  <2>8. \E i \in S : Element(F, i) = Times(F, v, d)
    BY <1>3, <2>7
  <2>9. \A i, j \in S : Element(F, i) = Element(F, j) => i = j
    BY <1>2
  <2>10. PICK i \in S : i = Tables(F).mult[h][<<a, b>>] /\ Element(F, i) = Times(F, v, d)
    <3>1. \E i \in S : Element(F, i) = Times(F, Power(F, Element(F, h), F.size - 2),
                                             Minus(F, Element(F, a), Element(F, b)))
      BY <2>1, <2>2, <2>3, <2>8
    <3>2. Tables(F).mult[h][<<a, b>>]
          = CHOOSE i \in S :
              Element(F, i) = Times(F, Power(F, Element(F, h), F.size - 2),
                                    Minus(F, Element(F, a), Element(F, b)))
      <4>1. Tables(F).mult[h] = MultIdx(F, h)
        BY DEF Tables, S
      <4> QED
        BY <4>1 DEF MultIdx, S
    <3>3. /\ Tables(F).mult[h][<<a, b>>] \in S
          /\ Element(F, Tables(F).mult[h][<<a, b>>])
             = Times(F, Power(F, Element(F, h), F.size - 2), Minus(F, Element(F, a), Element(F, b)))
      BY <3>1, <3>2
    <3> QED
      BY <2>1, <2>2, <2>3, <3>3
  <2> QED
    BY <2>6, <2>9, <2>10
<1>10. ASSUME NEW h \in S \ {0}, NEW a \in S, NEW b \in S
       PROVE  /\ Tables(F).mult[h][<<a, b>>] \in S
              /\ PlusOf(F, b, TimesOf(F, h, Tables(F).mult[h][<<a, b>>])) = a
              /\ Tables(F).mult[h][<<PlusOf(F, b, TimesOf(F, h, a)), b>>] = a
  <2>1. h \in S /\ TimesOf(F, h, a) \in S
    BY <1>6
  <2>2. PlusOf(F, b, TimesOf(F, h, a)) \in S
    BY <1>6, <2>1
  <2> QED
    BY <1>9, <2>2
<1> QED
  BY <1>7, <1>8, <1>10 DEF TablesSolve, S

-----------------------------------------------------------------------------
(* Primitive elements                                                      *)

\* The loop of is_primitive counts the powers before the first that is one.
LEMMA PowersCounted ==
  ASSUME NEW F, Domain(F), NEW a \in Units(F), NEW k \in 1 .. F.size - 1, HasOrder(F, a, k)
  PROVE  PowersBeforeOne(F, a) = k - 1
<1> DEFINE last(i) == IF i < k THEN i ELSE k - 1
           at(i)   == [cur |-> PowerOf(F, a, last(i) + 1), count |-> last(i)]
           g       == [i \in Nat |-> at(i)]
           Runs(f) == f = [i \in Nat |->
                             IF i = 0 THEN [cur |-> a, count |-> 0]
                             ELSE IF f[i - 1].cur = OneOf(F) THEN f[i - 1]
                                  ELSE [cur |-> Times(F, f[i - 1].cur, a),
                                        count |-> f[i - 1].count + 1]]
           f       == CHOOSE h : Runs(h)
<1>0. Quotient(F) /\ a \in Elements(F) /\ F.size \in Nat /\ OneOf(F) = One
  BY QuotientHas, OneIsElement DEF Domain, Units
<1>1. k \in Nat \ {0} /\ k - 1 \in Nat
  BY <1>0
<1>2. ASSUME NEW i \in 1 .. k PROVE PowerOf(F, a, i) = One <=> i = k
  <2>1. i \in Nat \ {0}
    BY <1>1
  <2>2. PowerOf(F, a, i) = One <=> Divides(k, i)
    BY <2>1 DEF HasOrder
  <2>3. Divides(k, i) => k \in 1 .. i
    BY <1>1, <2>1, DivisorBelow
  <2>4. Divides(k, k)
    <3>1. k = 1 * k
      BY <1>1
    <3> QED
      BY <3>1 DEF Divides
  <2> QED
    BY <1>1, <2>1, <2>2, <2>3, <2>4
<1>3. at(0) = [cur |-> a, count |-> 0]
  <2>1. PowerOf(F, a, 1) = a
    <3>1. 0 \in Nat
      OBVIOUS
    <3> QED
      BY <1>0, <3>1, PowerIs
  <2>2. last(0) = 0
    BY <1>1
  <2> QED
    BY <2>1, <2>2
<1>4. ASSUME NEW i \in Nat
      PROVE  at(i + 1) = IF at(i).cur = One THEN at(i)
                         ELSE [cur |-> Times(F, at(i).cur, a), count |-> at(i).count + 1]
  <2>1. PICK j \in Nat : j = last(i)
    BY <1>1
  <2>2. at(i) = [cur |-> PowerOf(F, a, j + 1), count |-> j]
    BY <2>1
  <2>3. j + 1 \in 1 .. k /\ (PowerOf(F, a, j + 1) = One <=> j + 1 = k)
    <3>1. j + 1 \in 1 .. k
      BY <1>1, <2>1
    <3> QED
      BY <1>2, <3>1
  <2>4. CASE j + 1 = k
    <3>1. last(i + 1) = j
      BY <1>1, <2>1, <2>4
    <3> QED
      BY <2>2, <2>3, <2>4, <3>1
  <2>5. CASE j + 1 # k
    <3>1. last(i + 1) = j + 1
      BY <1>1, <2>1, <2>3, <2>5
    <3>2. PowerOf(F, a, (j + 1) + 1) = Times(F, PowerOf(F, a, j + 1), a)
      <4>1. j + 1 \in Nat
        BY <2>1
      <4> QED
        BY <1>0, <4>1, PowerIs, TimesLaws
    <3> QED
      BY <2>2, <2>3, <2>5, <3>1, <3>2
  <2> QED
    BY <2>4, <2>5
<1> HIDE DEF at
<1>5. Runs(g)
  <2>1. ASSUME NEW i \in Nat, i # 0
        PROVE  at(i) = IF at(i - 1).cur = One THEN at(i - 1)
                       ELSE [cur |-> Times(F, at(i - 1).cur, a), count |-> at(i - 1).count + 1]
    <3>1. i - 1 \in Nat /\ (i - 1) + 1 = i
      BY <2>1
    <3> QED
      BY <1>4, <3>1
  <2>2. ASSUME NEW i \in Nat
        PROVE  g[i] = IF i = 0 THEN [cur |-> a, count |-> 0]
                      ELSE IF g[i - 1].cur = OneOf(F) THEN g[i - 1]
                           ELSE [cur |-> Times(F, g[i - 1].cur, a), count |-> g[i - 1].count + 1]
    <3>1. CASE i = 0
      BY <1>3, <3>1
    <3>2. CASE i # 0
      <4>1. i - 1 \in Nat
        BY <3>2
      <4> QED
        BY <1>0, <2>1, <3>2, <4>1
    <3> QED
      BY <3>1, <3>2
  <2> QED
    BY <2>2
<1>6. Runs(f)
  <2> HIDE DEF Runs
  <2> QED
    BY <1>5
<1>7. PowersBeforeOne(F, a) = f[F.size].count
  BY DEF PowersBeforeOne, Loop
<1> HIDE DEF f
<1> DEFINE G == {i \in Nat : f[i] = at(i)}
<1>8. 0 \in G
  BY <1>3, <1>6
<1>9. ASSUME NEW i \in G PROVE i + 1 \in G
  <2>1. i \in Nat /\ i + 1 \in Nat /\ i + 1 # 0 /\ (i + 1) - 1 = i /\ f[i] = at(i)
    OBVIOUS
  <2>2. f[i + 1] = IF f[i].cur = One THEN f[i]
                   ELSE [cur |-> Times(F, f[i].cur, a), count |-> f[i].count + 1]
    BY <1>0, <1>6, <2>1
  <2>3. f[i + 1] = at(i + 1)
    BY <1>4, <2>1, <2>2
  <2> QED
    BY <2>1, <2>3
<1>10. f[F.size] = at(F.size)
  <2>1. G \in SUBSET Nat
    OBVIOUS
  <2> HIDE DEF G
  <2>2. G = Nat
    BY <1>8, <1>9, <2>1, Counting
  <2> QED
    BY <1>0, <2>2 DEF G
<1>11. at(F.size).count = k - 1
  BY <1>0, <1>1 DEF at
<1> QED
  BY <1>7, <1>10, <1>11

(* The first element that iter_primitive yields has as many powers as the  *)
(* field has elements other than zero: they are all of them, and a matrix  *)
(* file can name none but these (utils.rs 151-215).                        *)
THEOREM EntriesExact ==
  ASSUME NEW F, Domain(F)
  PROVE  /\ HasOrder(F, PrimitiveElement(F), F.size - 1) /\ PrimitiveElement(F) \in Units(F)
         /\ \A j \in Nat \ {0} : Entry(F, j) \in Units(F) /\ AsInt(F, Entry(F, j)) \in 1 .. F.size - 1
<1>0. Quotient(F) /\ F.size \in Nat \ {0, 1} /\ F.size - 1 \in Nat \ {0}
  BY QuotientHas DEF Domain
<1>1. ASSUME NEW a \in Units(F) PROVE IsPrimitive(F, a) <=> HasOrder(F, a, F.size - 1)
  <2>1. PICK k \in 1 .. F.size - 1 : HasOrder(F, a, k)
    BY OrderExists
  <2>2. PowersBeforeOne(F, a) = k - 1
    BY <2>1, PowersCounted
  <2>3. a # ZeroOf(F)
    BY DEF ZeroOf, Units
  <2>4. IsPrimitive(F, a) <=> k = F.size - 1
    BY <1>0, <2>2, <2>3 DEF IsPrimitive
  <2>5. HasOrder(F, a, F.size - 1) => k = F.size - 1
    <3> SUFFICES ASSUME HasOrder(F, a, F.size - 1) PROVE k = F.size - 1
      OBVIOUS
    <3>1. PowerOf(F, a, F.size - 1) = One /\ PowerOf(F, a, k) = One
      <4>1. F.size - 1 = 1 * (F.size - 1) /\ k = 1 * k /\ k \in Nat
        BY <1>0
      <4>2. Divides(F.size - 1, F.size - 1) /\ Divides(k, k)
        BY <4>1 DEF Divides
      <4> QED
        BY <1>0, <2>1, <4>1, <4>2 DEF HasOrder
    <3>2. Divides(F.size - 1, k)
      BY <3>1 DEF HasOrder
    <3>3. F.size - 1 \in 1 .. k
      BY <1>0, <3>2, DivisorBelow
    <3> QED
      BY <1>0, <3>3
  <2> QED
    BY <2>1, <2>4, <2>5
<1>2. \A a : IsPrimitive(F, a) => a # Zero
  BY DEF IsPrimitive, ZeroOf
<1> DEFINE S == {i \in 1 .. F.size - 1 : IsPrimitive(F, Element(F, i))}
<1>3. S # {}
  <2>1. PICK a \in Units(F) : HasOrder(F, a, F.size - 1)
    BY UnitsAreCyclic
  <2>2. AsInt(F, a) \in SymbolsOf(F) /\ Element(F, AsInt(F, a)) = a /\ Element(F, 0) = Zero /\ a # Zero
    BY <1>0, ElementsAre DEF Units
  <2>3. AsInt(F, a) \in 1 .. F.size - 1
    BY <1>0, <2>2 DEF SymbolsOf
  <2> QED
    BY <1>1, <2>1, <2>2, <2>3
<1>4. PICK m \in S : \A k \in S : m <= k
  <2>1. S \in SUBSET Nat
    BY <1>0
  <2> HIDE DEF S
  <2> QED
    BY <1>3, <2>1, LeastNumber
<1> DEFINE Found(i) == /\ IsPrimitive(F, Element(F, i))
                       /\ \A j \in 1 .. i - 1 : ~IsPrimitive(F, Element(F, j))
<1>5. Found(m)
  <2>1. ASSUME NEW j \in 1 .. m - 1, IsPrimitive(F, Element(F, j)) PROVE FALSE
    <3>1. j \in S
      BY <1>0, <2>1
    <3> QED
      BY <1>0, <1>4, <3>1
  <2> QED
    BY <2>1
<1>6. PICK i \in 1 .. F.size - 1 : PrimitiveElement(F) = Element(F, i) /\ Found(i)
  <2>1. PrimitiveElement(F) = Element(F, CHOOSE i \in 1 .. F.size - 1 : Found(i))
    BY DEF PrimitiveElement
  <2>2. \E i \in 1 .. F.size - 1 : Found(i)
    BY <1>5
  <2> HIDE DEF Found
  <2> QED
    BY <2>1, <2>2
<1>7. PrimitiveElement(F) \in Elements(F)
  <2>1. i \in SymbolsOf(F)
    BY <1>0 DEF SymbolsOf
  <2> QED
    BY <1>0, <1>6, <2>1, ElementsAre
<1>8. PrimitiveElement(F) \in Units(F) /\ HasOrder(F, PrimitiveElement(F), F.size - 1)
  <2>1. PrimitiveElement(F) \in Units(F)
    BY <1>2, <1>6, <1>7 DEF Units
  <2> QED
    BY <1>1, <1>6, <2>1
<1>9. ASSUME NEW j \in Nat \ {0}
      PROVE  Entry(F, j) \in Units(F) /\ AsInt(F, Entry(F, j)) \in 1 .. F.size - 1
  <2>1. Entry(F, j) = PowerOf(F, PrimitiveElement(F), j)
    BY <1>0, <1>7, PowerIs DEF Entry
  <2>2. Entry(F, j) \in Units(F)
    BY <1>8, <2>1, UnitPowers
  <2>3. /\ AsInt(F, Entry(F, j)) \in SymbolsOf(F)
        /\ Element(F, AsInt(F, Entry(F, j))) = Entry(F, j)
        /\ Element(F, 0) = Zero /\ Entry(F, j) # Zero
    BY <1>0, <2>2, ElementsAre DEF Units
  <2> QED
    BY <1>0, <2>2, <2>3 DEF SymbolsOf
<1> QED
  BY <1>8, <1>9

-----------------------------------------------------------------------------
(* Numbers among the polynomials                                           *)

Numeral(p, c) == IF c % p = 0 THEN Zero ELSE Monomial(0, c % p)

LEMMA NumeralIs ==
  ASSUME NEW p \in Nat \ {0, 1}, NEW c \in Nat
  PROVE  /\ Numeral(p, c) \in Polys(p) /\ Numeral(p, c + 1) = Add(p, Numeral(p, c), One)
         /\ Numeral(p, 0) = Zero /\ Numeral(p, p) = Zero
         /\ c \in 1 .. p - 1 => Numeral(p, c) = Monomial(0, c) /\ Numeral(p, c) # Zero
<1>0. p \in Nat \ {0}
  OBVIOUS
<1>1. ASSUME NEW n \in Nat
      PROVE  Numeral(p, n) \in Polys(p) /\ \A k : Coeff(Numeral(p, n), k) = IF k = 0 THEN n % p ELSE 0
  <2>1. n % p \in 0 .. p - 1
    BY <1>0, Remainder
  <2>2. CASE n % p = 0
    BY <1>0, <2>2, ZeroIs DEF Numeral
  <2>3. CASE n % p # 0
    <3>1. PICK v \in 1 .. p - 1 : v = n % p
      BY <2>1, <2>3
    <3>2. Monomial(0, v) \in Polys(p) /\ DOMAIN Monomial(0, v) = {0} /\ Monomial(0, v)[0] = v
      <4>1. \A e \in Nat :
              /\ Monomial(e, v) \in Polys(p) /\ DOMAIN Monomial(e, v) = {e}
              /\ Monomial(e, v)[e] = v
        BY <1>0, MonomialIs
      <4> QED
        BY <4>1
    <3>3. Numeral(p, n) = Monomial(0, v)
      BY <2>3, <3>1 DEF Numeral
    <3> QED
      BY <3>1, <3>2, <3>3 DEF Coeff
  <2> QED
    BY <2>2, <2>3
<1>2. c + 1 \in Nat
  OBVIOUS
<1>3. PICK one \in Polys(p) : one = One /\ \A k : Coeff(one, k) = IF k = 0 THEN 1 ELSE 0
  <2>1. Numeral(p, 1) = One /\ 1 % p = 1
    <3>1. 1 % p = 1
      BY <1>0
    <3> QED
      BY <3>1 DEF Numeral, One
  <2>2. 1 \in Nat
    OBVIOUS
  <2> QED
    BY <1>1, <2>1, <2>2
<1>4. PICK a \in Polys(p) : a = Numeral(p, c) /\ \A k : Coeff(a, k) = IF k = 0 THEN c % p ELSE 0
  BY <1>1
<1>5. ((c % p) + 1) % p = (c + 1) % p
  <2>0. c \in Int /\ 1 \in Int /\ c + 1 \in Int
    OBVIOUS
  <2>1. Congruent(p, c % p, c) /\ Congruent(p, 1, 1) /\ c % p \in Int
    BY <1>0, <2>0, Modulo
  <2>2. PICK v \in Int : v = c % p
    BY <2>1
  <2>3. Congruent(p, v + 1, c + 1)
    BY <1>0, <2>0, <2>1, <2>2, CongruentSums
  <2>4. v + 1 \in Int
    OBVIOUS
  <2> QED
    BY <1>0, <2>0, <2>2, <2>3, <2>4, SameRemainder
<1>6. Numeral(p, c + 1) = Add(p, a, one)
  <2>1. Add(p, a, one) \in Polys(p) /\ Numeral(p, c + 1) \in Polys(p)
    BY <1>0, <1>1, <1>2, AddIs
  <2>2. ASSUME NEW k \in Nat PROVE Coeff(Add(p, a, one), k) = Coeff(Numeral(p, c + 1), k)
    <3>1. Coeff(Add(p, a, one), k) = (Coeff(a, k) + Coeff(one, k)) % p
      BY <1>0, AddIs
    <3>2. Coeff(Numeral(p, c + 1), k) = IF k = 0 THEN (c + 1) % p ELSE 0
      BY <1>1, <1>2
    <3>3. (0 + 0) % p = 0
      BY <1>0
    <3> QED
      BY <1>3, <1>4, <1>5, <3>1, <3>2, <3>3
  <2> QED
    BY <1>0, <2>1, <2>2, SamePoly
<1>7. Numeral(p, 0) = Zero /\ Numeral(p, p) = Zero
  <2>1. 0 % p = 0 /\ p % p = 0
    BY <1>0
  <2> QED
    BY <2>1 DEF Numeral
<1>8. c \in 1 .. p - 1 => Numeral(p, c) = Monomial(0, c) /\ Numeral(p, c) # Zero
  <2> SUFFICES ASSUME c \in 1 .. p - 1 PROVE Numeral(p, c) = Monomial(0, c) /\ Numeral(p, c) # Zero
    OBVIOUS
  <2>1. c % p = c
    BY <1>0
  <2>2. Numeral(p, c) = Monomial(0, c)
    BY <2>1 DEF Numeral
  <2>3. DOMAIN Monomial(0, c) = {0}
    BY DEF Monomial
  <2> QED
    BY <1>0, <2>2, <2>3, ZeroIs
<1> QED
  BY <1>3, <1>4, <1>6, <1>7, <1>8

-----------------------------------------------------------------------------
(* (a + b)^p = a^p + b^p                                                   *)

\* t[m][j] is the term with a^j of (a + b)^m, and s[m][j] the sum of those below j.
Expands(p, a, b, t, s) ==
  /\ t \in [Nat -> [Nat -> Polys(p)]] /\ s \in [Nat -> [Nat -> Polys(p)]]
  /\ t[0][0] = One /\ \A j \in Nat : t[0][j + 1] = Zero
  /\ \A m \in Nat : t[m + 1][0] = Mul(p, b, t[m][0])
  /\ \A m, j \in Nat : t[m + 1][j + 1] = Add(p, Mul(p, b, t[m][j + 1]), Mul(p, a, t[m][j]))
  /\ \A m \in Nat : s[m][0] = Zero
  /\ \A m, j \in Nat : s[m][j + 1] = Add(p, s[m][j], t[m][j])

LEMMA ExpansionExists ==
  ASSUME NEW p \in Nat \ {0, 1}, NEW a \in Polys(p), NEW b \in Polys(p)
  PROVE  \E t, s : Expands(p, a, b, t, s)
<1> DEFINE P == Polys(p)
           R == [Nat -> P]
           start == [j \in Nat |-> IF j = 0 THEN One ELSE Zero]
           step == [r \in R |-> [j \in Nat |-> IF j = 0 THEN Mul(p, b, r[0])
                                 ELSE Add(p, Mul(p, b, r[j]), Mul(p, a, r[j - 1]))]]
<1>1. \A x, y \in P : Add(p, x, y) \in P /\ Mul(p, x, y) \in P
  BY PolySums
<1>2. start \in R
  BY PolySums
<1>3. step \in [R -> R]
  <2>1. ASSUME NEW r \in R PROVE step[r] \in R
    <3>1. ASSUME NEW j \in Nat, j # 0 PROVE Add(p, Mul(p, b, r[j]), Mul(p, a, r[j - 1])) \in P
      <4>1. r[j] \in P /\ r[j - 1] \in P
        BY <3>1
      <4> QED
        BY <1>1, <4>1
    <3>2. Mul(p, b, r[0]) \in P
      BY <1>1
    <3> QED
      BY <3>1, <3>2
  <2> QED
    BY <2>1
<1>4. PICK t : Repeats(t, R, start, step)
  <2> HIDE DEF R, start, step
  <2> QED
    BY <1>2, <1>3, Iterates
<1>5. t \in [Nat -> R] /\ t[0] = start /\ \A m \in Nat : t[m + 1] = step[t[m]]
  BY <1>4 DEF Repeats
<1>6. ASSUME NEW m \in Nat
      PROVE  /\ t[m + 1][0] = Mul(p, b, t[m][0])
             /\ \A j \in Nat : t[m + 1][j + 1] = Add(p, Mul(p, b, t[m][j + 1]), Mul(p, a, t[m][j]))
  <2>1. PICK r \in R : r = t[m] /\ t[m + 1] = step[r]
    BY <1>5
  <2>2. step[r][0] = Mul(p, b, r[0])
    OBVIOUS
  <2>3. ASSUME NEW j \in Nat
        PROVE  step[r][j + 1] = Add(p, Mul(p, b, r[j + 1]), Mul(p, a, r[j]))
    <3>1. j + 1 \in Nat /\ j + 1 # 0 /\ (j + 1) - 1 = j
      OBVIOUS
    <3> QED
      BY <3>1
  <2> QED
    BY <2>1, <2>2, <2>3
<1>7. t[0][0] = One /\ \A j \in Nat : t[0][j + 1] = Zero
  BY <1>5
<1> HIDE DEF start, step
\* The sums of a row.
<1> DEFINE Sums(m, h) == /\ h \in R /\ h[0] = Zero
                         /\ \A j \in Nat : h[j + 1] = Add(p, h[j], t[m][j])
<1>8. ASSUME NEW m \in Nat PROVE \E h : Sums(m, h)
  <2> DEFINE Q   == Nat \X P
             adv == [e \in Q |-> <<e[1] + 1, Add(p, e[2], t[m][e[1]])>>]
  <2>1. ASSUME NEW e \in Q PROVE <<e[1] + 1, Add(p, e[2], t[m][e[1]])>> \in Q
    <3>1. e[1] \in Nat /\ e[2] \in P /\ t[m][e[1]] \in P
      BY <1>5
    <3> QED
      BY <1>1, <3>1
  <2>2. adv \in [Q -> Q] /\ <<0, Zero>> \in Q
    <3>1. Zero \in P
      BY PolySums
    <3> QED
      BY <2>1, <3>1
  <2>3. PICK g : Repeats(g, Q, <<0, Zero>>, adv)
    <3> HIDE DEF Q, adv
    <3> QED
      BY <2>2, Iterates
  <2>4. g \in [Nat -> Q] /\ g[0] = <<0, Zero>> /\ \A j \in Nat : g[j + 1] = adv[g[j]]
    BY <2>3 DEF Repeats
  <2>5. ASSUME NEW j \in Nat PROVE g[j + 1] = <<g[j][1] + 1, Add(p, g[j][2], t[m][g[j][1]])>>
    BY <2>4
  <2> DEFINE G == {j \in Nat : g[j][1] = j}
  <2>6. 0 \in G
    BY <2>4
  <2>7. ASSUME NEW j \in G PROVE j + 1 \in G
    BY <2>5
  <2>8. G = Nat
    <3>1. G \in SUBSET Nat
      OBVIOUS
    <3> HIDE DEF G
    <3> QED
      BY <2>6, <2>7, <3>1, Counting
  <2>9. Sums(m, [j \in Nat |-> g[j][2]])
    <3>1. ASSUME NEW j \in Nat
          PROVE  j + 1 \in Nat /\ g[j][2] \in P /\ g[j + 1][2] = Add(p, g[j][2], t[m][j])
      <4>1. g[j] \in Q /\ g[j][1] = j
        BY <2>4, <2>8
      <4> QED
        BY <2>5, <4>1
    <3>2. g[0][2] = Zero
      BY <2>4
    <3> QED
      BY <3>1, <3>2
  <2> QED
    BY <2>9
<1> DEFINE s == [m \in Nat |-> CHOOSE h : Sums(m, h)]
<1>9. ASSUME NEW m \in Nat PROVE Sums(m, s[m])
  <2> HIDE DEF Sums
  <2> QED
    BY <1>8
<1>10. Expands(p, a, b, t, s)
  <2>0. s = [m \in Nat |-> s[m]]
    OBVIOUS
  <2> HIDE DEF s
  <2>1. s = [m \in Nat |-> s[m]] /\ \A m \in Nat : s[m] \in [Nat -> P]
    BY <1>9, <2>0
  <2>2. s \in [Nat -> [Nat -> P]]
    BY <2>1
  <2>3. t \in [Nat -> [Nat -> P]]
    BY <1>5
  <2>4. \A m \in Nat : s[m][0] = Zero /\ \A j \in Nat : s[m][j + 1] = Add(p, s[m][j], t[m][j])
    BY <1>9
  <2> QED
    BY <1>6, <1>7, <2>2, <2>3, <2>4 DEF Expands
<1> QED
  BY <1>10

LEMMA ExpansionType ==
  ASSUME NEW p \in Nat \ {0, 1}, NEW a \in Polys(p), NEW b \in Polys(p), NEW t, NEW s,
         Expands(p, a, b, t, s), NEW m \in Nat, NEW j \in Nat
  PROVE  /\ t[m][j] \in Polys(p) /\ s[m][j] \in Polys(p) /\ m + 1 \in Nat /\ j + 1 \in Nat
         /\ s[m][0] = Zero /\ s[m][j + 1] = Add(p, s[m][j], t[m][j])
         /\ t[m + 1][0] = Mul(p, b, t[m][0])
         /\ t[m + 1][j + 1] = Add(p, Mul(p, b, t[m][j + 1]), Mul(p, a, t[m][j]))
<1>1. t[m] \in [Nat -> Polys(p)] /\ s[m] \in [Nat -> Polys(p)]
  BY DEF Expands
<1>2. s[m][0] = Zero /\ s[m][j + 1] = Add(p, s[m][j], t[m][j])
  BY DEF Expands
<1>3. t[m + 1][0] = Mul(p, b, t[m][0])
      /\ t[m + 1][j + 1] = Add(p, Mul(p, b, t[m][j + 1]), Mul(p, a, t[m][j]))
  BY DEF Expands
<1> QED
  BY <1>1, <1>2, <1>3

\* The sums of one row come from those of the row before, so the last is the power.
LEMMA RowsAddUp ==
  ASSUME NEW p \in Nat \ {0, 1}, NEW a \in Polys(p), NEW b \in Polys(p), NEW t, NEW s,
         Expands(p, a, b, t, s), NEW m \in Nat
  PROVE  /\ \A j \in Nat : s[m + 1][j + 1] = Add(p, Mul(p, b, s[m][j + 1]), Mul(p, a, s[m][j]))
         /\ \A j \in Nat : j > m => t[m][j] = Zero
         /\ s[m][m + 1] = Exp(p, Add(p, a, b), m)
<1>1. ASSUME NEW i \in Nat, NEW j \in Nat
      PROVE  /\ t[i][j] \in Polys(p) /\ s[i][j] \in Polys(p)
             /\ s[i][0] = Zero /\ s[i][j + 1] = Add(p, s[i][j], t[i][j])
             /\ t[i + 1][0] = Mul(p, b, t[i][0])
             /\ t[i + 1][j + 1] = Add(p, Mul(p, b, t[i][j + 1]), Mul(p, a, t[i][j]))
  BY ExpansionType
<1>2. 0 \in Nat /\ m + 1 \in Nat
  OBVIOUS
<1>3. ASSUME NEW i \in Nat, NEW j \in Nat
      PROVE  s[i + 1][j + 1] = Add(p, Mul(p, b, s[i][j + 1]), Mul(p, a, s[i][j]))
  <2> DEFINE G == {k \in Nat : s[i + 1][k + 1] = Add(p, Mul(p, b, s[i][k + 1]), Mul(p, a, s[i][k]))}
  <2>0. i + 1 \in Nat /\ 0 \in Nat
    OBVIOUS
  <2>1. 0 \in G
    <3>1. s[i + 1][0 + 1] = Add(p, s[i + 1][0], t[i + 1][0]) /\ s[i + 1][0] = Zero
          /\ t[i + 1][0] = Mul(p, b, t[i][0])
      BY <1>1, <2>0
    <3>2. s[i][0 + 1] = Add(p, s[i][0], t[i][0]) /\ s[i][0] = Zero /\ t[i][0] \in Polys(p)
      BY <1>1, <2>0
    <3>3. Add(p, Zero, t[i][0]) = t[i][0]
      BY <3>2, PolySums
    <3>4. PICK x \in Polys(p) : x = Mul(p, b, t[i][0])
      BY <3>2, PolySums
    <3>5. Add(p, Zero, x) = x /\ Add(p, x, Zero) = x /\ Mul(p, a, Zero) = Zero
      BY PolySums
    <3> QED
      BY <2>0, <3>1, <3>2, <3>3, <3>4, <3>5
  <2>2. ASSUME NEW k \in G PROVE k + 1 \in G
    <3>0. k \in Nat /\ k + 1 \in Nat
      OBVIOUS
    <3>1. PICK u1 \in Polys(p), u0 \in Polys(p), v1 \in Polys(p), v0 \in Polys(p) :
            u1 = s[i][k + 1] /\ u0 = s[i][k] /\ v1 = t[i][k + 1] /\ v0 = t[i][k]
      BY <1>1, <3>0
    <3>2. s[i][(k + 1) + 1] = Add(p, u1, v1) /\ u1 = Add(p, u0, v0)
      BY <1>1, <3>0, <3>1
    <3>3. s[i + 1][(k + 1) + 1] = Add(p, s[i + 1][k + 1], t[i + 1][k + 1])
      BY <1>1, <2>0, <3>0
    <3>4. s[i + 1][k + 1] = Add(p, Mul(p, b, u1), Mul(p, a, u0))
      BY <3>1
    <3>5. t[i + 1][k + 1] = Add(p, Mul(p, b, v1), Mul(p, a, v0))
      BY <1>1, <3>0, <3>1
    <3>6. PICK w \in Polys(p), x \in Polys(p), y \in Polys(p), z \in Polys(p) :
            w = Mul(p, b, u1) /\ x = Mul(p, a, u0) /\ y = Mul(p, b, v1) /\ z = Mul(p, a, v0)
      BY PolySums
    <3>7. Add(p, Add(p, w, x), Add(p, y, z)) = Add(p, Add(p, w, y), Add(p, x, z))
      BY SumsSwap
    <3>8. Add(p, w, y) = Mul(p, b, Add(p, u1, v1)) /\ Add(p, x, z) = Mul(p, a, Add(p, u0, v0))
      BY <3>6, PolynomialRing
    <3> QED
      BY <3>0, <3>1, <3>2, <3>3, <3>4, <3>5, <3>6, <3>7, <3>8
  <2>3. G \in SUBSET Nat
    OBVIOUS
  <2> HIDE DEF G
  <2>4. G = Nat
    BY <2>1, <2>2, <2>3, Counting
  <2> QED
    BY <2>4 DEF G
<1> DEFINE H == {i \in Nat : /\ \A j \in Nat : j > i => t[i][j] = Zero
                             /\ s[i][i + 1] = Exp(p, Add(p, a, b), i)}
<1>4. PICK c \in Polys(p) : c = Add(p, a, b)
  BY PolySums
<1>5. 0 \in H
  <2>1. ASSUME NEW j \in Nat, j > 0 PROVE t[0][j] = Zero
    <3>1. j - 1 \in Nat /\ (j - 1) + 1 = j
      BY <2>1
    <3>2. \A k \in Nat : t[0][k + 1] = Zero
      BY DEF Expands
    <3> QED
      BY <3>1, <3>2
  <2>2. s[0][0 + 1] = Add(p, Zero, One)
    <3>1. t[0][0] = One
      BY DEF Expands
    <3> QED
      BY <1>1, <1>2, <3>1
  <2>3. One \in Polys(p) /\ Add(p, Zero, One) = One
    <3>1. One \in Polys(p)
      BY PolySums
    <3> QED
      BY <3>1, PolySums
  <2>4. Exp(p, c, 0) = One
    BY <1>2, ExpIs
  <2> QED
    BY <1>4, <2>1, <2>2, <2>3, <2>4
<1>6. ASSUME NEW i \in H PROVE i + 1 \in H
  <2>0. i \in Nat /\ i + 1 \in Nat
    OBVIOUS
  <2>1. ASSUME NEW j \in Nat, j > i + 1 PROVE t[i + 1][j] = Zero
    <3>1. PICK k \in Nat : j = k + 1 /\ k > i /\ k + 1 > i
      <4>1. j - 1 \in Nat /\ j = (j - 1) + 1 /\ j - 1 > i /\ (j - 1) + 1 > i
        BY <2>0, <2>1
      <4> QED
        BY <4>1
    <3>2. t[i][k] = Zero /\ t[i][k + 1] = Zero
      BY <3>1
    <3>3. t[i + 1][j] = Add(p, Mul(p, b, Zero), Mul(p, a, Zero))
      BY <1>1, <2>0, <3>1, <3>2
    <3>4. Mul(p, b, Zero) = Zero /\ Mul(p, a, Zero) = Zero /\ Zero \in Polys(p)
      BY PolySums
    <3>5. Add(p, Zero, Zero) = Zero
      BY <3>4, PolySums
    <3> QED
      BY <3>3, <3>4, <3>5
  <2>2. PICK x \in Polys(p) : x = s[i][i + 1] /\ x = Exp(p, c, i)
    BY <1>1, <1>4, <2>0
  <2>3. s[i][(i + 1) + 1] = x
    <3>1. t[i][i + 1] = Zero
      BY <2>0
    <3>2. s[i][(i + 1) + 1] = Add(p, x, Zero)
      <4>1. s[i][(i + 1) + 1] = Add(p, s[i][i + 1], t[i][i + 1])
        BY <1>1, <2>0
      <4> QED
        BY <2>2, <3>1, <4>1
    <3> QED
      BY <3>2, PolySums
  <2>4. s[i + 1][(i + 1) + 1] = Add(p, Mul(p, b, x), Mul(p, a, x))
    BY <1>3, <2>0, <2>2, <2>3
  <2>5. Exp(p, c, i + 1) = Mul(p, c, x)
    BY <2>0, <2>2, ExpIs
  <2>6. Mul(p, c, x) = Add(p, Mul(p, b, x), Mul(p, a, x))
    <3>1. Mul(p, c, x) = Mul(p, x, c) /\ Mul(p, x, a) = Mul(p, a, x) /\ Mul(p, x, b) = Mul(p, b, x)
      BY PolySums
    <3>2. Mul(p, x, Add(p, a, b)) = Add(p, Mul(p, x, a), Mul(p, x, b))
      BY PolynomialRing
    <3>3. PICK y \in Polys(p), z \in Polys(p) : y = Mul(p, a, x) /\ z = Mul(p, b, x)
      BY PolySums
    <3>4. Add(p, y, z) = Add(p, z, y)
      BY PolySums
    <3> QED
      BY <1>4, <3>1, <3>2, <3>3, <3>4
  <2> QED
    BY <1>4, <2>0, <2>1, <2>4, <2>5, <2>6
<1>7. H = Nat
  <2>1. H \in SUBSET Nat
    OBVIOUS
  <2> HIDE DEF H
  <2> QED
    BY <1>5, <1>6, <2>1, Counting
<1> QED
  BY <1>3, <1>7

\* One step of the induction that follows.
AbsorbTerms(p, a, b, c, d, r1, r0, w1, w0) ==
  /\ p \in Nat \ {0, 1} /\ a \in Polys(p) /\ b \in Polys(p) /\ c \in Polys(p) /\ d \in Polys(p)
  /\ r1 \in Polys(p) /\ r0 \in Polys(p) /\ w1 \in Polys(p) /\ w0 \in Polys(p)
  /\ Mul(p, Add(p, c, One), r1) = Mul(p, d, Mul(p, a, w1))
  /\ Mul(p, c, r0) = Mul(p, d, Mul(p, a, w0))
  /\ r0 = Add(p, Mul(p, b, w1), Mul(p, a, w0))

LEMMA AbsorbStep ==
  ASSUME NEW p, NEW a, NEW b, NEW c, NEW d, NEW r1, NEW r0, NEW w1, NEW w0,
         AbsorbTerms(p, a, b, c, d, r1, r0, w1, w0)
  PROVE  Mul(p, Add(p, c, One), Add(p, Mul(p, b, r1), Mul(p, a, r0)))
         = Mul(p, Add(p, d, One), Mul(p, a, r0))
<1> USE DEF AbsorbTerms
<1>0. One \in Polys(p)
  BY PolySums
<1>1. PICK c1 \in Polys(p), d1 \in Polys(p) : c1 = Add(p, c, One) /\ d1 = Add(p, d, One)
  BY <1>0, PolySums
<1>2. PICK x1 \in Polys(p), x0 \in Polys(p), y \in Polys(p) :
        x1 = Mul(p, a, w1) /\ x0 = Mul(p, a, w0) /\ y = Mul(p, a, r0)
  BY PolySums
<1>3. PICK br \in Polys(p), bx \in Polys(p), ax \in Polys(p) :
        br = Mul(p, b, r1) /\ bx = Mul(p, b, x1) /\ ax = Mul(p, a, x0)
  BY PolySums
<1>4. PICK u \in Polys(p), v \in Polys(p) : u = Mul(p, d, bx) /\ v = Mul(p, d, ax)
  BY PolySums
<1>5. Mul(p, c1, br) = u
  <2>1. Mul(p, c1, br) = Mul(p, b, Mul(p, c1, r1))
    BY <1>3, MulAt
  <2>2. Mul(p, c1, r1) = Mul(p, d, x1)
    BY <1>1, <1>2
  <2>3. Mul(p, b, Mul(p, d, x1)) = Mul(p, d, Mul(p, b, x1))
    BY MulAt
  <2> QED
    BY <1>3, <1>4, <2>1, <2>2, <2>3
<1>6. Mul(p, c1, y) = Add(p, v, y)
  <2>1. Mul(p, c1, y) = Mul(p, a, Mul(p, c1, r0))
    BY <1>2, MulAt
  <2>2. Mul(p, c1, r0) = Add(p, Mul(p, c, r0), r0)
    <3>1. Mul(p, c1, r0) = Add(p, Mul(p, c, r0), Mul(p, One, r0))
      BY <1>0, <1>1, MulDistributes
    <3> QED
      BY <3>1, MulOfOne
  <2>3. PICK z \in Polys(p) : z = Mul(p, d, x0)
    BY PolySums
  <2>4. Mul(p, c1, r0) = Add(p, z, r0)
    BY <1>2, <2>2, <2>3
  <2>5. Mul(p, a, Add(p, z, r0)) = Add(p, Mul(p, a, z), Mul(p, a, r0))
    BY PolynomialRing
  <2>6. Mul(p, a, z) = v
    <3>1. Mul(p, a, Mul(p, d, x0)) = Mul(p, d, Mul(p, a, x0))
      BY MulAt
    <3> QED
      BY <1>3, <1>4, <2>3, <3>1
  <2> QED
    BY <1>2, <2>1, <2>4, <2>5, <2>6
<1>7. y = Add(p, bx, ax)
  <2>1. PICK bw \in Polys(p) : bw = Mul(p, b, w1)
    BY PolySums
  <2>2. r0 = Add(p, bw, x0)
    BY <1>2, <2>1
  <2>3. Mul(p, a, Add(p, bw, x0)) = Add(p, Mul(p, a, bw), Mul(p, a, x0))
    BY PolynomialRing
  <2>4. Mul(p, a, Mul(p, b, w1)) = Mul(p, b, Mul(p, a, w1))
    BY MulAt
  <2> QED
    BY <1>2, <1>3, <2>1, <2>2, <2>3, <2>4
<1>8. Add(p, u, v) = Mul(p, d, y)
  BY <1>4, <1>7, PolynomialRing
<1>9. Mul(p, d1, y) = Add(p, Mul(p, d, y), y)
  <2>1. Mul(p, d1, y) = Add(p, Mul(p, d, y), Mul(p, One, y))
    BY <1>0, <1>1, MulDistributes
  <2> QED
    BY <2>1, MulOfOne
<1>10. Mul(p, c1, Add(p, br, y)) = Add(p, u, Add(p, v, y))
  BY <1>5, <1>6, PolynomialRing
<1>11. Add(p, u, Add(p, v, y)) = Add(p, Add(p, u, v), y)
  BY AddAssociates
<1> QED
  BY <1>1, <1>2, <1>3, <1>8, <1>9, <1>10, <1>11

\* The terms of a row, times their number, are those of the row before, times its length.
LEMMA Absorbs ==
  ASSUME NEW p \in Nat \ {0, 1}, NEW a \in Polys(p), NEW b \in Polys(p), NEW t, NEW s,
         Expands(p, a, b, t, s), NEW m \in Nat, NEW n \in Nat
  PROVE  Mul(p, Numeral(p, n + 1), t[m + 1][n + 1]) = Mul(p, Numeral(p, m + 1), Mul(p, a, t[m][n]))
<1>1. ASSUME NEW i \in Nat, NEW j \in Nat
      PROVE  /\ t[i][j] \in Polys(p)
             /\ t[i + 1][0] = Mul(p, b, t[i][0])
             /\ t[i + 1][j + 1] = Add(p, Mul(p, b, t[i][j + 1]), Mul(p, a, t[i][j]))
  BY ExpansionType
<1>2. \A i \in Nat : Numeral(p, i) \in Polys(p) /\ Numeral(p, i + 1) = Add(p, Numeral(p, i), One)
  BY NumeralIs
<1>3. 0 \in Nat /\ Numeral(p, 0) = Zero /\ One \in Polys(p) /\ Zero \in Polys(p)
  <2>1. 0 \in Nat
    OBVIOUS
  <2> QED
    BY <2>1, NumeralIs, PolySums
<1>4. t[0][0] = One /\ \A j \in Nat : t[0][j + 1] = Zero
  BY DEF Expands
<1> DEFINE Row(i) == \A j \in Nat : Mul(p, Numeral(p, j + 1), t[i + 1][j + 1])
                                    = Mul(p, Numeral(p, i + 1), Mul(p, a, t[i][j]))
           G == {i \in Nat : Row(i)}
<1>5. 0 \in G
  <2>1. Numeral(p, 0 + 1) = One
    <3>1. Add(p, Zero, One) = One
      BY <1>3, PolySums
    <3> QED
      BY <1>2, <1>3, <3>1
  <2> SUFFICES ASSUME NEW j \in Nat
               PROVE  Mul(p, Numeral(p, j + 1), t[0 + 1][j + 1])
                      = Mul(p, Numeral(p, 0 + 1), Mul(p, a, t[0][j]))
    BY <1>3
  <2>2. PICK x \in Polys(p) : x = Mul(p, a, t[0][j])
    <3>1. t[0][j] \in Polys(p)
      BY <1>1, <1>3
    <3> QED
      BY <3>1, PolySums
  <2>3. t[0 + 1][j + 1] = x
    <3>1. t[0 + 1][j + 1] = Add(p, Mul(p, b, Zero), x)
      BY <1>1, <1>3, <1>4, <2>2
    <3>2. Mul(p, b, Zero) = Zero /\ Add(p, Zero, x) = x
      BY PolySums
    <3> QED
      BY <3>1, <3>2
  <2>4. CASE j = 0
    BY <2>1, <2>2, <2>3, <2>4
  <2>5. CASE j # 0
    <3>1. PICK k \in Nat : j = k + 1
      <4>1. j - 1 \in Nat /\ j = (j - 1) + 1
        BY <2>5
      <4> QED
        BY <4>1
    <3>2. x = Zero
      <4>1. t[0][j] = Zero
        BY <1>4, <3>1
      <4>2. Mul(p, a, Zero) = Zero
        BY PolySums
      <4> QED
        BY <2>2, <4>1, <4>2
    <3>3. PICK c \in Polys(p) : c = Numeral(p, j + 1)
      <4>1. j + 1 \in Nat
        OBVIOUS
      <4> QED
        BY <1>2, <4>1
    <3>4. Mul(p, c, Zero) = Zero /\ Mul(p, One, Zero) = Zero
      BY <1>3, PolySums
    <3> QED
      BY <2>1, <2>2, <2>3, <3>2, <3>3, <3>4
  <2> QED
    BY <2>4, <2>5
<1>6. ASSUME NEW i \in G PROVE i + 1 \in G
  <2>0. i \in Nat /\ i + 1 \in Nat /\ Row(i)
    OBVIOUS
  <2> HIDE DEF Row
  <2> SUFFICES ASSUME NEW j \in Nat
               PROVE  Mul(p, Numeral(p, j + 1), t[(i + 1) + 1][j + 1])
                      = Mul(p, Numeral(p, (i + 1) + 1), Mul(p, a, t[i + 1][j]))
    BY <2>0 DEF Row
  <2>1. PICK r1 \in Polys(p), r0 \in Polys(p), w1 \in Polys(p) :
          r1 = t[i + 1][j + 1] /\ r0 = t[i + 1][j] /\ w1 = t[i][j]
    <3>1. j + 1 \in Nat
      OBVIOUS
    <3> QED
      BY <1>1, <2>0, <3>1
  <2>2. PICK c \in Polys(p), d \in Polys(p) :
          /\ c = Numeral(p, j) /\ Numeral(p, j + 1) = Add(p, c, One)
          /\ d = Numeral(p, i + 1) /\ Numeral(p, (i + 1) + 1) = Add(p, d, One)
    BY <1>2, <2>0
  <2>3. t[(i + 1) + 1][j + 1] = Add(p, Mul(p, b, r1), Mul(p, a, r0))
    BY <1>1, <2>0, <2>1
  <2>4. Mul(p, Add(p, c, One), r1) = Mul(p, d, Mul(p, a, w1))
    BY <2>0, <2>1, <2>2 DEF Row
  <2>5. PICK w0 \in Polys(p) : /\ Mul(p, c, r0) = Mul(p, d, Mul(p, a, w0))
                                /\ r0 = Add(p, Mul(p, b, w1), Mul(p, a, w0))
    <3>1. CASE j = 0
      <4>1. c = Zero
        BY <1>3, <2>2, <3>1
      <4>2. Mul(p, Zero, r0) = Zero /\ Mul(p, a, Zero) = Zero /\ Mul(p, d, Zero) = Zero
        BY PolySums
      <4>3. r0 = Mul(p, b, w1)
        BY <1>1, <2>0, <2>1, <3>1
      <4>4. Add(p, r0, Zero) = r0
        BY PolySums
      <4> QED
        BY <1>3, <4>1, <4>2, <4>3, <4>4
    <3>2. CASE j # 0
      <4>1. PICK k \in Nat : j = k + 1
        <5>1. j - 1 \in Nat /\ j = (j - 1) + 1
          BY <3>2
        <5> QED
          BY <5>1
      <4>2. PICK w0 \in Polys(p) : w0 = t[i][k]
        BY <1>1, <2>0
      <4>3. r0 = Add(p, Mul(p, b, w1), Mul(p, a, w0))
        BY <1>1, <2>0, <2>1, <4>1, <4>2
      <4>4. Mul(p, c, r0) = Mul(p, d, Mul(p, a, w0))
        BY <2>0, <2>1, <2>2, <4>1, <4>2 DEF Row
      <4> QED
        BY <4>3, <4>4
    <3> QED
      BY <3>1, <3>2
  <2>6. Mul(p, Add(p, c, One), Add(p, Mul(p, b, r1), Mul(p, a, r0)))
        = Mul(p, Add(p, d, One), Mul(p, a, r0))
    <3>1. AbsorbTerms(p, a, b, c, d, r1, r0, w1, w0)
      BY <2>4, <2>5 DEF AbsorbTerms
    <3> QED
      BY <3>1, AbsorbStep
  <2> QED
    BY <2>1, <2>2, <2>3, <2>6
<1>7. G = Nat
  <2>1. G \in SUBSET Nat
    OBVIOUS
  <2> HIDE DEF G
  <2> QED
    BY <1>5, <1>6, <2>1, Counting
<1> QED
  BY <1>7

(* In characteristic p the p-th power of a sum is the sum of the p-th      *)
(* powers.                                                                 *)
LEMMA PowerOfSum ==
  ASSUME NEW p \in Nat \ {0, 1}, IsPrime(p), NEW a \in Polys(p), NEW b \in Polys(p)
  PROVE  Exp(p, Add(p, a, b), p) = Add(p, Exp(p, a, p), Exp(p, b, p))
<1>1. PICK t, s : Expands(p, a, b, t, s)
  BY ExpansionExists
<1>2. PICK m \in Nat : p = m + 1 /\ m # 0
  <2>1. p - 1 \in Nat /\ p = (p - 1) + 1 /\ p - 1 # 0
    OBVIOUS
  <2> QED
    BY <2>1
<1>3. ASSUME NEW i \in Nat, NEW j \in Nat
      PROVE  /\ t[i][j] \in Polys(p) /\ s[i][j] \in Polys(p)
             /\ s[i][0] = Zero /\ s[i][j + 1] = Add(p, s[i][j], t[i][j])
             /\ t[i + 1][0] = Mul(p, b, t[i][0])
             /\ t[i + 1][j + 1] = Add(p, Mul(p, b, t[i][j + 1]), Mul(p, a, t[i][j]))
  BY <1>1, ExpansionType
<1>4. t[0][0] = One /\ 0 \in Nat /\ p \in Nat
  BY <1>1 DEF Expands
<1>5. ASSUME NEW i \in Nat PROVE t[i][0] = Exp(p, b, i) /\ t[i][i] = Exp(p, a, i)
  <2> DEFINE G == {k \in Nat : t[k][0] = Exp(p, b, k) /\ t[k][k] = Exp(p, a, k)}
  <2>1. 0 \in G
    BY <1>4, ExpIs
  <2>2. ASSUME NEW k \in G PROVE k + 1 \in G
    <3>1. k \in Nat /\ k + 1 \in Nat /\ k + 1 > k
      OBVIOUS
    <3>2. t[k][k + 1] = Zero
      BY <1>1, <3>1, RowsAddUp
    <3>3. t[k + 1][k + 1] = Add(p, Mul(p, b, Zero), Mul(p, a, Exp(p, a, k)))
      BY <1>3, <3>1, <3>2
    <3>4. t[k + 1][0] = Mul(p, b, Exp(p, b, k))
      BY <1>3, <3>1
    <3>5. /\ Exp(p, a, k + 1) = Mul(p, a, Exp(p, a, k)) /\ Exp(p, a, k + 1) \in Polys(p)
          /\ Exp(p, b, k + 1) = Mul(p, b, Exp(p, b, k))
      BY <3>1, ExpIs
    <3>6. Mul(p, b, Zero) = Zero /\ Add(p, Zero, Exp(p, a, k + 1)) = Exp(p, a, k + 1)
      BY <3>5, PolySums
    <3> QED
      BY <3>1, <3>3, <3>4, <3>5, <3>6
  <2>3. G \in SUBSET Nat
    OBVIOUS
  <2> HIDE DEF G
  <2>4. G = Nat
    BY <2>1, <2>2, <2>3, Counting
  <2> QED
    BY <2>4 DEF G
\* The terms between vanish.
<1>6. ASSUME NEW j \in Nat, j + 1 < p PROVE t[p][j + 1] = Zero
  <2>1. PICK y \in Polys(p) : y = t[p][j + 1]
    <3>1. j + 1 \in Nat
      OBVIOUS
    <3> QED
      BY <1>3, <1>4, <3>1
  <2>2. PICK x \in Polys(p) : x = Mul(p, a, t[m][j])
    <3>1. t[m][j] \in Polys(p)
      BY <1>3
    <3> QED
      BY <3>1, PolySums
  <2>3. PICK c \in Polys(p) : c = Numeral(p, j + 1) /\ c # Zero
    <3>1. j + 1 \in Nat /\ j + 1 \in 1 .. p - 1
      BY <1>6
    <3> QED
      BY <3>1, NumeralIs
  <2>4. Numeral(p, m + 1) = Zero
    BY <1>2, <1>4, NumeralIs
  <2>5. Mul(p, c, y) = Mul(p, Zero, x)
    BY <1>1, <1>2, <2>1, <2>2, <2>3, <2>4, Absorbs
  <2>6. Mul(p, c, y) = Zero
    BY <2>5, PolySums
  <2> QED
    BY <2>1, <2>3, <2>6, ProductDegree
<1> DEFINE S == {j \in Nat : j + 1 <= p => s[p][j + 1] = Exp(p, b, p)}
<1>7. PICK f \in Polys(p), g \in Polys(p) : f = Exp(p, a, p) /\ g = Exp(p, b, p)
  BY <1>4, ExpIs
<1>8. Add(p, Zero, g) = g /\ Add(p, g, Zero) = g
  BY PolySums
<1>9. 0 \in S
  BY <1>3, <1>4, <1>5, <1>7, <1>8
<1>10. ASSUME NEW j \in S PROVE j + 1 \in S
  <2>1. j \in Nat /\ j + 1 \in Nat
    OBVIOUS
  <2>2. CASE (j + 1) + 1 <= p
    <3>1. j + 1 <= p /\ j + 1 < p
      BY <1>4, <2>1, <2>2
    <3>2. s[p][j + 1] = g /\ t[p][j + 1] = Zero
      BY <1>6, <1>7, <2>1, <3>1
    <3>3. s[p][(j + 1) + 1] = Add(p, g, Zero)
      BY <1>3, <1>4, <2>1, <3>2
    <3> QED
      BY <1>7, <1>8, <2>1, <3>3
  <2> QED
    BY <2>1, <2>2
<1>11. S = Nat
  <2>1. S \in SUBSET Nat
    OBVIOUS
  <2> HIDE DEF S
  <2> QED
    BY <1>9, <1>10, <2>1, Counting
<1>12. s[p][p] = g
  <2>1. m \in S /\ m + 1 <= p
    BY <1>2, <1>4, <1>11
  <2>2. s[p][m + 1] = Exp(p, b, p)
    BY <2>1
  <2> QED
    BY <1>2, <1>7, <2>2
<1>13. s[p][p + 1] = Add(p, g, f)
  BY <1>3, <1>4, <1>5, <1>7, <1>12
<1>14. s[p][p + 1] = Exp(p, Add(p, a, b), p)
  BY <1>1, <1>4, RowsAddUp
<1>15. Add(p, g, f) = Add(p, f, g)
  BY PolySums
<1> QED
  BY <1>7, <1>13, <1>14, <1>15

\* And so for the powers of p; constants are fixed.
LEMMA Frobenius ==
  ASSUME NEW p \in Nat \ {0, 1}, IsPrime(p), NEW n \in Nat, NEW q, q = Raise(p, n)
  PROVE  /\ q \in Nat \ {0}
         /\ \A a, b \in Polys(p) : Exp(p, Add(p, a, b), q) = Add(p, Exp(p, a, q), Exp(p, b, q))
         /\ Exp(p, Zero, q) = Zero
         /\ \A c \in 1 .. p - 1 : Exp(p, Monomial(0, c), q) = Monomial(0, c)
<1> DEFINE Adds(k) == \A a, b \in Polys(p) :
                        Exp(p, Add(p, a, b), k) = Add(p, Exp(p, a, k), Exp(p, b, k))
           G == {k \in Nat : Adds(Raise(p, k))}
<1>1. p \in Nat /\ 0 \in Nat
  OBVIOUS
<1>2. 0 \in G
  <2>1. Raise(p, 0) = 1
    BY <1>1, RaiseIs
  <2>2. ASSUME NEW a \in Polys(p), NEW b \in Polys(p)
        PROVE  Exp(p, Add(p, a, b), 1) = Add(p, Exp(p, a, 1), Exp(p, b, 1))
    <3>1. Add(p, a, b) \in Polys(p)
      BY PolySums
    <3> QED
      BY <1>1, <3>1, ExpIs
  <2> QED
    BY <2>1, <2>2
<1>3. ASSUME NEW k \in G PROVE k + 1 \in G
  <2>1. PICK r \in Nat : r = Raise(p, k)
    BY <1>1, RaiseIs
  <2>2. Raise(p, k + 1) = r * p
    <3>1. Raise(p, k + 1) = p * r
      BY <1>1, <2>1, RaiseIs
    <3> QED
      BY <1>1, <3>1
  <2>3. ASSUME NEW a \in Polys(p), NEW b \in Polys(p)
        PROVE  Exp(p, Add(p, a, b), r * p) = Add(p, Exp(p, a, r * p), Exp(p, b, r * p))
    <3>1. PICK c \in Polys(p) : c = Add(p, a, b)
      BY PolySums
    <3>2. PICK x \in Polys(p), y \in Polys(p) : x = Exp(p, a, r) /\ y = Exp(p, b, r)
      BY ExpIs
    <3>3. Exp(p, c, r) = Add(p, x, y)
      BY <2>1, <3>1, <3>2
    <3>4. /\ Exp(p, Exp(p, c, r), p) = Exp(p, c, r * p)
          /\ Exp(p, x, p) = Exp(p, a, r * p) /\ Exp(p, y, p) = Exp(p, b, r * p)
      BY <1>1, <3>2, ExpMultiplies
    <3> QED
      BY <3>1, <3>3, <3>4, PowerOfSum
  <2> QED
    BY <2>1, <2>2, <2>3
<1>4. G = Nat
  <2>1. G \in SUBSET Nat
    OBVIOUS
  <2> HIDE DEF G
  <2> QED
    BY <1>2, <1>3, <2>1, Counting
<1>5. Adds(q)
  BY <1>4
<1>6. q \in Nat \ {0}
  BY RaiseGrows
<1>7. Exp(p, Zero, q) = Zero
  <2>1. PICK k \in Nat : q = k + 1
    <3>1. q - 1 \in Nat /\ q = (q - 1) + 1
      BY <1>6
    <3> QED
      BY <3>1
  <2>2. Zero \in Polys(p)
    BY ZeroIs
  <2>3. Exp(p, Zero, k + 1) = Mul(p, Zero, Exp(p, Zero, k)) /\ Exp(p, Zero, k) \in Polys(p)
    BY <2>2, ExpIs
  <2> QED
    BY <2>1, <2>3, PolySums
<1> DEFINE C == {c \in Nat : Exp(p, Numeral(p, c), q) = Numeral(p, c)}
<1>8. 0 \in C
  BY <1>1, <1>7, NumeralIs
<1>9. ASSUME NEW c \in C PROVE c + 1 \in C
  <2>1. PICK x \in Polys(p) : x = Numeral(p, c) /\ Numeral(p, c + 1) = Add(p, x, One)
    BY NumeralIs
  <2>2. One \in Polys(p)
    BY <2>1, PolySums
  <2>3. Exp(p, One, q) = One
    BY <1>6, <2>2, ExpOfProduct
  <2> QED
    BY <1>5, <2>1, <2>2, <2>3
<1>10. C = Nat
  <2>1. C \in SUBSET Nat
    OBVIOUS
  <2> HIDE DEF C
  <2> QED
    BY <1>8, <1>9, <2>1, Counting
<1>11. ASSUME NEW c \in 1 .. p - 1 PROVE Exp(p, Monomial(0, c), q) = Monomial(0, c)
  <2>1. c \in Nat
    OBVIOUS
  <2> QED
    BY <1>10, <2>1, NumeralIs
<1> QED
  BY <1>5, <1>6, <1>7, <1>11

-----------------------------------------------------------------------------
(* Every irreducible polynomial passes the test                            *)

\* What fixes x modulo g fixes every polynomial.
LEMMA FixesAll ==
  ASSUME NEW p \in Nat \ {0, 1}, IsPrime(p), NEW g \in Polys(p), NEW n \in Nat,
         NEW q, q = Raise(p, n), Same(p, g, Exp(p, X, q), X), NEW y \in Polys(p)
  PROVE  Same(p, g, Exp(p, y, q), y)
<1> DEFINE G == {f \in Polys(p) : Same(p, g, Exp(p, f, q), f)}
<1>0. p \in Nat \ {0} /\ Zero \in Polys(p) /\ X \in Polys(p) /\ q \in Nat \ {0}
  BY ZeroIs, PowerOfX, Frobenius
<1>1. Zero \in G
  <2>1. Exp(p, Zero, q) = Zero
    BY Frobenius
  <2> QED
    BY <1>0, <2>1, SameIs
<1>2. ASSUME NEW f \in G, NEW u \in Polys(p), NEW e \in DOMAIN u, OneMore(f, u, e)
      PROVE  u \in G
  <2>0. f \in Polys(p) /\ Same(p, g, Exp(p, f, q), f)
    OBVIOUS
  <2>1. PICK c \in 1 .. p - 1 : e \in Nat /\ u = Add(p, f, Monomial(e, c))
    BY <1>0, <1>2, <2>0, OneMoreIsSum
  <2>2. PICK k \in Polys(p), x \in Polys(p), m \in Polys(p) :
          k = Monomial(0, c) /\ x = Exp(p, X, e) /\ m = Mul(p, k, x)
    <3>1. Monomial(0, c) \in Polys(p)
      <4>1. 0 \in Nat
        OBVIOUS
      <4> QED
        BY <1>0, <4>1, MonomialIs
    <3>2. Exp(p, X, e) \in Polys(p)
      BY <1>0, <2>1, ExpIs
    <3> QED
      BY <3>1, <3>2, PolySums
  <2>3. m = Monomial(e, c)
    <3>1. Monomial(e, c) \in Polys(p)
      BY <1>0, <2>1, MonomialIs
    <3>2. ASSUME NEW i \in Nat PROVE Coeff(m, i) = Coeff(Monomial(e, c), i)
      <4>1. Coeff(m, i) = (c * Coeff(x, i)) % p
        <5>1. i \in Int
          OBVIOUS
        <5> QED
          BY <1>0, <2>2, <5>1, ScaledCoeff
      <4>2. x = Monomial(e, 1)
        BY <2>1, <2>2, PowerOfX
      <4>3. c * 1 = c /\ c * 0 = 0 /\ c % p = c /\ 0 % p = 0
        BY <1>0
      <4> QED
        BY <4>1, <4>2, <4>3 DEF Coeff, Monomial
    <3> QED
      BY <1>0, <2>2, <3>1, <3>2, SamePoly
  <2>4. Exp(p, m, q) = Mul(p, k, Exp(p, x, q))
    <3>1. Exp(p, m, q) = Mul(p, Exp(p, k, q), Exp(p, x, q))
      BY <1>0, <2>2, ExpOfProduct
    <3>2. Exp(p, k, q) = k
      BY <2>2, Frobenius
    <3> QED
      BY <3>1, <3>2
  <2>5. PICK w \in Polys(p) : w = Exp(p, X, q)
    BY <1>0, ExpIs
  <2>6. Exp(p, x, q) = Exp(p, w, e)
    <3>0. e \in Nat /\ q \in Nat
      BY <1>0, <2>1
    <3>1. Exp(p, Exp(p, X, e), q) = Exp(p, X, e * q)
      BY <1>0, <3>0, ExpMultiplies
    <3>3. Exp(p, Exp(p, X, q), e) = Exp(p, X, q * e)
      BY <1>0, <3>0, ExpMultiplies
    <3>2. e * q = q * e
      BY <1>0, <2>1
    <3> QED
      BY <2>2, <2>5, <3>1, <3>2, <3>3
  <2>7. PICK v \in Polys(p) : v = Exp(p, x, q) /\ Same(p, g, v, x)
    <3>1. Same(p, g, Exp(p, w, e), Exp(p, X, e))
      BY <1>0, <2>1, <2>5, SameExp
    <3>2. Exp(p, x, q) \in Polys(p)
      BY <1>0, <2>2, ExpIs
    <3> QED
      BY <2>2, <2>6, <3>1, <3>2
  <2>8. Same(p, g, Exp(p, m, q), m)
    BY <2>2, <2>4, <2>7, SameMultiples
  <2>9. Exp(p, u, q) = Add(p, Exp(p, f, q), Exp(p, m, q))
    BY <2>0, <2>1, <2>2, <2>3, Frobenius
  <2>10. PICK a \in Polys(p), b \in Polys(p) : a = Exp(p, f, q) /\ b = Exp(p, m, q)
    BY <1>0, <2>0, <2>2, ExpIs
  <2>11. Same(p, g, Add(p, a, b), Add(p, f, m))
    BY <2>0, <2>8, <2>10, SameSums
  <2> QED
    BY <2>1, <2>3, <2>9, <2>10, <2>11
<1>3. G = Polys(p)
  <2>1. G \in SUBSET Polys(p)
    OBVIOUS
  <2>2. Grows(p, G)
    BY <1>2 DEF Grows
  <2> HIDE DEF G
  <2> QED
    BY <1>0, <1>1, <2>1, <2>2, PowerByPower
<1> QED
  BY <1>3

\* g divides x^(p^k) - x if modulo g all polynomials are their own p^k-th powers.
LEMMA DividesFixed ==
  ASSUME NEW p \in Nat \ {0, 1}, IsPrime(p), NEW g \in Polys(p), NEW k \in Nat \ {0},
         NEW q, q = Raise(p, k), PolyDivides(p, g, XPowerMinusX(p, q)), NEW y \in Polys(p)
  PROVE  Same(p, g, Exp(p, y, q), y)
<1>1. q \in Nat \ {0, 1}
  <2>1. p \in Nat /\ 0 \in Nat /\ k \in Nat /\ 0 < k
    OBVIOUS
  <2>2. Raise(p, 0) < Raise(p, k) /\ Raise(p, 0) = 1 /\ Raise(p, k) \in Nat
    BY <2>1, RaiseGrows, RaiseIs
  <2> QED
    BY <2>2
<1>2. XPowerMinusX(p, q) = Sub(p, Exp(p, X, q), X)
  BY <1>1, XPowerMinusXIs
<1>3. X \in Polys(p) /\ Exp(p, X, q) \in Polys(p)
  <2>1. q \in Nat
    BY <1>1
  <2> QED
    BY <2>1, PowerOfX
<1>4. Same(p, g, Exp(p, X, q), X)
  BY <1>2, <1>3, SameIs
<1> QED
  BY <1>4, FixesAll

\* The irreducible divisors of x^(p^k) - x have degrees up to k.
LEMMA FixedDegree ==
  ASSUME NEW p \in Nat \ {0, 1}, IsPrime(p), NEW g, Irreducible(p, g), NEW k \in Nat \ {0},
         PolyDivides(p, g, XPowerMinusX(p, Raise(p, k)))
  PROVE  Degree(g) <= k
<1> DEFINE F == By(p, g)
<1>1. g \in Polys(p) /\ Degree(g) \in Nat \ {0}
  BY DegreeFixes
<1>2. Domain(F) /\ Quotient(F) /\ F.p = p /\ F.poly = g /\ F.size = Raise(p, Degree(g))
  BY <1>1, ByIs
<1> HIDE DEF F
<1>3. PICK a \in Units(F) : HasOrder(F, a, F.size - 1)
  BY <1>2, UnitsAreCyclic
<1>4. a \in Elements(F) /\ a \in Polys(p) /\ F.size \in Nat \ {0, 1}
  BY <1>2, QuotientHas DEF Units
<1>5. PICK q \in Nat \ {0} : q = Raise(p, k)
  BY RaiseGrows
<1>6. PowerOf(F, a, q) = a
  <2>1. Same(p, g, Exp(p, a, q), a)
    BY <1>1, <1>4, <1>5, DividesFixed
  <2>2. Exp(p, a, q) \in Polys(p)
    BY <1>4, ExpIs
  <2>3. FromPoly(F, Exp(p, a, q)) = FromPoly(F, a)
    BY <1>2, <1>4, <2>1, <2>2, ReducesSame
  <2> QED
    BY <1>2, <1>4, <2>3, Reduced DEF PowerOf
<1>7. PICK m \in Nat \ {0} : q = m + 1
  <2>1. q # 1
    <3>1. p \in Nat /\ 0 \in Nat /\ k \in Nat /\ 0 < k
      OBVIOUS
    <3>2. Raise(p, 0) < Raise(p, k) /\ Raise(p, 0) = 1
      BY <3>1, RaiseGrows, RaiseIs
    <3> QED
      BY <1>5, <3>2
  <2>2. q - 1 \in Nat \ {0} /\ q = (q - 1) + 1
    BY <2>1
  <2> QED
    BY <2>2
<1>8. PowerOf(F, a, m) = One
  <2>0. m \in Nat /\ a \in Elements(F) /\ Quotient(F)
    BY <1>2, <1>4
  <2>1. PowerOf(F, a, m + 1) = Times(F, a, PowerOf(F, a, m)) /\ PowerOf(F, a, m) \in Elements(F)
    BY <2>0, PowerIs
  <2>2. Times(F, a, One) = a /\ One \in Elements(F)
    BY <1>2, <1>4, TimesLaws, OneIsElement
  <2>3. Times(F, a, PowerOf(F, a, m)) = Times(F, a, One)
    BY <1>6, <1>7, <2>1, <2>2
  <2> QED
    BY <1>2, <2>1, <2>2, <2>3, Cancels
<1>9. F.size - 1 <= m
  <2>1. Divides(F.size - 1, m)
    BY <1>3, <1>8 DEF HasOrder
  <2>2. F.size - 1 \in Nat
    BY <1>4
  <2> QED
    BY <2>1, <2>2, DivisorBelow
<1>10. Raise(p, Degree(g)) <= Raise(p, k)
  BY <1>2, <1>4, <1>5, <1>7, <1>9
<1>11. k < Degree(g) => Raise(p, k) < Raise(p, Degree(g))
  <2>1. k \in Nat /\ Degree(g) \in Nat
    BY <1>1
  <2> QED
    BY <2>1, RaiseGrows
<1>12. Raise(p, k) \in Nat /\ Raise(p, Degree(g)) \in Nat
  BY <1>2, <1>4, <1>5
<1> QED
  BY <1>1, <1>10, <1>11, <1>12

(* Rabin's test accepts exactly the irreducible polynomials (polynomial.rs *)
(* is_irreducible).                                                        *)
THEOREM RabinExact ==
  ASSUME NEW p \in Nat \ {0, 1}, IsPrime(p), NEW f \in Polys(p), Degree(f) # 0
  PROVE  IsIrreducible(p, f) <=> Irreducible(p, f)
<1> SUFFICES ASSUME Irreducible(p, f) PROVE IsIrreducible(p, f)
  BY TestedIsIrreducible
<1>1. PICK n \in Nat \ {0} : n = Degree(f)
  BY DegreeFixes
<1>2. f # Zero
  BY DegreeType
<1>3. Rem(p, XPowerMinusX(p, Raise(p, n)), f) = Zero
  <2>1. n \in Fixing(By(p, f), FromPoly(By(p, f), X))
    BY <1>1, DegreeFixes
  <2>2. /\ PolyDivides(p, f, XPowerMinusX(p, Raise(p, n)))
        /\ XPowerMinusX(p, Raise(p, n)) \in Polys(p)
    BY <2>1, DividesFixing
  <2> QED
    BY <1>2, <2>2, RemSame
<1>4. ASSUME NEW r \in PrimeFactors(n)
      PROVE  IsOne(PolyGcd(p, f, XPowerMinusX(p, Raise(p, n \div r))))
  <2>1. n \in Nat \ {0, 1}
    BY <1>4 DEF PrimeFactors
  <2>2. r \in 2 .. n /\ Divides(r, n)
    BY <1>4, <2>1, PrimeFactorsAre
  <2>3. PICK k \in Nat \ {0} : k = n \div r /\ k < n
    <3>1. PICK z \in 1 .. n : n = z * r
      <4>1. r \in Nat
        BY <2>2
      <4> QED
        BY <2>2, <4>1, DivisorBelow
    <3>2. r \in Nat \ {0} /\ z \in Int /\ 0 \in 0 .. r - 1
      BY <2>2
    <3>3. n = r * z + 0
      BY <3>1, <3>2
    <3>4. z = n \div r
      BY <3>2, <3>3, QuotientIs
    <3>5. z < n
      <4>1. z * 2 <= z * r
        BY <2>2, <3>1
      <4> QED
        BY <3>1, <4>1
    <3> QED
      BY <3>1, <3>4, <3>5
  <2>4. PICK b \in Polys(p) : b = XPowerMinusX(p, Raise(p, k)) /\ b # Zero
    BY DividesFixing
  <2>5. PICK c \in Polys(p) :
          /\ c = PolyGcd(p, f, b) /\ LeadTerm(c)[2] = 1
          /\ PolyDivides(p, c, f) /\ PolyDivides(p, c, b)
    BY <2>4, PolyGcdExact
  <2>6. PICK h \in Polys(p) : Mul(p, h, c) = f
    BY <2>5 DEF PolyDivides
  <2>7. Degree(h) = 0 \/ Degree(c) = 0
    BY <2>6 DEF Irreducible
  <2>8. CASE Degree(c) = 0
    <3>1. c # Zero
      BY <2>5 DEF LeadTerm
    <3>2. c[0] = 1 /\ DOMAIN c \subseteq {0} /\ 0 \in DOMAIN c
      <4>1. LeadTerm(c) = <<0, c[0]>> /\ 0 \in DOMAIN c /\ \A i \in DOMAIN c : i <= 0
        BY <2>8, <3>1, LeadTermIs
      <4>2. DOMAIN c \subseteq Nat
        BY PolyIs, PowersAre
      <4> QED
        BY <2>5, <4>1, <4>2
    <3>3. IsOne(c)
      BY <3>2 DEF IsOne
    <3> QED
      BY <2>3, <2>4, <2>5, <3>3
  <2>9. CASE Degree(h) = 0
    <3>1. h # Zero
      BY <1>2, <2>6, PolySums
    <3>2. PICK e \in Polys(p) : Mul(p, e, h) = One
      BY <2>9, <3>1, ConstantInverse
    <3>3. c = Mul(p, e, f)
      <4>1. Mul(p, Mul(p, e, h), c) = Mul(p, e, Mul(p, h, c))
        BY MulAt
      <4> QED
        BY <2>6, <3>2, <4>1, PolySums
    <3>4. PolyDivides(p, f, c)
      BY <3>3 DEF PolyDivides
    <3>5. PolyDivides(p, f, b)
      BY <2>5, <3>4, PolyDividesChain
    <3>6. n <= k
      BY <1>1, <2>4, <3>5, FixedDegree
    <3> QED
      BY <1>1, <2>3, <3>6
  <2> QED
    BY <2>7, <2>8, <2>9
<1> QED
  BY <1>1, <1>3, <1>4 DEF IsIrreducible

-----------------------------------------------------------------------------
(* There are irreducible polynomials of every degree                       *)

\* x^(p^k) - x has no divisor twice.
LEMMA NoSquareDivides ==
  ASSUME NEW p \in Nat \ {0, 1}, IsPrime(p), NEW g \in Polys(p), Degree(g) # 0,
         NEW k \in Nat \ {0}, PolyDivides(p, Mul(p, g, g), XPowerMinusX(p, Raise(p, k)))
  PROVE  FALSE
<1>0. p \in Nat \ {0} /\ p \in Nat /\ k \in Nat
  OBVIOUS
<1>1. g # Zero /\ Degree(g) \in Nat
  BY <1>0, DegreeType
<1>2. PICK s \in Polys(p) : s = Mul(p, g, g)
  BY PolySums
<1>3. Degree(s) = Degree(g) + Degree(g)
  BY <1>1, <1>2, ProductDegree
<1>4. PICK q \in Nat : q = Raise(p, k)
  BY <1>0, RaiseIs
<1>5. PICK m \in Nat : q = (m + 1) + 1
  <2>1. 0 \in Nat /\ 0 < k
    BY <1>0
  <2>2. Raise(p, 0) < Raise(p, k) /\ Raise(p, 0) = 1
    BY <1>0, <2>1, RaiseGrows, RaiseIs
  <2>3. q - 2 \in Nat /\ q = ((q - 2) + 1) + 1
    BY <1>4, <2>2
  <2> QED
    BY <2>3
<1>6. PICK e \in Polys(p) : e = Exp(p, g, m)
  BY ExpIs
<1>7. PICK x \in Polys(p) : x = Exp(p, g, q)
  BY ExpIs
<1>8. PolyDivides(p, s, x)
  <2>1. Exp(p, g, m + 1) = Mul(p, g, e)
    BY <1>6, ExpIs
  <2>2. m + 1 \in Nat
    OBVIOUS
  <2>3. Exp(p, g, (m + 1) + 1) = Mul(p, g, Mul(p, g, e))
    BY <2>1, <2>2, ExpIs
  <2>4. Mul(p, g, Mul(p, g, e)) = Mul(p, s, e) /\ Mul(p, s, e) = Mul(p, e, s)
    BY <1>2, MulAt
  <2> QED
    BY <1>5, <1>7, <2>3, <2>4 DEF PolyDivides
<1>9. Zero \in Polys(p)
  BY PolySums
<1>10. Same(p, s, x, g)
  BY <1>2, <1>4, <1>7, DividesFixed
<1>11. Same(p, s, g, x) /\ Same(p, s, x, Zero)
  BY <1>8, <1>10, SameIs
<1>12. PolyDivides(p, s, g)
  BY <1>9, <1>11, SameChain, SameIs
<1> QED
  BY <1>1, <1>3, <1>12, DivisorDegree

\* The product of x^(p^e) - x for the e up to k has a degree below p^(k+1).
LEMMA FixingProduct ==
  ASSUME NEW p \in Nat \ {0, 1}, IsPrime(p), NEW k \in Nat
  PROVE  \E h \in Polys(p) :
           /\ h # Zero /\ Degree(h) < Raise(p, k + 1)
           /\ \A e \in 1 .. k : PolyDivides(p, XPowerMinusX(p, Raise(p, e)), h)
<1> DEFINE Has(i, h) == /\ h # Zero /\ Degree(h) < Raise(p, i + 1)
                        /\ \A e \in 1 .. i : PolyDivides(p, XPowerMinusX(p, Raise(p, e)), h)
           G == {i \in Nat : \E h \in Polys(p) : Has(i, h)}
<1>0. p \in Nat \ {0} /\ p \in Nat /\ 0 \in Nat
  OBVIOUS
<1>1. 0 \in G
  <2>1. One \in Polys(p) /\ DOMAIN One = {0}
    <3>1. 1 \in 1 .. p - 1
      OBVIOUS
    <3> QED
      BY <1>0, <3>1, MonomialIs DEF One
  <2>2. One # Zero /\ Degree(One) = 0
    <3>1. One # Zero
      BY <1>0, <2>1, ZeroIs
    <3> QED
      BY <1>0, <2>1, <3>1, LeadTermIs
  <2>3. Raise(p, 0 + 1) = p
    BY <1>0, RaiseIs
  <2>4. Has(0, One)
    BY <2>2, <2>3
  <2> QED
    BY <2>1, <2>4
<1>2. ASSUME NEW i \in G PROVE i + 1 \in G
  <2>0. i \in Nat /\ i + 1 \in Nat \ {0} /\ i + 1 \in Nat
    OBVIOUS
  <2>1. PICK h \in Polys(p) : Has(i, h)
    OBVIOUS
  <2>2. PICK q \in Nat \ {0, 1} : q = Raise(p, i + 1)
    <3>1. 0 < i + 1
      BY <2>0
    <3>2. Raise(p, 0) < Raise(p, i + 1) /\ Raise(p, 0) = 1 /\ Raise(p, i + 1) \in Nat
      BY <1>0, <2>0, <3>1, RaiseGrows, RaiseIs
    <3> QED
      BY <3>2
  <2>3. PICK x \in Polys(p) : x = XPowerMinusX(p, q) /\ x # Zero /\ Degree(x) = q
    BY XPowerMinusXIs
  <2>4. PICK u \in Polys(p) : u = Mul(p, h, x) /\ u # Zero /\ Degree(u) = Degree(h) + q
    <3>1. Mul(p, h, x) \in Polys(p)
      BY PolySums
    <3> QED
      BY <2>1, <2>3, <3>1, ProductDegree
  <2>5. Degree(u) < Raise(p, (i + 1) + 1)
    <3>1. Raise(p, (i + 1) + 1) = p * q
      BY <1>0, <2>0, <2>2, RaiseIs
    <3>2. Degree(h) < q /\ Degree(h) \in Nat
      BY <1>0, <2>1, <2>2, DegreeType
    <3>3. 2 * q <= p * q
      BY <1>0
    <3> QED
      BY <2>4, <3>1, <3>2, <3>3
  <2>6. ASSUME NEW e \in 1 .. i + 1 PROVE PolyDivides(p, XPowerMinusX(p, Raise(p, e)), u)
    <3>1. CASE e = i + 1
      BY <2>2, <2>3, <2>4, <3>1 DEF PolyDivides
    <3>2. CASE e # i + 1
      <4>1. e \in 1 .. i /\ e \in Nat \ {0}
        BY <2>0, <3>2
      <4>2. PICK y \in Polys(p) : y = XPowerMinusX(p, Raise(p, e))
        <5>1. PICK r \in Nat \ {0, 1} : r = Raise(p, e)
          <6>1. e \in Nat /\ 0 < e
            BY <4>1
          <6>2. Raise(p, 0) < Raise(p, e) /\ Raise(p, 0) = 1 /\ Raise(p, e) \in Nat
            BY <1>0, <6>1, RaiseGrows, RaiseIs
          <6> QED
            BY <6>2
        <5> QED
          BY <5>1, XPowerMinusXIs
      <4>3. PolyDivides(p, y, h)
        BY <2>1, <4>1, <4>2
      <4>4. PolyDivides(p, y, Mul(p, x, h)) /\ Mul(p, x, h) = Mul(p, h, x)
        BY <1>0, <4>3, DividesMultiple, PolySums
      <4> QED
        BY <2>4, <4>2, <4>4
    <3> QED
      BY <3>1, <3>2
  <2>7. Has(i + 1, u)
    BY <2>4, <2>5, <2>6
  <2> QED
    BY <2>0, <2>7
<1>3. G = Nat
  <2>1. G \in SUBSET Nat
    OBVIOUS
  <2> HIDE DEF G
  <2> QED
    BY <1>1, <1>2, <2>1, Counting
<1>4. PICK h \in Polys(p) : Has(k, h)
  BY <1>3
<1> QED
  BY <1>4

\* A monic polynomial that is irreducible, of the degree n.
LEMMA IrreducibleExists ==
  ASSUME NEW p \in Nat \ {0, 1}, IsPrime(p), NEW n \in Nat \ {0}
  PROVE  \E g \in Polys(p) : Irreducible(p, g) /\ Degree(g) = n /\ LeadTerm(g)[2] = 1
<1>0. p \in Nat \ {0} /\ p \in Nat
  OBVIOUS
<1>1. PICK g \in Polys(p) : Irreducible(p, g) /\ Degree(g) = n
  <2> SUFFICES ASSUME \A g \in Polys(p) : Irreducible(p, g) => Degree(g) # n PROVE FALSE
    OBVIOUS
  <2>1. PICK k \in Nat : n = k + 1
    <3>1. n - 1 \in Nat /\ n = (n - 1) + 1
      OBVIOUS
    <3> QED
      BY <3>1
  <2>2. PICK h \in Polys(p) : /\ h # Zero /\ Degree(h) < Raise(p, n)
                              /\ \A e \in 1 .. k : PolyDivides(p, XPowerMinusX(p, Raise(p, e)), h)
    BY <2>1, FixingProduct
  <2>3. PICK q \in Nat \ {0, 1} : q = Raise(p, n)
    <3>1. 0 \in Nat /\ n \in Nat /\ 0 < n
      OBVIOUS
    <3>2. Raise(p, 0) < Raise(p, n) /\ Raise(p, 0) = 1 /\ Raise(p, n) \in Nat
      BY <1>0, <3>1, RaiseGrows, RaiseIs
    <3> QED
      BY <3>2
  <2>4. PICK f \in Polys(p) : f = XPowerMinusX(p, q) /\ f # Zero /\ Degree(f) = q
    BY XPowerMinusXIs
  <2>5. PICK c \in Polys(p) :
          /\ PolyDivides(p, c, f) /\ PolyDivides(p, c, h)
          /\ \A d \in Polys(p) : PolyDivides(p, d, f) /\ PolyDivides(p, d, h) => PolyDivides(p, d, c)
    BY <2>2, PolyGcdExact
  <2>6. PICK u \in Polys(p) : Mul(p, u, c) = f
    BY <2>5 DEF PolyDivides
  <2>7. u # Zero /\ c # Zero
    BY <2>4, <2>6, PolySums
  <2>8. CASE Degree(u) = 0
    <3>1. Degree(f) = Degree(u) + Degree(c)
      BY <2>6, <2>7, ProductDegree
    <3>2. Degree(c) <= Degree(h)
      BY <2>2, <2>5, DivisorDegree
    <3>3. Degree(c) \in Nat /\ Degree(h) \in Nat
      BY <1>0, DegreeType
    <3> QED
      BY <2>2, <2>3, <2>4, <2>8, <3>1, <3>2, <3>3
  <2>9. CASE Degree(u) # 0
    <3>1. PICK g \in Polys(p) : Irreducible(p, g) /\ PolyDivides(p, g, u)
      BY <2>9, IrreducibleDivisor
    <3>2. PICK v \in Polys(p) : Mul(p, v, g) = u
      BY <3>1 DEF PolyDivides
    <3>3. PolyDivides(p, g, f)
      <4>1. Mul(p, u, c) = Mul(p, c, u)
        BY PolySums
      <4>2. PolyDivides(p, u, f)
        BY <2>6, <4>1 DEF PolyDivides
      <4> QED
        BY <3>1, <4>2, PolyDividesChain
    <3>4. Degree(g) \in 1 .. k
      <4>1. Degree(g) \in Nat \ {0} /\ Degree(g) # n
        BY <2>2, <3>1, DegreeFixes
      <4>2. Degree(g) <= n
        BY <2>3, <2>4, <3>1, <3>3, FixedDegree
      <4> QED
        BY <2>1, <4>1, <4>2
    <3>5. PICK e \in Nat \ {0} : e = Degree(g) /\ e \in 1 .. k
      BY <3>4
    <3>6. PICK y \in Polys(p) : y = XPowerMinusX(p, Raise(p, e)) /\ PolyDivides(p, g, y)
      <4>1. e \in Fixing(By(p, g), FromPoly(By(p, g), X))
        BY <3>1, <3>5, DegreeFixes
      <4> QED
        BY <3>5, <4>1, DividesFixing
    <3>7. PolyDivides(p, g, h)
      BY <2>2, <3>5, <3>6, PolyDividesChain
    <3>8. PICK w \in Polys(p) : Mul(p, w, g) = c
      BY <2>5, <3>3, <3>7 DEF PolyDivides
    <3>9. f = Mul(p, Mul(p, v, w), Mul(p, g, g))
      <4>1. PICK z \in Polys(p) : z = Mul(p, g, g)
        BY PolySums
      <4>2. f = Mul(p, Mul(p, v, g), Mul(p, w, g))
        BY <2>6, <3>2, <3>8
      <4>3. Mul(p, Mul(p, v, g), Mul(p, w, g)) = Mul(p, v, Mul(p, g, Mul(p, w, g)))
        <5>1. PICK y1 \in Polys(p) : y1 = Mul(p, w, g)
          BY PolySums
        <5>2. Mul(p, Mul(p, v, g), y1) = Mul(p, v, Mul(p, g, y1))
          BY MulAt
        <5> QED
          BY <5>1, <5>2
      <4>4. Mul(p, g, Mul(p, w, g)) = Mul(p, w, z)
        BY <4>1, MulAt
      <4>5. Mul(p, v, Mul(p, w, z)) = Mul(p, Mul(p, v, w), z)
        BY MulAt
      <4> QED
        BY <4>1, <4>2, <4>3, <4>4, <4>5
    <3>10. PolyDivides(p, Mul(p, g, g), f)
      <4>1. Mul(p, v, w) \in Polys(p)
        BY PolySums
      <4> QED
        BY <3>9, <4>1 DEF PolyDivides
    <3>11. Degree(g) # 0
      BY <3>5
    <3> QED
      BY <2>3, <2>4, <3>10, <3>11, NoSquareDivides
  <2> QED
    BY <2>8, <2>9
<1>2. g # Zero
  BY <1>0, <1>1, DegreeType
<1> DEFINE norm == [k \in DOMAIN g |-> IF LeadTerm(g)[2] = 1 THEN g[k]
                                    ELSE (Egcd(LeadTerm(g)[2], p)[1] * g[k]) % p]
<1>3. PICK m \in Polys(p) : m = norm /\ m # Zero /\ LeadTerm(m)[2] = 1 /\ Associates(p, m, g)
  BY <1>2, Normalised
<1>4. PICK u \in Polys(p), v \in Polys(p) : m = Mul(p, u, g) /\ g = Mul(p, v, m)
  BY <1>3 DEF Associates
<1>5. Degree(u) = 0 /\ Degree(v) = 0 /\ Degree(m) = n
  <2>1. u # Zero /\ v # Zero
    BY <1>2, <1>3, <1>4, PolySums
  <2>2. Degree(m) = Degree(u) + Degree(g) /\ Degree(g) = Degree(v) + Degree(m)
    BY <1>2, <1>3, <1>4, <2>1, ProductDegree
  <2>3. Degree(m) \in Nat /\ Degree(u) \in Nat /\ Degree(v) \in Nat /\ Degree(g) \in Nat
    BY <1>0, DegreeType
  <2> QED
    BY <1>1, <2>2, <2>3
<1>6. ASSUME NEW a \in Polys(p), NEW b \in Polys(p), Mul(p, a, b) = m
      PROVE  Degree(a) = 0 \/ Degree(b) = 0
  <2>1. Mul(p, Mul(p, v, a), b) = g /\ Mul(p, v, a) \in Polys(p)
    <3>1. Mul(p, Mul(p, v, a), b) = Mul(p, v, Mul(p, a, b))
      BY MulAt
    <3> QED
      BY <1>4, <1>6, <3>1, PolySums
  <2>2. Degree(Mul(p, v, a)) = 0 \/ Degree(b) = 0
    BY <1>1, <2>1 DEF Irreducible
  <2>3. a # Zero /\ v # Zero
    BY <1>2, <1>3, <1>4, <1>6, PolySums
  <2>4. Degree(Mul(p, v, a)) = Degree(v) + Degree(a)
    BY <2>3, ProductDegree
  <2>5. Degree(a) \in Nat
    BY <1>0, DegreeType
  <2> QED
    BY <1>5, <2>2, <2>4, <2>5
<1>7. Irreducible(p, m)
  BY <1>5, <1>6 DEF Irreducible
<1> QED
  BY <1>3, <1>5, <1>7

-----------------------------------------------------------------------------
(* The odometer of IterPoly (utils.rs 88-130)                              *)

\* Place i is the lowest that counts up from v to v + 1.
Counts(p, v, i) ==
  /\ Digit(p, v, i) + 1 < p /\ Digit(p, v + 1, i) = Digit(p, v, i) + 1
  /\ \A k \in Nat : k < i => Digit(p, v, k) = p - 1 /\ Digit(p, v + 1, k) = 0
  /\ \A k \in Nat : k > i => Digit(p, v + 1, k) = Digit(p, v, k)

LEMMA NextDigits ==
  ASSUME NEW p \in Nat \ {0, 1}, NEW n \in Nat, NEW v \in 0 .. Raise(p, n) - 1
  PROVE  /\ v + 1 < Raise(p, n) => \E i \in 0 .. n - 1 : Counts(p, v, i)
         /\ v + 1 = Raise(p, n) => \A k \in 0 .. n - 1 : Digit(p, v, k) = p - 1
         /\ \A k \in Nat : Digit(p, 0, k) = 0
<1>1. ASSUME NEW k \in Nat PROVE Digit(p, 0, k) = 0
  <2>1. 0 < Raise(p, k) /\ 0 \in Nat
    BY RaiseGrows
  <2> QED
    BY <2>1, DigitType
<1> DEFINE Counted(e) == \A u \in 0 .. Raise(p, e) - 1 :
                         /\ u + 1 < Raise(p, e) => \E i \in 0 .. e - 1 : Counts(p, u, i)
                         /\ u + 1 = Raise(p, e) => \A k \in 0 .. e - 1 : Digit(p, u, k) = p - 1
           G == {e \in Nat : Counted(e)}
<1>2. 0 \in G
  <2>1. Raise(p, 0) = 1
    <3>1. p \in Nat /\ 0 \in Nat
      OBVIOUS
    <3> QED
      BY <3>1, RaiseIs
  <2>2. Counted(0)
    BY <2>1
  <2> QED
    BY <2>2
<1>3. ASSUME NEW e \in G PROVE e + 1 \in G
  <2>1. e \in Nat /\ Counted(e)
    OBVIOUS
  <2> SUFFICES ASSUME NEW u \in 0 .. Raise(p, e + 1) - 1
               PROVE  /\ u + 1 < Raise(p, e + 1) => \E i \in 0 .. e + 1 - 1 : Counts(p, u, i)
                      /\ u + 1 = Raise(p, e + 1) => \A k \in 0 .. e + 1 - 1 : Digit(p, u, k) = p - 1
    BY <2>1
  <2> HIDE DEF Counted, G
  <2>2. PICK x \in Nat \ {0} : x = Raise(p, e)
    BY <2>1, RaiseGrows
  <2>3. PICK y \in Nat : y = Raise(p, e + 1) /\ y = p * x
    <3>1. p \in Nat
      OBVIOUS
    <3>2. Raise(p, e + 1) = p * Raise(p, e) /\ Raise(p, e + 1) \in Nat
      BY <2>1, <3>1, RaiseIs
    <3> QED
      BY <2>2, <3>2
  <2>4. PICK c \in Nat, w \in 0 .. x - 1 : u = x * c + w
    <3>1. u \in Nat
      BY <2>3
    <3>2. u \div x \in Nat /\ u % x \in 0 .. x - 1 /\ u = x * (u \div x) + (u % x)
      BY <2>2, <3>1, QuotientIs
    <3> QED
      BY <3>2
  <2>5. c \in 0 .. p - 1
    <3>1. ASSUME c >= p PROVE FALSE
      <4>1. PICK d \in Nat : c = p + d
        <5>1. c - p \in Nat /\ c = p + (c - p)
          BY <3>1
        <5> QED
          BY <5>1
      <4>2. x * c = p * x + x * d
        BY <4>1
      <4>3. x * d \in Nat
        OBVIOUS
      <4>4. PICK s \in Nat : s = x * d
        BY <4>3
      <4> QED
        BY <2>2, <2>3, <2>4, <4>2, <4>4
    <3> QED
      BY <3>1
  <2>6. \A k \in Nat : Digit(p, u, k) = IF k = e THEN c ELSE Digit(p, w, k)
    BY <2>1, <2>2, <2>4, <2>5, DigitOfSum
  <2>7. CASE w + 1 < x
    <3>1. PICK i \in 0 .. e - 1 : Counts(p, w, i)
      BY <2>1, <2>2, <2>7 DEF Counted
    <3>2. w + 1 \in 0 .. x - 1
      BY <2>7
    <3>3. u + 1 = x * c + (w + 1)
      <4>1. PICK z \in Nat : z = x * c
        OBVIOUS
      <4> QED
        BY <2>4, <4>1
    <3>4. \A k \in Nat : Digit(p, u + 1, k) = IF k = e THEN c ELSE Digit(p, w + 1, k)
      <4>1. PICK z : z = w + 1 /\ z \in 0 .. Raise(p, e) - 1
        BY <2>1, <2>2, <3>2
      <4>2. \A k \in Nat :
              Digit(p, Raise(p, e) * c + z, k) = IF k = e THEN c ELSE Digit(p, z, k)
        BY <2>1, <2>5, <4>1, DigitOfSum
      <4>3. u + 1 = Raise(p, e) * c + z
        BY <2>1, <2>2, <3>3, <4>1
      <4> QED
        BY <4>1, <4>2, <4>3
    <3>5. i \in Nat /\ i < e /\ i \in 0 .. e + 1 - 1
      BY <2>1
    <3>6. Counts(p, u, i)
      BY <2>1, <2>6, <3>1, <3>4, <3>5 DEF Counts
    <3>7. u + 1 \in 0 .. Raise(p, e + 1) - 1
      BY <2>1, <2>2, <2>5, <3>2, <3>3, DigitOfSum
    <3> QED
      BY <2>3, <3>5, <3>6, <3>7
  <2>8. CASE w + 1 = x
    <3>1. \A k \in 0 .. e - 1 : Digit(p, w, k) = p - 1
      BY <2>1, <2>2, <2>8 DEF Counted
    <3>2. CASE c + 1 < p
      <4>1. c + 1 \in 0 .. p - 1 /\ 0 \in 0 .. x - 1
        BY <3>2
      <4>2. u + 1 = x * (c + 1) + 0
        <5>1. x * (c + 1) = x * c + x
          OBVIOUS
        <5>2. PICK z \in Nat : z = x * c
          OBVIOUS
        <5> QED
          BY <2>4, <2>8, <5>1, <5>2
      <4>3. \A k \in Nat : Digit(p, u + 1, k) = IF k = e THEN c + 1 ELSE Digit(p, 0, k)
        BY <2>1, <2>2, <4>1, <4>2, DigitOfSum
      <4>4. \A k \in Nat : k > e => Digit(p, w, k) = 0
        <5> SUFFICES ASSUME NEW k \in Nat, k > e PROVE Digit(p, w, k) = 0
          OBVIOUS
        <5>1. Raise(p, e) < Raise(p, k) /\ Raise(p, k) \in Nat
          BY <2>1, RaiseGrows
        <5>2. w < Raise(p, k) /\ w \in Nat
          BY <2>2, <5>1
        <5> QED
          BY <5>2, DigitType
      <4>5. Counts(p, u, e)
        BY <1>1, <2>1, <2>6, <3>1, <3>2, <4>3, <4>4 DEF Counts
      <4>6. e \in 0 .. e + 1 - 1
        BY <2>1
      <4>7. u + 1 \in 0 .. Raise(p, e + 1) - 1
        BY <2>1, <2>2, <4>1, <4>2, DigitOfSum
      <4> QED
        BY <2>3, <4>5, <4>6, <4>7
    <3>3. CASE c + 1 >= p
      <4>1. c = p - 1
        BY <2>5, <3>3
      <4>2. u + 1 = Raise(p, e + 1)
        <5>1. x * (p - 1) = p * x - x
          OBVIOUS
        <5> QED
          BY <2>3, <2>4, <2>8, <4>1, <5>1
      <4>3. \A k \in 0 .. e + 1 - 1 : Digit(p, u, k) = p - 1
        BY <2>1, <2>6, <3>1, <4>1
      <4> QED
        BY <2>3, <4>2, <4>3
    <3> QED
      BY <2>5, <3>2, <3>3
  <2> QED
    BY <2>4, <2>7, <2>8
<1>4. n \in G
  <2>1. G \in SUBSET Nat
    OBVIOUS
  <2> HIDE DEF G
  <2>2. G = Nat
    BY <1>2, <1>3, <2>1, Counting
  <2> QED
    BY <2>2
<1> QED
  BY <1>1, <1>4

\* What the coefficients are when v values have gone by.
Wheel(p, n, v) == [k \in 0 .. n |-> IF k = n THEN 1 ELSE Digit(p, v, k)]

LEMMA TurnCounts ==
  ASSUME NEW p \in Nat \ {0, 1}, NEW n \in Nat \ {0}, NEW v \in 0 .. Raise(p, n) - 1
  PROVE  /\ Wheel(p, n, v) \in [0 .. n -> 0 .. p - 1]
         /\ Turn(p, n, Wheel(p, n, v)) =
              IF v + 1 < Raise(p, n) THEN Wheel(p, n, v + 1) ELSE Zero
<1> DEFINE c == Wheel(p, n, v)
           S == {k \in 0 .. n : c[k] + 1 < p \/ k >= n - 1}
<1>0. n \in Nat /\ Raise(p, n) \in Nat \ {0} /\ v \in Nat
  <2>1. Raise(p, n) \in Nat \ {0}
    BY RaiseGrows
  <2> QED
    BY <2>1
<1>1. \A k \in Nat : Digit(p, v, k) \in 0 .. p - 1
  BY <1>0, DigitType
<1>2. \A k \in 0 .. n : c[k] = IF k = n THEN 1 ELSE Digit(p, v, k)
  BY DEF Wheel
<1>3. c \in [0 .. n -> 0 .. p - 1]
  <2>1. \A k \in 0 .. n : (IF k = n THEN 1 ELSE Digit(p, v, k)) \in 0 .. p - 1
    BY <1>1
  <2> QED
    BY <2>1 DEF Wheel
<1>4. Turn(p, n, c) = IF c[Min(S)] + 1 = p THEN Zero
                      ELSE [k \in 0 .. n |-> IF k < Min(S) THEN 0
                                             ELSE c[k] + IF k = Min(S) THEN 1 ELSE 0]
  BY DEF Turn
<1> HIDE DEF c
<1>5. ASSUME NEW i \in S, \A k \in S : i <= k PROVE Min(S) = i
  <2>1. \E x \in S : \A y \in S : x <= y
    BY <1>5
  <2>2. Min(S) \in S /\ \A y \in S : Min(S) <= y
    BY <2>1 DEF Min
  <2>3. Min(S) \in Int /\ i \in Int
    BY <2>2
  <2> QED
    BY <1>5, <2>2, <2>3
<1>6. CASE v + 1 < Raise(p, n)
  <2>1. PICK i \in 0 .. n - 1 : Counts(p, v, i)
    BY <1>0, <1>6, NextDigits
  <2>2. i \in Nat /\ i \in 0 .. n /\ i < n
    BY <1>0
  <2>3. c[i] + 1 < p /\ c[i] = Digit(p, v, i)
    BY <1>2, <2>1, <2>2 DEF Counts
  <2>4. i \in S
    BY <2>2, <2>3
  <2>5. ASSUME NEW k \in S PROVE i <= k
    <3>1. k \in Nat /\ (c[k] + 1 < p \/ k >= n - 1)
      BY <1>0
    <3>2. ASSUME k < i PROVE FALSE
      <4>1. c[k] = p - 1 /\ k < n - 1
        BY <1>0, <1>2, <2>1, <2>2, <3>1, <3>2 DEF Counts
      <4> QED
        BY <1>0, <3>1, <4>1
    <3> QED
      BY <2>2, <3>1, <3>2
  <2>6. Min(S) = i
    BY <1>5, <2>4, <2>5
  <2> HIDE DEF S
  <2>7. Turn(p, n, c) = [k \in 0 .. n |-> IF k < i THEN 0 ELSE c[k] + IF k = i THEN 1 ELSE 0]
    <3>1. c[i] + 1 # p
      <4>1. c[i] \in Nat
        BY <1>3, <2>2
      <4> QED
        BY <2>3, <4>1
    <3> QED
      BY <1>4, <2>6, <3>1
  <2>8. ASSUME NEW k \in 0 .. n
        PROVE  (IF k < i THEN 0 ELSE c[k] + IF k = i THEN 1 ELSE 0)
                 = IF k = n THEN 1 ELSE Digit(p, v + 1, k)
    <3>1. k \in Nat /\ c[k] \in Nat
      BY <1>3
    <3>2. CASE k < i
      BY <2>1, <2>2, <3>1, <3>2 DEF Counts
    <3>3. CASE k = i
      BY <2>1, <2>2, <2>3, <3>1, <3>3 DEF Counts
    <3>4. CASE k > i
      <4>1. c[k] + 0 = c[k] /\ ~ (k < i) /\ k # i
        BY <2>2, <3>1, <3>4
      <4> QED
        BY <1>2, <2>1, <3>1, <3>4, <4>1 DEF Counts
    <3> QED
      BY <2>2, <3>1, <3>2, <3>3, <3>4
  <2>9. Turn(p, n, c) = Wheel(p, n, v + 1)
    BY <2>7, <2>8 DEF Wheel
  <2> QED
    BY <1>3, <1>6, <2>9 DEF c
<1>7. CASE v + 1 = Raise(p, n)
  <2>1. \A k \in 0 .. n - 1 : Digit(p, v, k) = p - 1
    BY <1>0, <1>7, NextDigits
  <2>2. n - 1 \in 0 .. n - 1 /\ n - 1 \in S /\ c[n - 1] = p - 1
    BY <1>0, <1>2, <2>1
  <2>3. ASSUME NEW k \in S PROVE n - 1 <= k
    <3>1. k \in Nat /\ (c[k] + 1 < p \/ k >= n - 1)
      BY <1>0
    <3>2. ASSUME k < n - 1 PROVE FALSE
      <4>1. c[k] = p - 1
        BY <1>0, <1>2, <2>1, <3>1, <3>2
      <4> QED
        BY <1>0, <3>1, <3>2, <4>1
    <3> QED
      BY <1>0, <3>1, <3>2
  <2>4. Min(S) = n - 1
    <3>1. n - 1 \in S
      BY <2>2
    <3> HIDE DEF S
    <3> QED
      BY <1>5, <2>3, <3>1
  <2> HIDE DEF S
  <2>5. Turn(p, n, c) = Zero
    <3>1. c[n - 1] + 1 = p
      BY <2>2
    <3> QED
      BY <1>4, <2>4, <3>1
  <2> QED
    BY <1>0, <1>3, <1>7, <2>5 DEF c
<1> QED
  BY <1>0, <1>6, <1>7

\* The values of the odometer that have gone by, as polynomials.
Listed(p, n, m) == [j \in 1 .. m |-> Normal(p, Wheel(p, n, j - 1))]

LEMMA OdometerLists ==
  ASSUME NEW p \in Nat \ {0, 1}, NEW n \in Nat \ {0}
  PROVE  IterPoly(p, n) = Listed(p, n, Raise(p, n))
<1>0. PICK N \in Nat \ {0} : N = Raise(p, n)
  <2>1. n \in Nat
    OBVIOUS
  <2> QED
    BY <2>1, RaiseGrows
<1> DEFINE start   == [all |-> << >>, next |-> [k \in 0 .. n |-> IF k = n THEN 1 ELSE 0]]
           last(i) == IF i < N THEN i ELSE N
           at(i)   == [all |-> Listed(p, n, last(i)),
                       next |-> IF last(i) < N THEN Wheel(p, n, last(i)) ELSE Zero]
           g       == [i \in Nat |-> at(i)]
           Runs(f) == f = [i \in Nat |->
                             IF i = 0 THEN start
                             ELSE IF f[i - 1].next = Zero THEN f[i - 1]
                                  ELSE [all |-> Append(f[i - 1].all, Normal(p, f[i - 1].next)),
                                        next |-> Turn(p, n, f[i - 1].next)]]
           f       == CHOOSE h : Runs(h)
<1>1. at(0) = start
  <2>1. last(0) = 0
    BY <1>0
  <2>2. Listed(p, n, 0) = << >>
    BY DEF Listed
  <2>3. Wheel(p, n, 0) = [k \in 0 .. n |-> IF k = n THEN 1 ELSE 0]
    <3>1. 0 \in 0 .. Raise(p, n) - 1 /\ n \in Nat
      BY <1>0
    <3>2. \A k \in Nat : Digit(p, 0, k) = 0
      BY <3>1, NextDigits
    <3>3. \A k \in 0 .. n : Digit(p, 0, k) = 0
      BY <3>2
    <3> QED
      BY <3>3 DEF Wheel
  <2> QED
    BY <1>0, <2>1, <2>2, <2>3
<1>2. ASSUME NEW v \in 0 .. N - 1
      PROVE  /\ Wheel(p, n, v) # Zero
             /\ Append(Listed(p, n, v), Normal(p, Wheel(p, n, v))) = Listed(p, n, v + 1)
             /\ Turn(p, n, Wheel(p, n, v)) = IF v + 1 < N THEN Wheel(p, n, v + 1) ELSE Zero
  <2>1. Wheel(p, n, v) # Zero
    <3>1. n \in DOMAIN Wheel(p, n, v)
      BY DEF Wheel
    <3>2. DOMAIN Zero = {}
      BY DEF Zero
    <3> QED
      BY <3>1, <3>2
  <2>2. Append(Listed(p, n, v), Normal(p, Wheel(p, n, v))) = Listed(p, n, v + 1)
    <3> DEFINE w(j) == Normal(p, Wheel(p, n, j - 1))
               s == [j \in 1 .. v |-> w(j)]
               t == [j \in 1 .. v + 1 |-> w(j)]
               T == {w(j) : j \in 1 .. v + 1}
    <3>1. v \in Nat /\ (v + 1) - 1 = v
      BY <1>0
    <3>2. s \in [1 .. v -> T] /\ t \in [1 .. v + 1 -> T] /\ w(v + 1) \in T
      BY <3>1
    <3>3. w(v + 1) = Normal(p, Wheel(p, n, v))
      BY <3>1
    <3> HIDE DEF w, T
    <3>4. s \in Seq(T) /\ Len(s) = v
      BY <3>1, <3>2
    <3>5. Append(s, w(v + 1)) = t
      <4>1. \A i \in 1 .. v : s[i] = w(i)
        OBVIOUS
      <4>2. Append(s, w(v + 1)) \in Seq(T) /\ Len(Append(s, w(v + 1))) = v + 1
        BY <3>2, <3>4
      <4>3. \A i \in 1 .. v + 1 : Append(s, w(v + 1))[i] = w(i)
        BY <3>1, <3>2, <3>4, <4>1
      <4> QED
        BY <3>1, <3>2, <4>2, <4>3
    <3> QED
      BY <3>3, <3>5 DEF Listed, w
  <2>3. v \in 0 .. Raise(p, n) - 1
    BY <1>0
  <2> QED
    BY <1>0, <2>1, <2>2, <2>3, TurnCounts
<1>3. ASSUME NEW i \in Nat
      PROVE  at(i + 1) = IF at(i).next = Zero THEN at(i)
                         ELSE [all |-> Append(at(i).all, Normal(p, at(i).next)),
                               next |-> Turn(p, n, at(i).next)]
  <2>1. CASE i < N
    <3>1. i \in 0 .. N - 1 /\ last(i) = i /\ last(i + 1) = i + 1
      BY <2>1
    <3> QED
      BY <1>2, <2>1, <3>1
  <2>2. CASE i >= N
    <3>1. last(i) = N /\ last(i + 1) = N
      BY <2>2
    <3> QED
      BY <3>1
  <2> QED
    BY <2>1, <2>2
<1> HIDE DEF at, start
<1>4. Runs(g)
  <2>1. ASSUME NEW i \in Nat
        PROVE  g[i] = IF i = 0 THEN start
                      ELSE IF g[i - 1].next = Zero THEN g[i - 1]
                           ELSE [all |-> Append(g[i - 1].all, Normal(p, g[i - 1].next)),
                                 next |-> Turn(p, n, g[i - 1].next)]
    <3>1. CASE i = 0
      BY <1>1, <3>1
    <3>2. CASE i # 0
      <4>1. PICK j \in Nat : j = i - 1 /\ i = j + 1
        <5>1. i - 1 \in Nat /\ i = (i - 1) + 1
          BY <3>2
        <5> QED
          BY <5>1
      <4>2. g[i] = at(j + 1) /\ g[i - 1] = at(j)
        BY <4>1
      <4> QED
        BY <1>3, <3>2, <4>1, <4>2
    <3> QED
      BY <3>1, <3>2
  <2> QED
    BY <2>1
<1>5. Runs(f)
  <2> HIDE DEF Runs
  <2> QED
    BY <1>4
<1>6. IterPoly(p, n) = f[N].all
  BY <1>0 DEF IterPoly, Odometer, Loop, start
<1> HIDE DEF f
<1> DEFINE G == {i \in Nat : f[i] = at(i)}
<1>7. 0 \in G
  BY <1>1, <1>5
<1>8. ASSUME NEW i \in G PROVE i + 1 \in G
  <2>1. i \in Nat /\ i + 1 \in Nat /\ i + 1 # 0 /\ (i + 1) - 1 = i /\ f[i] = at(i)
    OBVIOUS
  <2>2. f[i + 1] = IF f[i].next = Zero THEN f[i]
                   ELSE [all |-> Append(f[i].all, Normal(p, f[i].next)),
                         next |-> Turn(p, n, f[i].next)]
    BY <1>5, <2>1
  <2>3. f[i + 1] = at(i + 1)
    BY <1>3, <2>1, <2>2
  <2> QED
    BY <2>1, <2>3
<1>9. f[N] = at(N)
  <2>1. G \in SUBSET Nat
    OBVIOUS
  <2> HIDE DEF G
  <2>2. G = Nat
    BY <1>7, <1>8, <2>1, Counting
  <2> QED
    BY <2>2 DEF G
<1>10. at(N).all = Listed(p, n, N)
  BY DEF at
<1> QED
  BY <1>0, <1>6, <1>9, <1>10

\* The polynomial that the odometer shows.
LEMMA WheelIs ==
  ASSUME NEW p \in Nat \ {0, 1}, NEW n \in Nat \ {0}, NEW v \in 0 .. Raise(p, n) - 1
  PROVE  /\ Normal(p, Wheel(p, n, v)) \in Polys(p)
         /\ \A k \in Nat : Coeff(Normal(p, Wheel(p, n, v)), k) = IF k = n THEN 1 ELSE Digit(p, v, k)
         /\ LeadTerm(Normal(p, Wheel(p, n, v))) = <<n, 1>>
<1> DEFINE w == Wheel(p, n, v)
           f == Normal(p, w)
<1>0. p \in Nat \ {0} /\ n \in Nat /\ v \in Nat /\ Raise(p, n) \in Nat \ {0}
  <2>1. Raise(p, n) \in Nat \ {0}
    BY RaiseGrows
  <2> QED
    BY <2>1
<1>1. w \in [0 .. n -> 0 .. p - 1]
  BY TurnCounts
<1>2. \A k \in 0 .. n : w[k] = IF k = n THEN 1 ELSE Digit(p, v, k)
  BY DEF Wheel
<1> HIDE DEF w
<1>3. 0 .. n \in Powers /\ w \in [0 .. n -> Int]
  <2>1. 0 .. n \in Powers
    <3>1. 0 .. n \in SUBSET (0 .. n)
      OBVIOUS
    <3> QED
      BY <1>0, <3>1 DEF Powers
  <2>2. 0 .. p - 1 \subseteq Int
    OBVIOUS
  <2> QED
    BY <1>1, <2>1, <2>2
<1>4. f \in Polys(p)
  BY <1>0, <1>3, NormalIs
<1>5. ASSUME NEW k \in Nat PROVE Coeff(f, k) = IF k = n THEN 1 ELSE Digit(p, v, k)
  <2>1. Coeff(f, k) = Coeff(w, k) % p
    BY <1>0, <1>3, NormalIs
  <2>2. \A c \in 0 .. p - 1 : c % p = c
    <3> SUFFICES ASSUME NEW c \in 0 .. p - 1 PROVE c % p = c
      OBVIOUS
    <3>1. c = p * 0 + c /\ 0 \in Int /\ c \in Nat
      OBVIOUS
    <3>2. \A q \in Int, r \in 0 .. p - 1 : c = p * q + r => q = c \div p /\ r = c % p
      BY <1>0, <3>1, QuotientIs
    <3> QED
      BY <3>1, <3>2
  <2>3. CASE k \in 0 .. n
    <3>1. Coeff(w, k) = w[k] /\ w[k] \in 0 .. p - 1
      BY <1>1, <2>3 DEF Coeff
    <3> QED
      BY <1>2, <2>1, <2>2, <2>3, <3>1
  <2>4. CASE k \notin 0 .. n
    <3>1. k > n
      BY <1>0, <2>4
    <3>2. Coeff(w, k) = 0 /\ 0 \in 0 .. p - 1
      BY <1>1, <2>4 DEF Coeff
    <3>3. Digit(p, v, k) = 0
      <4>1. Raise(p, n) < Raise(p, k) /\ Raise(p, k) \in Nat
        BY <1>0, <3>1, RaiseGrows
      <4>2. v < Raise(p, k)
        BY <1>0, <4>1
      <4> QED
        BY <1>0, <4>2, DigitType
    <3> QED
      BY <1>0, <2>1, <2>2, <3>1, <3>2, <3>3
  <2> QED
    BY <2>3, <2>4
<1> HIDE DEF f
<1>6. LeadTerm(f) = <<n, 1>>
  <2>1. Coeff(f, n) = 1 /\ Coeff(f, n) # 0
    BY <1>0, <1>5
  <2>2. \A k \in Nat : k > n => Coeff(f, k) = 0
    <3> SUFFICES ASSUME NEW k \in Nat, k > n PROVE Coeff(f, k) = 0
      OBVIOUS
    <3>1. Raise(p, n) < Raise(p, k) /\ Raise(p, k) \in Nat
      BY <1>0, RaiseGrows
    <3>2. v < Raise(p, k)
      BY <1>0, <3>1
    <3>3. Digit(p, v, k) = 0 /\ k # n
      BY <1>0, <3>2, DigitType
    <3> QED
      BY <1>5, <3>3
  <2>3. f # Zero /\ Degree(f) = n /\ f[Degree(f)] = 1
    BY <1>0, <1>4, <2>1, <2>2, DegreeIs
  <2> QED
    BY <1>0, <1>4, <2>3, LeadTermIs
<1> QED
  BY <1>4, <1>5, <1>6 DEF f, w

(* IterPoly goes through the monic polynomials of degree n, all of them    *)
(* and each once (utils.rs 88-130).                                        *)
THEOREM IterPolyExact ==
  ASSUME NEW p \in Nat \ {0, 1}, NEW n \in Nat \ {0}
  PROVE  /\ DOMAIN IterPoly(p, n) = 1 .. Raise(p, n)
         /\ \A i \in 1 .. Raise(p, n) :
              IterPoly(p, n)[i] \in Polys(p) /\ LeadTerm(IterPoly(p, n)[i]) = <<n, 1>>
         /\ \A f \in Polys(p) : LeadTerm(f) = <<n, 1>> =>
              \E i \in 1 .. Raise(p, n) : IterPoly(p, n)[i] = f
         /\ \A i, j \in 1 .. Raise(p, n) : IterPoly(p, n)[i] = IterPoly(p, n)[j] => i = j
<1>0. p \in Nat \ {0} /\ n \in Nat
  OBVIOUS
<1>1. PICK N \in Nat \ {0} : N = Raise(p, n)
  BY <1>0, RaiseGrows
<1>2. IterPoly(p, n) = Listed(p, n, N)
  BY <1>1, OdometerLists
<1>3. DOMAIN Listed(p, n, N) = 1 .. N
      /\ \A i \in 1 .. N : Listed(p, n, N)[i] = Normal(p, Wheel(p, n, i - 1))
  BY DEF Listed
<1>4. \A i \in 1 .. N : i - 1 \in 0 .. Raise(p, n) - 1
  BY <1>1
<1>5. ASSUME NEW f \in Polys(p), LeadTerm(f) = <<n, 1>>
      PROVE  \E i \in 1 .. N : Listed(p, n, N)[i] = f
  <2>1. f # Zero
    <3>1. LeadTerm(Zero) = <<0, 0>>
      BY DEF LeadTerm
    <3> QED
      BY <1>5, <3>1
  <2>2. n \in DOMAIN f /\ f[n] = 1 /\ f \in Below(p, n + 1)
    <3>1. Degree(f) = n /\ n \in DOMAIN f /\ f[n] = 1
      BY <1>0, <1>5, <2>1, LeadTermIs
    <3>2. f \in Below(p, n + 1)
      <4>1. n + 1 \in Nat /\ Degree(f) < n + 1
        BY <1>0, <3>1
      <4> QED
        BY <1>0, <4>1, BelowDegree
    <3> QED
      BY <3>1, <3>2
  <2>3. PICK q \in Below(p, n) : OneMore(q, f, n)
    BY <1>0, <2>2, WithoutTop
  <2>4. q \in Polys(p)
    BY DEF Below
  <2>5. PICK v \in 0 .. Raise(p, n) - 1 : \A k \in Nat : Digit(p, v, k) = Coeff(q, k)
    BY <1>0, Positional
  <2>6. \A k \in Nat : Coeff(f, k) = IF k = n THEN 1 ELSE Digit(p, v, k)
    <3> SUFFICES ASSUME NEW k \in Nat PROVE Coeff(f, k) = IF k = n THEN 1 ELSE Coeff(q, k)
      BY <2>5
    <3>1. DOMAIN f = DOMAIN q \cup {n} /\ \A i \in DOMAIN q : f[i] = q[i]
      BY <2>3 DEF OneMore
    <3> QED
      BY <2>2, <3>1 DEF Coeff
  <2>7. Normal(p, Wheel(p, n, v)) = f
    <3>1. Normal(p, Wheel(p, n, v)) \in Polys(p)
          /\ \A k \in Nat : Coeff(Normal(p, Wheel(p, n, v)), k) = Coeff(f, k)
      BY <2>6, WheelIs
    <3> QED
      BY <1>0, <3>1, SamePoly
  <2>8. v + 1 \in 1 .. N /\ (v + 1) - 1 = v
    BY <1>1
  <2> QED
    BY <1>3, <2>7, <2>8
<1>6. ASSUME NEW i \in 1 .. N, NEW j \in 1 .. N, Listed(p, n, N)[i] = Listed(p, n, N)[j]
      PROVE  i = j
  <2>1. PICK x \in 0 .. Raise(p, n) - 1, y \in 0 .. Raise(p, n) - 1 : x = i - 1 /\ y = j - 1
    BY <1>4
  <2>2. Normal(p, Wheel(p, n, x)) = Normal(p, Wheel(p, n, y))
    BY <1>3, <1>6, <2>1
  <2>3. \A k \in Nat : k # n => Digit(p, x, k) = Digit(p, y, k)
    <3>1. \A k \in Nat : Coeff(Normal(p, Wheel(p, n, x)), k) = IF k = n THEN 1 ELSE Digit(p, x, k)
      BY WheelIs
    <3>2. \A k \in Nat : Coeff(Normal(p, Wheel(p, n, y)), k) = IF k = n THEN 1 ELSE Digit(p, y, k)
      BY WheelIs
    <3> QED
      BY <2>2, <3>1, <3>2
  <2>4. PICK f \in Below(p, n), g \in Below(p, n) : Value(p, f) = x /\ Value(p, g) = y
    BY <1>0, Positional
  <2>5. \A k \in Nat : Coeff(f, k) = Digit(p, x, k) /\ Coeff(g, k) = Digit(p, y, k)
    BY <1>0, <2>4, Positional
  <2>6. f = g
    <3>1. f \in Polys(p) /\ g \in Polys(p)
      BY DEF Below
    <3>2. Coeff(f, n) = 0 /\ Coeff(g, n) = 0
      <4>1. n >= n
        BY <1>0
      <4> QED
        BY <1>0, <3>1, <4>1, BelowIs
    <3>3. \A k \in Nat : Coeff(f, k) = Coeff(g, k)
      BY <2>3, <2>5, <3>2
    <3> QED
      BY <1>0, <3>1, <3>3, SamePoly
  <2> QED
    BY <1>1, <2>1, <2>4, <2>6
<1>7. \A i \in 1 .. N : /\ Listed(p, n, N)[i] \in Polys(p)
                        /\ LeadTerm(Listed(p, n, N)[i]) = <<n, 1>>
  BY <1>3, <1>4, WheelIs
<1> QED
  BY <1>1, <1>2, <1>3, <1>5, <1>6, <1>7

(* For every prime and every degree the search of find_irreducible ends    *)
(* with a polynomial that is no product of smaller ones (polynomial.rs     *)
(* 24-45, utils.rs 132-134).                                               *)
THEOREM IrreducibleFound ==
  ASSUME NEW p \in Nat \ {0, 1}, IsPrime(p), NEW n \in Nat \ {0}
  PROVE  /\ FindIrreducible(p, n) \in Polys(p) /\ LeadTerm(FindIrreducible(p, n)) = <<n, 1>>
         /\ Irreducible(p, FindIrreducible(p, n)) /\ IsIrreducible(p, FindIrreducible(p, n))
<1>0. p \in Nat \ {0} /\ n \in Nat
  OBVIOUS
<1> DEFINE all == IterPoly(p, n)
           Found(i) == /\ IsIrreducible(p, all[i])
                       /\ \A j \in 1 .. i - 1 : ~IsIrreducible(p, all[j])
           S == {i \in DOMAIN all : IsIrreducible(p, all[i])}
<1>1. PICK N \in Nat \ {0} : N = Raise(p, n)
  BY <1>0, RaiseGrows
<1>2. DOMAIN all = 1 .. N
  BY <1>1, IterPolyExact
<1>3. S # {}
  <2>1. PICK g \in Polys(p) : Irreducible(p, g) /\ Degree(g) = n /\ LeadTerm(g)[2] = 1
    BY IrreducibleExists
  <2>2. Degree(g) # 0 /\ g # Zero
    BY <1>0, <2>1, DegreeType
  <2>3. LeadTerm(g) = <<n, 1>>
    <3>1. LeadTerm(g) = <<Degree(g), g[Degree(g)]>>
      BY <1>0, <2>2, LeadTermIs
    <3>2. LeadTerm(g)[2] = g[Degree(g)]
      BY <3>1
    <3> QED
      BY <2>1, <3>1, <3>2
  <2>4. PICK i \in 1 .. N : all[i] = g
    BY <1>1, <2>3, IterPolyExact
  <2>5. IsIrreducible(p, g)
    BY <2>1, <2>2, RabinExact
  <2> QED
    BY <1>2, <2>4, <2>5
<1> HIDE DEF all
<1>4. \E i \in DOMAIN all : Found(i)
  <2>1. S \in SUBSET Nat
    BY <1>2
  <2>2. PICK m \in S : \A k \in S : m <= k
    BY <1>3, <2>1, LeastNumber
  <2>3. ASSUME NEW j \in 1 .. m - 1 PROVE ~IsIrreducible(p, all[j])
    <3>1. j \in DOMAIN all /\ ~ (m <= j)
      BY <1>2
    <3> QED
      BY <2>2, <3>1
  <2> QED
    BY <2>2, <2>3
<1>5. PICK c \in DOMAIN all : c = (CHOOSE i \in DOMAIN all : Found(i)) /\ Found(c)
  <2> HIDE DEF Found
  <2> QED
    BY <1>4
<1>6. FindIrreducible(p, n) = all[c]
  BY <1>5 DEF FindIrreducible, all
<1>7. all[c] \in Polys(p) /\ LeadTerm(all[c]) = <<n, 1>>
  BY <1>1, <1>2, IterPolyExact DEF all
<1>8. Irreducible(p, all[c])
  <2>1. Degree(all[c]) = n
    BY <1>7 DEF Degree
  <2> QED
    BY <1>5, <1>7, <2>1, RabinExact
<1> QED
  BY <1>5, <1>6, <1>7, <1>8

-----------------------------------------------------------------------------
(* The fields of the files                                                 *)

\* GF::from_poly makes a field of every irreducible polynomial.
LEMMA NewFieldIs ==
  ASSUME NEW p \in Nat \ {0, 1}, IsPrime(p), NEW f \in Polys(p), Degree(f) # 0,
         IsIrreducible(p, f)
  PROVE  /\ NewField(p, f).error = "none" /\ Domain(NewField(p, f))
         /\ NewField(p, f).size = Raise(p, Degree(f))
<1> DEFINE F == NewField(p, f)
<1>1. /\ F.error = "none" /\ F.p = p /\ F.poly = f /\ F.n = Degree(f)
      /\ F.size = Raise(p, Degree(f))
  BY DEF NewField
<1> HIDE DEF F
<1>2. Irreducible(p, f)
  BY RabinExact
<1>3. Quotient(F)
  BY <1>1 DEF Quotient
<1>4. Domain(F)
  BY <1>1, <1>2, <1>3, IrreducibleDomain
<1> QED
  BY <1>1, <1>4 DEF F

(* with_size makes a field of p^n elements for every prime p and every     *)
(* n >= 1 (finite_field.rs 164-186).                                       *)
THEOREM WithSizeExact ==
  ASSUME NEW p \in Nat \ {0, 1}, IsPrime(p), NEW n \in Nat \ {0}
  PROVE  /\ WithSize(p, n).error = "none" /\ Domain(WithSize(p, n))
         /\ WithSize(p, n).size = Raise(p, n)
<1> DEFINE f == FindIrreducible(p, n)
<1>1. f \in Polys(p) /\ LeadTerm(f) = <<n, 1>> /\ IsIrreducible(p, f)
  BY IrreducibleFound
<1>2. WithSize(p, n) = NewField(p, f)
  BY DEF WithSize
<1> HIDE DEF f
<1>3. Degree(f) = n
  BY <1>1 DEF Degree
<1> QED
  BY <1>1, <1>2, <1>3, NewFieldIs

\* The field of an order with one prime factor has that many elements.
LEMMA FieldOfOrderIs ==
  ASSUME NEW size \in Nat \ {0, 1}, OrderAccepted(size)
  PROVE  Domain(FieldOfOrder(size)) /\ FieldOfOrder(size).size = size
<1>1. PICK p \in PrimeFactors(size) : PrimeFactors(size) = {p}
  BY DEF OrderAccepted
<1>2. p \in Nat \ {0, 1} /\ IsPrime(p) /\ \E k \in 1 .. size : Raise(p, k) = size
  BY <1>1, PrimePower
<1>3. PICK n : n = CHOOSE k \in 1 .. size : Raise(p, k) = size
  OBVIOUS
<1>4. n \in 1 .. size /\ Raise(p, n) = size
  BY <1>2, <1>3
<1>5. (CHOOSE r \in PrimeFactors(size) : TRUE) = p
  BY <1>1
<1>6. FieldOfOrder(size) = WithSize(p, n)
  BY <1>3, <1>5 DEF FieldOfOrder
<1> QED
  BY <1>2, <1>4, <1>6, WithSizeExact

\* A power above 2 has a base above 1 and an exponent above 0.
LEMMA RaisedAbove ==
  ASSUME NEW p \in Nat, NEW k \in Nat, IsPrime(p), Raise(p, k) > 2
  PROVE  p \in Nat \ {0, 1} /\ k # 0
<1>1. p # 1
  BY DEF IsPrime
<1>2. k # 0
  <2>1. Raise(p, 0) = 1
    BY RaiseIs
  <2> QED
    BY <2>1
<1>3. ASSUME p = 0 PROVE FALSE
  <2>1. PICK j \in Nat : k = j + 1
    <3>1. k - 1 \in Nat /\ k = (k - 1) + 1
      BY <1>2
    <3> QED
      BY <3>1
  <2>2. Raise(p, j + 1) = p * Raise(p, j) /\ Raise(p, j) \in Nat
    BY RaiseIs
  <2>3. PICK x \in Nat : x = Raise(p, j)
    BY <2>2
  <2>4. Raise(p, k) = 0 * x
    BY <1>3, <2>1, <2>2, <2>3
  <2> QED
    BY <2>4
<1> QED
  BY <1>1, <1>2, <1>3

\* The field of a file that is read.
LEMMA FileField ==
  ASSUME NEW f \in Files, ReadError(f) = "none"
  PROVE  Domain(FieldOf(f)) /\ FieldOf(f).size > 2
<1>1. CASE f.format = "alist"
  <2>1. f.order \in Nat \ {0, 1} /\ f.order > 2
    BY <1>1, FilesAssumption
  <2>2. OrderAccepted(f.order)
    <3> SUFFICES ASSUME ~OrderAccepted(f.order) PROVE FALSE
      OBVIOUS
    <3>1. ReadError(f) = "BadFieldSize"
      BY <1>1 DEF ReadError
    <3> QED
      BY <3>1
  <2>3. FieldOf(f) = FieldOfOrder(f.order)
    BY <1>1 DEF FieldOf
  <2> QED
    BY <2>1, <2>2, <2>3, FieldOfOrderIs
<1>2. CASE f.format # "alist"
  <2>1. PICK p, g : p = f.p /\ g = f.poly
    OBVIOUS
  <2>2. /\ p \in Nat /\ Degree(g) \in Nat /\ g \in [DOMAIN g -> 1 .. p - 1]
        /\ DOMAIN g \subseteq 0 .. Degree(g) /\ Raise(p, Degree(g)) > 2
    BY <1>2, <2>1, FilesAssumption DEF IsPoly
  <2>3. FieldOf(f) = NewField(p, g)
    BY <1>2, <2>1 DEF FieldOf
  <2>4. NewField(p, g).error = "none"
    <3>1. f.format = "table"
      BY <1>2, FilesAssumption
    <3> QED
      BY <2>3, <3>1 DEF ReadError
  <2>5. IsPrime(p) /\ IsIrreducible(p, g)
    <3>1. NewField(p, g).error = CASE ~IsPrime(p) -> "NotPrime"
                                   [] IsPrime(p) /\ ~IsIrreducible(p, g) -> "ReduciblePolynomial"
                                   [] OTHER -> "none"
      BY DEF NewField
    <3>2. ~ IsPrime(p) => NewField(p, g).error = "NotPrime"
      BY <3>1
    <3>3. IsPrime(p) /\ ~IsIrreducible(p, g) => NewField(p, g).error = "ReduciblePolynomial"
      BY <3>1
    <3> QED
      BY <2>4, <3>2, <3>3
  <2>6. p \in Nat \ {0, 1} /\ Degree(g) # 0
    BY <2>2, <2>5, RaisedAbove
  <2>7. g \in Polys(p)
    <3>1. DOMAIN g \in Powers
      BY <2>2 DEF Powers
    <3> QED
      BY <2>2, <3>1 DEF Polys
  <2> QED
    BY <2>2, <2>3, <2>5, <2>6, <2>7, NewFieldIs
<1> QED
  BY <1>1, <1>2

(* The field of every file that is read computes as fields do: the symbols *)
(* are a group, the tables of mult_idx and sum_idx solve the equations     *)
(* they are looked up for, and every entry can be inverted (decoder.rs     *)
(* 116-143, utils.rs 151-244).                                             *)
THEOREM FieldsCompute == FieldsSolve
<1> SUFFICES ASSUME NEW f \in Files, ReadError(f) = "none"
             PROVE  SymbolsAdd(FieldOf(f)) /\ TablesSolve(FieldOf(f)) /\ EntriesInvert(FieldOf(f), f)
  BY DEF FieldsSolve
<1>1. Domain(FieldOf(f)) /\ FieldOf(f).size > 2
  BY FileField
<1>2. SymbolsAdd(FieldOf(f))
  BY <1>1, NumbersAdd DEF Domain
<1>3. TablesSolve(FieldOf(f))
  BY <1>1, TablesAreExact
<1>4. EntriesInvert(FieldOf(f), f)
  <2> SUFFICES ASSUME NEW m \in RowsOf(f), NEW e \in PairsOf(f, m)
               PROVE  AsInt(FieldOf(f), Entry(FieldOf(f), e[2])) \in 1 .. FieldOf(f).size - 1
    BY DEF EntriesInvert
  <2>1. ~FileTooShort(f)
    <3> SUFFICES ASSUME FileTooShort(f) PROVE FALSE
      OBVIOUS
    <3>1. f.format = "alist"
      BY DEF FileTooShort
    <3>2. ReadError(f) \in {"BadFieldSize", "FileTooShort"}
      BY <3>1 DEF ReadError
    <3> QED
      BY <3>2
  <2>2. e[2] \in Nat \ {0}
    BY <2>1, FilesAssumption
  <2> QED
    BY <1>1, <2>2, EntriesExact
<1> QED
  BY <1>2, <1>3, <1>4

-----------------------------------------------------------------------------
(* What the arithmetic is measured by                                      *)

LEMMA PolynomialsAre ==
  ASSUME NEW p \in Nat \ {0}, NEW d \in Nat
  PROVE  Polynomials(p, d) = Below(p, d)
<1> DEFINE D == 0 .. d - 1
<1>0. D \in Powers
  <2>1. D \in SUBSET (0 .. d)
    OBVIOUS
  <2> QED
    BY <2>1 DEF Powers
<1>1. ASSUME NEW c \in [D -> 0 .. p - 1] PROVE Normal(p, c) \in Below(p, d)
  <2>1. c \in [D -> Int]
    BY <1>1
  <2>2. Normal(p, c) \in Polys(p) /\ \A k : Coeff(Normal(p, c), k) = Coeff(c, k) % p
    BY <1>0, <2>1, NormalIs
  <2>3. ASSUME NEW k \in Nat, k >= d PROVE Coeff(Normal(p, c), k) = 0
    <3>1. k \notin D
      BY <2>3
    <3>2. Coeff(c, k) = 0
      BY <1>1, <3>1 DEF Coeff
    <3>3. 0 % p = 0
      OBVIOUS
    <3> QED
      BY <2>2, <3>2, <3>3
  <2> QED
    BY <2>2, <2>3, BelowIs
<1>2. ASSUME NEW f \in Below(p, d) PROVE \E c \in [D -> 0 .. p - 1] : f = Normal(p, c)
  <2> DEFINE c == [k \in D |-> Coeff(f, k)]
  <2>1. f \in Polys(p)
    BY DEF Below
  <2>2. c \in [D -> 0 .. p - 1]
    <3>1. \A k \in D : Coeff(f, k) \in 0 .. p - 1
      BY <2>1, PolyCoefficients
    <3> QED
      BY <3>1
  <2>3. c \in [D -> Int]
    BY <2>2
  <2>4. Normal(p, c) \in Polys(p) /\ \A k : Coeff(Normal(p, c), k) = Coeff(c, k) % p
    BY <1>0, <2>3, NormalIs
  <2>5. ASSUME NEW k \in Nat PROVE Coeff(f, k) = Coeff(c, k) % p
    <3>1. Coeff(c, k) = Coeff(f, k)
      <4>1. CASE k \in D
        BY <4>1 DEF Coeff
      <4>2. CASE k \notin D
        <5>1. k >= d
          BY <4>2
        <5>2. Coeff(f, k) = 0
          BY <2>1, <5>1, BelowIs
        <5>3. k \notin DOMAIN c
          BY <4>2
        <5> QED
          BY <5>2, <5>3 DEF Coeff
      <4> QED
        BY <4>1, <4>2
    <3>2. Coeff(f, k) \in 0 .. p - 1
      BY <2>1, PolyCoefficients
    <3>3. \A x \in 0 .. p - 1 : x % p = x
      OBVIOUS
    <3> HIDE DEF c
    <3> QED
      BY <3>1, <3>2, <3>3
  <2> HIDE DEF c
  <2>6. f = Normal(p, c)
    BY <2>1, <2>4, <2>5, SamePoly
  <2> QED
    BY <2>2, <2>6
<1> HIDE DEF D
<1>3. Polynomials(p, d) = {Normal(p, c) : c \in [D -> 0 .. p - 1]}
  BY DEF Polynomials, D
<1> QED
  BY <1>1, <1>2, <1>3

LEMMA MonicAre ==
  ASSUME NEW p \in Nat \ {0}, NEW n \in Nat, NEW f
  PROVE  f \in Monic(p, n) <=> f \in Polys(p) /\ LeadTerm(f) = <<n, 1>>
<1>1. n + 1 \in Nat
  OBVIOUS
<1>2. f \in Monic(p, n) <=> f \in Below(p, n + 1) /\ LeadTerm(f) = <<n, 1>>
  BY <1>1, PolynomialsAre DEF Monic
<1>3. ASSUME f \in Polys(p), LeadTerm(f) = <<n, 1>> PROVE f \in Below(p, n + 1)
  <2>1. Degree(f) < n + 1
    BY <1>3 DEF Degree
  <2> QED
    BY <1>1, <1>3, <2>1, BelowDegree
<1>4. f \in Below(p, n + 1) => f \in Polys(p)
  BY DEF Below
<1> QED
  BY <1>2, <1>3, <1>4

\* Polynomial::new makes these and no others.
LEMMA IsPolyIs ==
  ASSUME NEW p \in Nat \ {0}, NEW f
  PROVE  IsPoly(p, f) <=> f \in Polys(p)
<1>1. ASSUME IsPoly(p, f) PROVE f \in Polys(p)
  <2>1. /\ Degree(f) \in Nat /\ DOMAIN f \subseteq 0 .. Degree(f) /\ f \in [DOMAIN f -> 1 .. p - 1]
    BY <1>1 DEF IsPoly
  <2>2. DOMAIN f \in Powers
    BY <2>1 DEF Powers
  <2> QED
    BY <2>1, <2>2, PolyIs
<1>2. ASSUME f \in Polys(p) PROVE IsPoly(p, f)
  <2>1. f \in [DOMAIN f -> 1 .. p - 1] /\ DOMAIN f \subseteq Nat
    BY <1>2, PolyIs, PowersAre
  <2>2. Degree(f) \in Nat
    BY <1>2, DegreeType
  <2>3. DOMAIN f \subseteq 0 .. Degree(f)
    <3>1. CASE f = Zero
      BY <3>1, ZeroIs
    <3>2. CASE f # Zero
      <4>1. \A k \in DOMAIN f : k <= Degree(f)
        BY <1>2, <3>2, LeadTermIs
      <4> QED
        BY <2>1, <2>2, <4>1
    <3> QED
      BY <3>1, <3>2
  <2> QED
    BY <2>1, <2>2, <2>3 DEF IsPoly
<1> QED
  BY <1>1, <1>2

LEMMA HasFactorIs ==
  ASSUME NEW p \in Nat \ {0, 1}, IsPrime(p), NEW f \in Polys(p), NEW d \in Polys(p), d # Zero
  PROVE  HasFactor(p, f, d) <=> PolyDivides(p, d, f)
<1>0. p \in Nat \ {0} /\ Degree(f) \in Nat /\ Degree(d) \in Nat
  BY DegreeType
<1>1. PICK e \in Nat : e = Degree(f) + 1 /\ Degree(f) < e
  BY <1>0
<1>2. HasFactor(p, f, d) <=> \E h \in Below(p, e) : Mul(p, d, h) = f
  BY <1>0, <1>1, PolynomialsAre DEF HasFactor
<1>3. ASSUME HasFactor(p, f, d) PROVE PolyDivides(p, d, f)
  <2>1. PICK h \in Below(p, e) : Mul(p, d, h) = f
    BY <1>2, <1>3
  <2>2. h \in Polys(p)
    BY DEF Below
  <2>3. Mul(p, h, d) = Mul(p, d, h)
    BY <2>2, PolySums
  <2> QED
    BY <2>1, <2>2, <2>3 DEF PolyDivides
<1>4. ASSUME PolyDivides(p, d, f) PROVE HasFactor(p, f, d)
  <2>1. PICK h \in Polys(p) : Mul(p, h, d) = f
    BY <1>4 DEF PolyDivides
  <2>2. Mul(p, d, h) = f
    BY <2>1, PolySums
  <2>3. h \in Below(p, e)
    <3>1. CASE h = Zero
      BY <1>0, <1>1, <3>1, BelowDegree
    <3>2. CASE h # Zero
      <4>1. Degree(f) = Degree(h) + Degree(d)
        BY <2>1, <3>2, ProductDegree
      <4>2. Degree(h) \in Nat
        BY <1>0, DegreeType
      <4>3. Degree(h) < e
        BY <1>0, <1>1, <4>1, <4>2
      <4> QED
        BY <1>0, <1>1, <4>3, BelowDegree
    <3> QED
      BY <3>1, <3>2
  <2> QED
    BY <1>2, <2>2, <2>3
<1> QED
  BY <1>3, <1>4

LEMMA MonicAssociate ==
  ASSUME NEW p \in Nat \ {0, 1}, IsPrime(p), NEW a \in Polys(p), a # Zero
  PROVE  \E m \in Polys(p), v \in Polys(p) :
           m # Zero /\ LeadTerm(m) = <<Degree(a), 1>> /\ a = Mul(p, v, m) /\ v # Zero
<1>0. p \in Nat \ {0}
  OBVIOUS
<1>1. PICK m : m = [k \in DOMAIN a |-> IF LeadTerm(a)[2] = 1 THEN a[k]
                                       ELSE (Egcd(LeadTerm(a)[2], p)[1] * a[k]) % p]
  OBVIOUS
<1>2. m \in Polys(p) /\ m # Zero /\ LeadTerm(m)[2] = 1 /\ Associates(p, m, a)
  BY <1>1, Normalised
<1>3. PICK u \in Polys(p), v \in Polys(p) : m = Mul(p, u, a) /\ a = Mul(p, v, m)
  BY <1>2 DEF Associates
<1>4. u # Zero /\ v # Zero
  <2>1. Mul(p, Zero, a) = Zero /\ Mul(p, Zero, m) = Zero
    BY <1>2, PolySums
  <2> QED
    BY <1>2, <1>3, <2>1
<1>5. Degree(m) = Degree(u) + Degree(a) /\ Degree(a) = Degree(v) + Degree(m)
  BY <1>2, <1>3, <1>4, ProductDegree
<1>6. Degree(m) = Degree(a)
  <2>1. Degree(m) \in Nat /\ Degree(a) \in Nat /\ Degree(u) \in Nat /\ Degree(v) \in Nat
    BY <1>0, <1>2, DegreeType
  <2> QED
    BY <1>5, <2>1
<1>7. LeadTerm(m) = <<Degree(m), m[Degree(m)]>>
  BY <1>0, <1>2, LeadTermIs
<1>8. m[Degree(m)] = 1
  BY <1>2, <1>7
<1> QED
  BY <1>2, <1>3, <1>4, <1>6, <1>7, <1>8

\* A monic polynomial that is reducible is a product of two smaller ones
\* that are monic.
LEMMA MonicSplits ==
  ASSUME NEW p \in Nat \ {0, 1}, IsPrime(p), NEW n \in Nat \ {0}, NEW f \in Polys(p),
         LeadTerm(f) = <<n, 1>>
  PROVE  ~ Irreducible(p, f) <=>
           \E k \in 1 .. n - 1 : \E g \in Monic(p, k), h \in Monic(p, n - k) : Mul(p, g, h) = f
<1>0. p \in Nat \ {0} /\ Degree(f) = n /\ f # Zero /\ f[n] = 1
  <2>1. Degree(f) = n
    BY DEF Degree
  <2>2. f # Zero
    <3>1. p \in Nat \ {0}
      OBVIOUS
    <3> QED
      BY <2>1, <3>1, DegreeType
  <2>3. LeadTerm(f) = <<Degree(f), f[Degree(f)]>>
    BY <2>2, LeadTermIs
  <2> QED
    BY <2>1, <2>2, <2>3
<1>1. ASSUME ~ Irreducible(p, f)
      PROVE  \E k \in 1 .. n - 1 : \E g \in Monic(p, k), h \in Monic(p, n - k) : Mul(p, g, h) = f
  <2>1. PICK a \in Polys(p), b \in Polys(p) : Mul(p, a, b) = f /\ Degree(a) # 0 /\ Degree(b) # 0
    BY <1>0, <1>1 DEF Irreducible
  <2>2. a # Zero /\ b # Zero
    BY <1>0, <2>1, DegreeType
  <2>3. PICK k \in Nat, e \in Nat : k = Degree(a) /\ e = Degree(b) /\ n = k + e
    <3>1. Degree(f) = Degree(a) + Degree(b)
      BY <2>1, <2>2, ProductDegree
    <3>2. Degree(a) \in Nat /\ Degree(b) \in Nat
      BY <1>0, DegreeType
    <3> QED
      BY <1>0, <3>1, <3>2
  <2>4. k \in 1 .. n - 1 /\ n - k = e
    BY <2>1, <2>3
  <2>5. PICK g \in Polys(p), v \in Polys(p) :
          g # Zero /\ LeadTerm(g) = <<k, 1>> /\ a = Mul(p, v, g) /\ v # Zero
    BY <2>2, <2>3, MonicAssociate
  <2>6. PICK h \in Polys(p) : h = Mul(p, v, b)
    BY <1>0, PolyType
  <2>7. Mul(p, g, h) = f
    <3>1. Mul(p, v, g) = Mul(p, g, v)
      BY PolySums
    <3>2. Mul(p, Mul(p, g, v), b) = Mul(p, g, Mul(p, v, b))
      BY <1>0, MulAssociates
    <3> QED
      BY <2>1, <2>5, <2>6, <3>1, <3>2
  <2>8. h # Zero
    BY <2>2, <2>5, <2>6, ProductDegree
  <2>9. Degree(g) = k /\ g[k] = 1
    <3>1. LeadTerm(g) = <<Degree(g), g[Degree(g)]>>
      BY <1>0, <2>5, LeadTermIs
    <3> QED
      BY <2>5, <3>1
  <2>10. PICK d \in Nat : d = Degree(h) /\ h[d] \in 1 .. p - 1 /\ LeadTerm(h) = <<d, h[d]>>
    BY <1>0, <2>8, LeadTermIs
  <2>11. n = k + d /\ f[k + d] = (1 * h[d]) % p
    BY <1>0, <2>5, <2>7, <2>8, <2>9, <2>10, ProductDegree
  <2>12. d = e
    BY <2>3, <2>11
  <2>13. h[d] = 1
    <3>1. \A x \in 1 .. p - 1 : (1 * x) % p = x
      OBVIOUS
    <3>2. f[k + d] = 1
      BY <1>0, <2>11
    <3> QED
      BY <2>10, <2>11, <3>1, <3>2
  <2>14. g \in Monic(p, k) /\ h \in Monic(p, n - k)
    BY <1>0, <2>3, <2>4, <2>5, <2>10, <2>12, <2>13, MonicAre
  <2> QED
    BY <2>4, <2>7, <2>14
<1>2. ASSUME NEW k \in 1 .. n - 1, NEW g \in Monic(p, k), NEW h \in Monic(p, n - k),
             Mul(p, g, h) = f
      PROVE  ~ Irreducible(p, f)
  <2>1. k \in Nat \ {0} /\ n - k \in Nat \ {0}
    OBVIOUS
  <2>2. g \in Polys(p) /\ LeadTerm(g) = <<k, 1>> /\ h \in Polys(p) /\ LeadTerm(h) = <<n - k, 1>>
    BY <1>0, <2>1, MonicAre
  <2>3. Degree(g) # 0 /\ Degree(h) # 0
    BY <2>1, <2>2 DEF Degree
  <2> QED
    BY <1>2, <2>2, <2>3 DEF Irreducible
<1> QED
  BY <1>1, <1>2

(* Rabin's test accepts a monic polynomial exactly if it is no product of  *)
(* smaller ones, for every prime and every degree, and IterPoly goes       *)
(* through all of that degree (polynomial.rs 24-45, utils.rs 16-134).      *)
THEOREM IrreducibleIsExact == subject \in Subjects => IrreducibleExact
<1> SUFFICES ASSUME subject \in Subjects, About("candidate") PROVE IrreducibleExact
  BY DEF IrreducibleExact
<1>1. PICK p, n, f : p = subject.p /\ n = subject.n /\ f = subject.f
  OBVIOUS
<1>2. Prime(p) /\ IsPoly(p, f) /\ n \in Nat \ {0} /\ LeadTerm(f) = <<n, 1>>
  BY <1>1, SubjectsAssumption DEF IsSubject, About
<1>3. p \in Nat \ {0, 1} /\ IsPrime(p) /\ p \in Nat \ {0} /\ n \in Nat
  BY <1>2 DEF Prime, IsPrime
<1>4. f \in Polys(p) /\ Degree(f) = n /\ Degree(f) # 0
  BY <1>2, <1>3, IsPolyIs DEF Degree
<1>5. IsIrreducible(p, f) <=>
        ~ \E k \in 1 .. n - 1 : \E g \in Monic(p, k), h \in Monic(p, n - k) : Mul(p, g, h) = f
  BY <1>2, <1>3, <1>4, MonicSplits, RabinExact
<1>6. PICK N, all : N = Raise(p, n) /\ N \in Nat /\ all = IterPoly(p, n)
  BY <1>3, RaiseGrows
<1>7. /\ DOMAIN all = 1 .. N
      /\ \A i \in 1 .. N : all[i] \in Polys(p) /\ LeadTerm(all[i]) = <<n, 1>>
      /\ \A g \in Polys(p) : LeadTerm(g) = <<n, 1>> => \E i \in 1 .. N : all[i] = g
      /\ \A i, j \in 1 .. N : all[i] = all[j] => i = j
  BY <1>2, <1>3, <1>6, IterPolyExact
<1>8. Len(all) = N
  <2>1. all = Listed(p, n, N)
    BY <1>2, <1>3, <1>6, OdometerLists
  <2>2. all \in [1 .. N -> Polys(p)]
    BY <1>7, <2>1 DEF Listed
  <2> QED
    BY <1>6, <2>2
<1>9. {all[i] : i \in DOMAIN all} = Monic(p, n)
  BY <1>3, <1>7, MonicAre
<1> QED
  BY <1>1, <1>5, <1>6, <1>7, <1>8, <1>9 DEF IrreducibleExact

(* divmod, poly_gcd and pow are what their plain definitions say, for all  *)
(* polynomials over every prime (polynomial.rs 88-139, 248-284).           *)
THEOREM DivisionIsExact == subject \in Subjects => DivisionExact
<1> SUFFICES ASSUME subject \in Subjects, About("pair"), subject.g # Zero PROVE DivisionExact
  BY DEF DivisionExact
<1>1. PICK p, f, g : p = subject.p /\ f = subject.f /\ g = subject.g
  OBVIOUS
<1>2. Prime(p) /\ IsPoly(p, f) /\ IsPoly(p, g) /\ g # Zero
  BY <1>1, SubjectsAssumption DEF IsSubject, About
<1>3. p \in Nat \ {0, 1} /\ IsPrime(p) /\ p \in Nat \ {0}
  BY <1>2 DEF Prime, IsPrime
<1>4. f \in Polys(p) /\ g \in Polys(p)
  BY <1>2, <1>3, IsPolyIs
<1>5. PICK q \in Polys(p), r \in Polys(p) :
        /\ DivMod(p, f, g) = <<q, r>> /\ Add(p, Mul(p, q, g), r) = f
        /\ r = Zero \/ Degree(r) < Degree(g)
  BY <1>2, <1>3, <1>4, DivModExact
<1>6. PICK c : c = PolyGcd(p, f, g)
  OBVIOUS
<1>7. /\ c \in Polys(p) /\ LeadTerm(c)[2] = 1
      /\ PolyDivides(p, c, f) /\ PolyDivides(p, c, g)
      /\ \A d \in Polys(p) : PolyDivides(p, d, f) /\ PolyDivides(p, d, g) => PolyDivides(p, d, c)
  BY <1>2, <1>3, <1>4, <1>6, PolyGcdExact
<1>8. c # Zero
  <2>1. LeadTerm(Zero)[2] = 0
    BY DEF LeadTerm
  <2> QED
    BY <1>7, <2>1
<1>9. HasFactor(p, f, c) /\ HasFactor(p, g, c)
  BY <1>3, <1>4, <1>7, <1>8, HasFactorIs
<1>10. ASSUME NEW n \in Degree(c) + 1 .. Degree(g), NEW h \in Monic(p, n),
              HasFactor(p, g, h), HasFactor(p, f, h)
       PROVE  FALSE
  <2>1. n \in Nat /\ Degree(c) < n /\ n # 0 /\ Degree(c) \in Nat
    <3>1. Degree(c) \in Nat /\ Degree(g) \in Nat
      BY <1>3, <1>4, <1>7, DegreeType
    <3> QED
      BY <3>1
  <2>2. h \in Polys(p) /\ LeadTerm(h) = <<n, 1>>
    BY <1>3, <2>1, MonicAre
  <2>3. Degree(h) = n /\ h # Zero
    <3>1. Degree(h) = n
      BY <2>2 DEF Degree
    <3> QED
      BY <1>3, <2>1, <2>2, <3>1, DegreeType
  <2>4. PolyDivides(p, h, g) /\ PolyDivides(p, h, f)
    BY <1>3, <1>4, <1>10, <2>2, <2>3, HasFactorIs
  <2>5. PolyDivides(p, h, c)
    BY <1>7, <2>2, <2>4
  <2>6. Degree(h) <= Degree(c)
    BY <1>3, <1>7, <1>8, <2>2, <2>5, DivisorDegree
  <2> QED
    BY <2>1, <2>3, <2>6
<1>11. Pow(p, g, 1) = g /\ \A n \in 1 .. 4 : Pow(p, g, n + 1) = Mul(p, g, Pow(p, g, n))
  <2>1. \A n \in Nat \ {0} : Pow(p, g, 1) = g /\ Pow(p, g, n + 1) = Mul(p, g, Pow(p, g, n))
    BY <1>3, <1>4, PowExact
  <2>2. 1 \in Nat \ {0} /\ \A n \in 1 .. 4 : n \in Nat \ {0}
    OBVIOUS
  <2> QED
    BY <2>1, <2>2
<1>12. DivMod(p, f, g)[1] = q /\ DivMod(p, f, g)[2] = r
  BY <1>5
<1> QED
  BY <1>1, <1>5, <1>6, <1>7, <1>9, <1>10, <1>11, <1>12 DEF DivisionExact

-----------------------------------------------------------------------------
(* The field of an order, and its elements as powers                       *)

\* The order of a field has no prime factor but p.
LEMMA PrimesOfPower ==
  ASSUME NEW p \in Nat \ {0, 1}, IsPrime(p), NEW n \in Nat \ {0}
  PROVE  /\ Raise(p, n) \in Nat \ {0, 1} /\ n \in 1 .. Raise(p, n)
         /\ PrimeFactors(Raise(p, n)) = {p}
<1>0. n \in Nat /\ p \in Nat
  OBVIOUS
<1>1. PICK size \in Nat \ {0, 1} : size = Raise(p, n) /\ n < size
  <2>1. Raise(p, n) \in Nat \ {0} /\ n < Raise(p, n)
    BY <1>0, RaiseGrows
  <2> QED
    BY <2>1
<1>2. ASSUME NEW r \in Nat \ {0, 1}, IsPrime(r), r # p
      PROVE  \A k \in Nat : ~ Divides(r, Raise(p, k))
  <2> DEFINE G == {k \in Nat : ~ Divides(r, Raise(p, k))}
  <2>1. 0 \in G
    <3> SUFFICES ASSUME Divides(r, 1) PROVE FALSE
      BY <1>0, RaiseIs
    <3>1. r \in 1 .. 1
      BY DivisorBelow
    <3> QED
      BY <1>2, <3>1
  <2>2. ASSUME NEW k \in G PROVE k + 1 \in G
    <3>1. PICK v \in Nat : v = Raise(p, k)
      BY <1>0, RaiseIs
    <3>2. Raise(p, k + 1) = v * p
      BY <1>0, <3>1, RaiseIs
    <3>3. Coprime(p, r)
      BY <1>2, PrimesCoprime
    <3>4. Divides(r, v * p) => Divides(r, v)
      BY <1>0, <1>2, <3>3, CoprimeDivides
    <3> QED
      BY <3>1, <3>2, <3>4
  <2> HIDE DEF G
  <2>3. G = Nat
    <3>1. G \in SUBSET Nat
      BY DEF G
    <3> QED
      BY <2>1, <2>2, <3>1, Counting
  <2> QED
    BY <2>3 DEF G
<1>3. PrimeFactors(size) \subseteq {p}
  <2> SUFFICES ASSUME NEW r \in PrimeFactors(size), r # p PROVE FALSE
    OBVIOUS
  <2>1. r \in Nat \ {0, 1} /\ IsPrime(r) /\ Divides(r, size)
    BY <1>1, PrimeFactorsAre
  <2> QED
    BY <1>0, <1>1, <1>2, <2>1
<1>4. PrimeFactors(size) # {}
  <2>1. size \in 2 .. size
    OBVIOUS
  <2>2. Divides(size, size)
    <3>1. size = 1 * size
      OBVIOUS
    <3> QED
      BY <3>1 DEF Divides
  <2> QED
    BY <2>1, <2>2, PrimeFactorsAre
<1> QED
  BY <1>1, <1>3, <1>4

\* A field is found again from its order.
LEMMA FoundFromOrder ==
  ASSUME NEW p \in Nat \ {0, 1}, IsPrime(p), NEW n \in Nat \ {0}, NEW size, size = Raise(p, n)
  PROVE  OrderAccepted(size) /\ FieldOfOrder(size) = WithSize(p, n)
<1>1. size \in Nat \ {0, 1} /\ n \in 1 .. size /\ PrimeFactors(size) = {p}
  BY PrimesOfPower
<1>2. OrderAccepted(size)
  BY <1>1 DEF OrderAccepted
<1>3. (CHOOSE r \in PrimeFactors(size) : TRUE) = p
  BY <1>1
<1>4. ASSUME NEW m \in 1 .. size, Raise(p, m) = size PROVE m = n
  <2>1. m \in Nat /\ n \in Nat
    OBVIOUS
  <2>2. ~ m < n
    BY <1>4, <2>1, RaiseGrows
  <2>3. ~ n < m
    BY <1>4, <2>1, RaiseGrows
  <2> QED
    BY <2>1, <2>2, <2>3
<1>5. (CHOOSE m \in 1 .. size : Raise(p, m) = size) = n
  BY <1>1, <1>4
<1> QED
  BY <1>2, <1>3, <1>5 DEF FieldOfOrder

\* The entries that a matrix file can name are the elements other than zero.
THEOREM EntriesAreUnits ==
  ASSUME NEW F, Domain(F)
  PROVE  {Entry(F, j) : j \in 1 .. F.size - 1} = Units(F)
<1>0. Quotient(F)
  BY DEF Domain
<1>1. PICK q \in Nat \ {0, 1} : q = F.size
  BY <1>0, QuotientHas
<1>2. PICK a \in Units(F) : a = PrimitiveElement(F) /\ HasOrder(F, a, q - 1)
  BY <1>1, EntriesExact
<1>3. a \in Elements(F)
  BY DEF Units
<1> DEFINE S == 1 .. q - 1
           f == [j \in S |-> PowerOf(F, a, j)]
<1>4. IsFiniteSet(S) /\ Cardinality(S) = q - 1
  <2>1. IsFiniteSet(1 .. q - 1) /\ Cardinality(1 .. q - 1) = IF 1 > q - 1 THEN 0 ELSE (q - 1) - 1 + 1
    BY FS_Interval
  <2> QED
    BY <2>1
<1>5. IsFiniteSet(Units(F)) /\ Cardinality(Units(F)) = q - 1
  BY <1>0, <1>1, HowMany
<1>6. f \in [S -> Units(F)]
  BY UnitPowers
<1>7. ASSUME NEW i \in S, NEW j \in S, i < j PROVE f[i] # f[j]
  <2> SUFFICES ASSUME PowerOf(F, a, i) = PowerOf(F, a, j) PROVE FALSE
    OBVIOUS
  <2>1. PICK k \in 1 .. q - 2 : j = i + k
    BY <1>7
  <2>2. k \in Nat /\ i \in Nat
    OBVIOUS
  <2>3. PowerOf(F, a, i) \in Units(F) /\ PowerOf(F, a, k) \in Elements(F) /\ One \in Elements(F)
    BY <2>2, UnitPowers DEF Units
  <2>4. PowerOf(F, a, i) \in Elements(F)
    BY <2>3 DEF Units
  <2>5. Times(F, PowerOf(F, a, i), PowerOf(F, a, k)) = Times(F, PowerOf(F, a, i), One)
    <3>1. PowerOf(F, a, i + k) = Times(F, PowerOf(F, a, i), PowerOf(F, a, k))
      BY <1>0, <1>3, <2>2, PowerLaws
    <3>2. Times(F, PowerOf(F, a, i), One) = PowerOf(F, a, i)
      BY <1>0, <2>4, TimesLaws
    <3> QED
      BY <2>1, <3>1, <3>2
  <2>6. PowerOf(F, a, k) = One
    BY <2>3, <2>5, Cancels
  <2>7. Divides(q - 1, k)
    BY <1>2, <2>2, <2>6 DEF HasOrder
  <2>8. q - 1 \in 1 .. k
    <3>1. q - 1 \in Nat /\ k \in Nat \ {0}
      OBVIOUS
    <3> QED
      BY <2>7, <3>1, DivisorBelow
  <2> QED
    BY <2>8
<1>8. f \in Surjection(S, Units(F))
  <2>1. f \in Injection(S, Units(F))
    <3>1. \A i, j \in S : f[i] = f[j] => i = j
      <4> SUFFICES ASSUME NEW i \in S, NEW j \in S, f[i] = f[j] PROVE i = j
        OBVIOUS
      <4>1. ~ i < j /\ ~ j < i
        BY <1>7
      <4> QED
        BY <4>1
    <3> HIDE DEF f, S
    <3> QED
      BY <1>6, <3>1 DEF Injection, IsInjective
  <2> HIDE DEF f, S
  <2> QED
    BY <1>4, <1>5, <2>1, FS_Injection
<1>9. \A j \in S : Entry(F, j) = f[j]
  <2> SUFFICES ASSUME NEW j \in S PROVE Entry(F, j) = PowerOf(F, a, j)
    OBVIOUS
  <2>1. j \in Nat /\ j # 0
    OBVIOUS
  <2>2. PowerOf(F, a, j) = Power(F, a, j)
    BY <1>0, <1>3, <2>1, PowerIs
  <2> QED
    BY <1>2, <2>2 DEF Entry
<1>10. \A y \in Units(F) : \E j \in S : f[j] = y
  <2> HIDE DEF f, S
  <2> QED
    BY <1>8 DEF Surjection
<1> HIDE DEF f
<1>11. {Entry(F, j) : j \in S} = Units(F)
  <2>1. \A j \in S : Entry(F, j) \in Units(F)
    BY <1>6, <1>9
  <2>2. \A y \in Units(F) : \E j \in S : Entry(F, j) = y
    BY <1>9, <1>10
  <2> HIDE DEF S
  <2> QED
    BY <2>1, <2>2
<1> QED
  BY <1>1, <1>11

\* What is true of a field whose elements are all.
FieldWith(F, all) ==
  /\ F.error = "none" /\ OrderAccepted(F.size) /\ FieldOfOrder(F.size) = F
  /\ \A j \in SymbolsOf(F) : AsInt(F, Element(F, j)) = j
  /\ \A a \in all, b \in all : Times(F, a, b) \in all
  /\ F.size > 2 => \A a \in all \ {ZeroOf(F)} :
                     Times(F, a, Power(F, a, F.size - 2)) = OneOf(F)
  /\ {Entry(F, j) : j \in 1 .. F.size - 1} = all \ {ZeroOf(F)}

LEMMA WithSizeIsField ==
  ASSUME NEW p \in Nat \ {0, 1}, IsPrime(p), NEW n \in Nat \ {0}, NEW F, F = WithSize(p, n)
  PROVE  FieldWith(F, {Element(F, j) : j \in SymbolsOf(F)})
<1>0. PICK all : all = {Element(F, j) : j \in SymbolsOf(F)}
  OBVIOUS
<1>1. F.error = "none" /\ Domain(F) /\ F.size = Raise(p, n)
  BY WithSizeExact
<1>2. Quotient(F)
  BY <1>1 DEF Domain
<1>3. OrderAccepted(F.size) /\ FieldOfOrder(F.size) = F
  BY <1>1, FoundFromOrder
<1>4. all = Elements(F) /\ \A j \in SymbolsOf(F) : AsInt(F, Element(F, j)) = j
  <2>1. /\ \A m \in SymbolsOf(F) : Element(F, m) \in Elements(F) /\ AsInt(F, Element(F, m)) = m
        /\ \A a \in Elements(F) : AsInt(F, a) \in SymbolsOf(F) /\ Element(F, AsInt(F, a)) = a
    BY <1>2, ElementsAre
  <2> QED
    BY <1>0, <2>1
<1>5. all \ {ZeroOf(F)} = Units(F) /\ OneOf(F) = One
  BY <1>2, <1>4, OneIsElement DEF Units, ZeroOf
<1>6. \A a \in all, b \in all : Times(F, a, b) \in all
  BY <1>2, <1>4, SumsReduced
<1>7. F.size > 2 => \A a \in all \ {ZeroOf(F)} :
                      Times(F, a, Power(F, a, F.size - 2)) = OneOf(F)
  BY <1>1, <1>5, PowerInverts
<1>8. {Entry(F, j) : j \in 1 .. F.size - 1} = all \ {ZeroOf(F)}
  BY <1>1, <1>5, EntriesAreUnits
<1> QED
  BY <1>0, <1>1, <1>3, <1>4, <1>6, <1>7, <1>8 DEF FieldWith

\* The laws of a field.
LEMMA LawsOfField ==
  ASSUME NEW F, Quotient(F), NEW a \in Elements(F), NEW b \in Elements(F), NEW c \in Elements(F)
  PROVE  /\ Plus(F, a, b) = Plus(F, b, a) /\ Times(F, a, b) = Times(F, b, a)
         /\ Plus(F, Plus(F, a, b), c) = Plus(F, a, Plus(F, b, c))
         /\ Times(F, Times(F, a, b), c) = Times(F, a, Times(F, b, c))
         /\ Times(F, a, Plus(F, b, c)) = Plus(F, Times(F, a, b), Times(F, a, c))
         /\ Minus(F, Plus(F, a, b), b) = a /\ PlusAssign(F, a, b) = Plus(F, a, b)
<1>1. \A x, y \in Elements(F) :
        /\ Plus(F, x, y) = Add(F.p, x, y) /\ Minus(F, x, y) = Sub(F.p, x, y)
        /\ Add(F.p, x, y) \in Elements(F) /\ Times(F, x, y) \in Elements(F)
  BY SumsReduced
<1>2. /\ Times(F, a, b) = Times(F, b, a)
      /\ Times(F, Times(F, a, b), c) = Times(F, a, Times(F, b, c))
      /\ Times(F, a, Add(F.p, b, c)) = Add(F.p, Times(F, a, b), Times(F, a, c))
  BY TimesLaws
<1>3. /\ Add(F.p, a, b) = Add(F.p, b, a)
      /\ Add(F.p, Add(F.p, a, b), c) = Add(F.p, a, Add(F.p, b, c))
  BY ElementSums
<1>4. Sub(F.p, Add(F.p, a, b), b) = a
  <2>1. /\ F.p \in Nat \ {0, 1} /\ a \in Polys(F.p) /\ b \in Polys(F.p)
        /\ Add(F.p, a, b) \in Polys(F.p)
    BY <1>1, QuotientHas
  <2> QED
    BY <2>1, SubIsUnique
<1> QED
  BY <1>1, <1>2, <1>3, <1>4 DEF PlusAssign

(* Every field that with_size makes, and the field of every matrix file    *)
(* that is read, is a field, found again from its order; its numbers and   *)
(* elements correspond, and every element other than zero is a power that  *)
(* a file can name (finite_field.rs, utils.rs 151-244).                    *)
THEOREM FieldsAreExact == subject \in Subjects => FieldsAreFields
<1> SUFFICES ASSUME subject \in Subjects PROVE FieldsAreFields
  OBVIOUS
<1>1. ASSUME About("file")
      PROVE  LET F == subject.field
             IN SymbolsAdd(F) /\ TablesSolve(F) /\ EntriesInvert(F, subject.file)
  <2>1. /\ subject.file \in Files /\ ReadError(subject.file) = "none"
        /\ subject.field = FieldOf(subject.file)
    BY <1>1, SubjectsAssumption DEF IsSubject, About
  <2> QED
    BY <2>1, FieldsCompute DEF FieldsSolve
<1>2. ASSUME About("field")
      PROVE  FieldWith(subject.field,
                       {Element(subject.field, j) : j \in SymbolsOf(subject.field)})
  <2>1. PICK p, n, F : p = subject.p /\ n = subject.n /\ F = subject.field
    OBVIOUS
  <2>2. Prime(p) /\ n \in Nat \ {0} /\ F = WithSize(p, n)
    BY <1>2, <2>1, SubjectsAssumption DEF IsSubject, About
  <2>3. p \in Nat \ {0, 1} /\ IsPrime(p)
    BY <2>2 DEF Prime, IsPrime
  <2>4. FieldWith(F, {Element(F, j) : j \in SymbolsOf(F)})
    BY <2>2, <2>3, WithSizeIsField
  <2> QED
    BY <2>1, <2>4
<1>3. ASSUME About("triple")
      PROVE  LET F == subject.field
                 a == Element(F, subject.abc[1])
                 b == Element(F, subject.abc[2])
                 c == Element(F, subject.abc[3])
             IN /\ Plus(F, a, b) = Plus(F, b, a) /\ Times(F, a, b) = Times(F, b, a)
                /\ Plus(F, Plus(F, a, b), c) = Plus(F, a, Plus(F, b, c))
                /\ Times(F, Times(F, a, b), c) = Times(F, a, Times(F, b, c))
                /\ Times(F, a, Plus(F, b, c)) = Plus(F, Times(F, a, b), Times(F, a, c))
                /\ Minus(F, Plus(F, a, b), b) = a /\ PlusAssign(F, a, b) = Plus(F, a, b)
  <2>1. PICK p, n, F, abc : p = subject.p /\ n = subject.n /\ F = subject.field /\ abc = subject.abc
    OBVIOUS
  <2>2. Prime(p) /\ n \in Nat \ {0} /\ F = WithSize(p, n) /\ abc \in [1 .. 3 -> SymbolsOf(F)]
    BY <1>3, <2>1, SubjectsAssumption DEF IsSubject, About
  <2>3. p \in Nat \ {0, 1} /\ IsPrime(p)
    BY <2>2 DEF Prime, IsPrime
  <2>4. Quotient(F)
    BY <2>2, <2>3, WithSizeExact DEF Domain
  <2>5. \A i \in 1 .. 3 : Element(F, abc[i]) \in Elements(F)
    BY <2>2, <2>4, ElementsAre
  <2>6. PICK a, b, c : /\ a = Element(F, abc[1]) /\ b = Element(F, abc[2]) /\ c = Element(F, abc[3])
                       /\ a \in Elements(F) /\ b \in Elements(F) /\ c \in Elements(F)
    BY <2>5
  <2> QED
    BY <2>1, <2>4, <2>6, LawsOfField
<1> QED
  BY <1>1, <1>2, <1>3 DEF FieldsAreFields, FieldWith

-----------------------------------------------------------------------------
(* A check, apart from its field: the symbols its variables can be, a sum  *)
(* that takes in one variable after the other, and the symbol of a variable*)
(* that takes one sum to another.                                          *)

\* The sum b once n is a; and what n has to be for that to be a.
Put(g, n, b, a) == g.add[<<b, g.check[n], a>>]
Solve(g, n, a, b) == g.mult[g.check[n]][<<a, b>>]

\* plus adds two sums.
Shape(g) ==
  /\ g.length \in Nat /\ IsFiniteSet(g.symbols) /\ 0 \in g.symbols
  /\ DOMAIN g.check \subseteq 0 .. g.length - 1
  /\ \A a, b \in g.symbols : g.plus[<<a, b>>] \in g.symbols /\ g.plus[<<a, 0>>] = a

Solves(g) ==
  \A n \in DOMAIN g.check : \A a, b, e \in g.symbols :
    /\ Put(g, n, b, a) \in g.symbols /\ Solve(g, n, a, b) \in g.symbols
    /\ Put(g, n, b, e) = a <=> e = Solve(g, n, a, b)

Turns(g) ==
  \A n, m \in DOMAIN g.check : \A a, b, c \in g.symbols :
    Put(g, m, Put(g, n, b, a), c) = Put(g, n, Put(g, m, b, c), a)

Joins(g) ==
  \A n \in DOMAIN g.check : \A a, b, c \in g.symbols :
    Put(g, n, g.plus[<<b, c>>], a) = g.plus[<<b, Put(g, n, c, a)>>]

Laws(g) == Shape(g) /\ Solves(g) /\ Turns(g) /\ Joins(g)

LEMMA PutTurns ==
  ASSUME NEW g, Laws(g), NEW n \in DOMAIN g.check, NEW m \in DOMAIN g.check,
         NEW a \in g.symbols, NEW b \in g.symbols, NEW c \in g.symbols
  PROVE  Put(g, m, Put(g, n, b, a), c) = Put(g, n, Put(g, m, b, c), a)
BY DEF Laws, Turns

LEMMA PutJoins ==
  ASSUME NEW g, Laws(g), NEW n \in DOMAIN g.check,
         NEW a \in g.symbols, NEW b \in g.symbols, NEW c \in g.symbols
  PROVE  Put(g, n, g.plus[<<b, c>>], a) = g.plus[<<b, Put(g, n, c, a)>>]
BY DEF Laws, Joins

LEMMA SolveIs ==
  ASSUME NEW g, Laws(g), NEW n \in DOMAIN g.check,
         NEW a \in g.symbols, NEW b \in g.symbols, NEW e \in g.symbols
  PROVE  /\ Put(g, n, b, a) \in g.symbols /\ Solve(g, n, a, b) \in g.symbols
         /\ Put(g, n, b, e) = a <=> e = Solve(g, n, a, b)
BY DEF Laws, Solves

\* w gives a symbol to each variable of D, which are variables of the check.
Names(g, D, w) == D \subseteq DOMAIN g.check /\ \A n \in D : w[n] \in g.symbols

SumsTo(g, D, w, f) ==
  /\ f \in [0 .. g.length -> g.symbols] /\ f[0] = 0
  /\ \A k \in 0 .. g.length - 1 : f[k + 1] = IF k \in D THEN Put(g, k, f[k], w[k]) ELSE f[k]

SumOver(g, D, w) == (CHOOSE f : SumsTo(g, D, w, f))[g.length]

LEMMA SumsExist ==
  ASSUME NEW g, Laws(g), NEW D, NEW w, Names(g, D, w)
  PROVE  \E f : SumsTo(g, D, w, f)
<1> DEFINE step == [k \in 0 .. g.length - 1 |->
                     [v \in g.symbols |-> IF k \in D THEN Put(g, k, v, w[k]) ELSE v]]
<1>0. g.length \in Nat /\ 0 \in g.symbols
  BY DEF Laws, Shape
<1>1. \A k \in 0 .. g.length - 1 : \A v \in g.symbols : step[k][v] \in g.symbols
  BY DEF Laws, Shape, Solves, Names
<1>2. PICK f : Steps(f, g.symbols, g.length, 0, step)
  <2> HIDE DEF step
  <2> QED
    BY <1>0, <1>1, StepsExist
<1>3. /\ f \in [0 .. g.length -> g.symbols] /\ f[0] = 0
      /\ \A k \in 0 .. g.length - 1 : f[k + 1] = step[k][f[k]]
  <2> HIDE DEF step
  <2> QED
    BY <1>2 DEF Steps
<1>4. ASSUME NEW k \in 0 .. g.length - 1
      PROVE  f[k + 1] = IF k \in D THEN Put(g, k, f[k], w[k]) ELSE f[k]
  <2>1. f[k] \in g.symbols
    BY <1>0, <1>3
  <2>2. step[k][f[k]] = IF k \in D THEN Put(g, k, f[k], w[k]) ELSE f[k]
    BY <2>1
  <2> QED
    BY <1>3, <2>2
<1>5. SumsTo(g, D, w, f)
  BY <1>3, <1>4 DEF SumsTo
<1> QED
  BY <1>5

LEMMA SumsAgree ==
  ASSUME NEW g, Laws(g), NEW D, NEW w, NEW v, \A n \in D : w[n] = v[n],
         NEW f, SumsTo(g, D, w, f), NEW h, SumsTo(g, D, v, h)
  PROVE  f[g.length] = h[g.length]
<1> DEFINE G == {k \in Nat : k <= g.length => f[k] = h[k]}
<1>0. g.length \in Nat
  BY DEF Laws, Shape
<1>1. 0 \in G
  BY DEF SumsTo
<1>2. ASSUME NEW k \in G PROVE k + 1 \in G
  BY <1>0 DEF SumsTo
<1>3. G = Nat
  <2> HIDE DEF G
  <2>1. G \in SUBSET Nat
    BY DEF G
  <2> QED
    BY <1>1, <1>2, <2>1, Counting
<1> QED
  BY <1>0, <1>3

LEMMA SumIs ==
  ASSUME NEW g, Laws(g), NEW D, NEW w, NEW f, SumsTo(g, D, w, f)
  PROVE  SumOver(g, D, w) = f[g.length] /\ SumOver(g, D, w) \in g.symbols
<1>1. PICK h : SumsTo(g, D, w, h) /\ SumOver(g, D, w) = h[g.length]
  BY DEF SumOver
<1>2. f[g.length] = h[g.length]
  BY <1>1, SumsAgree
<1>3. h[g.length] \in g.symbols
  BY <1>1 DEF SumsTo, Laws, Shape
<1> QED
  BY <1>1, <1>2, <1>3

LEMMA SumType ==
  ASSUME NEW g, Laws(g), NEW D, NEW w, Names(g, D, w)
  PROVE  SumOver(g, D, w) \in g.symbols
BY SumsExist, SumIs

LEMMA SameSum ==
  ASSUME NEW g, Laws(g), NEW D, NEW w, NEW v, Names(g, D, w), \A n \in D : w[n] = v[n]
  PROVE  SumOver(g, D, w) = SumOver(g, D, v)
<1>1. Names(g, D, v)
  BY DEF Names
<1>2. PICK f : SumsTo(g, D, w, f)
  BY SumsExist
<1>3. PICK h : SumsTo(g, D, v, h)
  BY <1>1, SumsExist
<1> QED
  BY <1>2, <1>3, SumIs, SumsAgree

LEMMA SumOfNone ==
  ASSUME NEW g, Laws(g), NEW w
  PROVE  SumOver(g, {}, w) = 0
<1> DEFINE f == [k \in 0 .. g.length |-> 0]
<1>1. SumsTo(g, {}, w, f) /\ f[g.length] = 0
  BY DEF SumsTo, Laws, Shape
<1> QED
  BY <1>1, SumIs

\* Variables are added to a sum in any order.
LEMMA SumOfOneMore ==
  ASSUME NEW g, Laws(g), NEW D, NEW w, NEW n, n \notin D, Names(g, D \cup {n}, w)
  PROVE  SumOver(g, D \cup {n}, w) = Put(g, n, SumOver(g, D, w), w[n])
<1>0. /\ Names(g, D, w) /\ w[n] \in g.symbols /\ n \in DOMAIN g.check
      /\ n \in 0 .. g.length - 1 /\ g.length \in Nat
  BY DEF Names, Laws, Shape
<1>1. PICK f : SumsTo(g, D, w, f)
  BY <1>0, SumsExist
<1>2. PICK h : SumsTo(g, D \cup {n}, w, h)
  BY SumsExist
<1> DEFINE G == {k \in Nat : k <= g.length =>
                   h[k] = IF k <= n THEN f[k] ELSE Put(g, n, f[k], w[n])}
<1>3. 0 \in G
  BY <1>0, <1>1, <1>2 DEF SumsTo
<1>4. ASSUME NEW k \in G PROVE k + 1 \in G
  <2>0. k \in Nat
    OBVIOUS
  <2> SUFFICES ASSUME k + 1 <= g.length
               PROVE  h[k + 1] = IF k + 1 <= n THEN f[k + 1] ELSE Put(g, n, f[k + 1], w[n])
    BY <2>0
  <2>1. h[k] = IF k <= n THEN f[k] ELSE Put(g, n, f[k], w[n])
    BY <1>0, <2>0
  <2> HIDE DEF G
  <2>2. k \in 0 .. g.length - 1 /\ f[k] \in g.symbols
    BY <1>0, <1>1, <2>0 DEF SumsTo
  <2>3. /\ f[k + 1] = IF k \in D THEN Put(g, k, f[k], w[k]) ELSE f[k]
        /\ h[k + 1] = IF k \in D \cup {n} THEN Put(g, k, h[k], w[k]) ELSE h[k]
    BY <1>1, <1>2, <2>2 DEF SumsTo
  <2>4. CASE k < n
    BY <1>0, <2>0, <2>1, <2>3, <2>4
  <2>5. CASE k = n
    BY <1>0, <2>0, <2>1, <2>3, <2>5
  <2>6. CASE k > n
    <3>1. h[k] = Put(g, n, f[k], w[n]) /\ k # n /\ ~ (k + 1 <= n)
      BY <1>0, <2>0, <2>1, <2>6
    <3>2. CASE k \in D
      <4>1. w[k] \in g.symbols /\ k \in DOMAIN g.check
        BY <1>0, <3>2 DEF Names
      <4>2. Put(g, k, Put(g, n, f[k], w[n]), w[k]) = Put(g, n, Put(g, k, f[k], w[k]), w[n])
        BY <1>0, <2>2, <4>1, PutTurns
      <4> QED
        BY <2>3, <3>1, <3>2, <4>2
    <3>3. CASE k \notin D
      BY <2>3, <3>1, <3>3
    <3> QED
      BY <3>2, <3>3
  <2> QED
    BY <1>0, <2>0, <2>4, <2>5, <2>6
<1>5. G = Nat
  <2> HIDE DEF G
  <2>1. G \in SUBSET Nat
    BY DEF G
  <2> QED
    BY <1>3, <1>4, <2>1, Counting
<1>6. h[g.length] = Put(g, n, f[g.length], w[n])
  BY <1>0, <1>5
<1> QED
  BY <1>1, <1>2, <1>6, SumIs

LEMMA SumOfUnion ==
  ASSUME NEW g, Laws(g), NEW D, NEW F, D \cap F = {}, NEW w, Names(g, D \cup F, w)
  PROVE  SumOver(g, D \cup F, w) = g.plus[<<SumOver(g, D, w), SumOver(g, F, w)>>]
<1> DEFINE Both(T) == SumOver(g, D \cup T, w) = g.plus[<<SumOver(g, D, w), SumOver(g, T, w)>>]
           G == {T \in SUBSET F : Both(T)}
<1>0. /\ Names(g, D, w) /\ IsFiniteSet(F) /\ \A T \in SUBSET F : Names(g, T, w)
      /\ SumOver(g, D, w) \in g.symbols
  <2>1. Names(g, D, w) /\ \A T \in SUBSET F : Names(g, T, w)
    BY DEF Names
  <2>2. F \in SUBSET (0 .. g.length - 1) /\ IsFiniteSet(0 .. g.length - 1)
    <3>1. 0 \in Int /\ g.length - 1 \in Int
      BY DEF Laws, Shape
    <3>2. IsFiniteSet(0 .. g.length - 1)
      BY <3>1, FS_Interval
    <3> QED
      BY <3>2 DEF Names, Laws, Shape
  <2> QED
    BY <2>1, <2>2, FS_Subset, SumType
<1>1. {} \in G
  <2>1. D \cup {} = D
    OBVIOUS
  <2>2. g.plus[<<SumOver(g, D, w), 0>>] = SumOver(g, D, w)
    BY <1>0 DEF Laws, Shape
  <2> QED
    BY <2>1, <2>2, SumOfNone
<1>2. ASSUME NEW T \in G, NEW y \in F \ T PROVE T \cup {y} \in G
  <2>1. T \in SUBSET F /\ y \in F /\ y \notin T /\ Both(T)
    OBVIOUS
  <2> HIDE DEF G
  <2>2. PICK V : V = D \cup T
    OBVIOUS
  <2>3. y \notin V /\ D \cup (T \cup {y}) = V \cup {y} /\ T \cup {y} \in SUBSET F
    BY <2>1, <2>2
  <2>4. Names(g, V \cup {y}, w) /\ Names(g, T \cup {y}, w) /\ Names(g, T, w)
    BY <2>1, <2>2 DEF Names
  <2>5. SumOver(g, V \cup {y}, w) = Put(g, y, SumOver(g, V, w), w[y])
    BY <2>3, <2>4, SumOfOneMore
  <2>6. SumOver(g, T \cup {y}, w) = Put(g, y, SumOver(g, T, w), w[y])
    BY <2>1, <2>4, SumOfOneMore
  <2>7. SumOver(g, T, w) \in g.symbols /\ w[y] \in g.symbols /\ y \in DOMAIN g.check
    BY <2>4, SumType DEF Names
  <2>8. Put(g, y, g.plus[<<SumOver(g, D, w), SumOver(g, T, w)>>], w[y])
        = g.plus[<<SumOver(g, D, w), Put(g, y, SumOver(g, T, w), w[y])>>]
    BY <1>0, <2>7, PutJoins
  <2>9. Both(T \cup {y})
    BY <2>1, <2>2, <2>3, <2>5, <2>6, <2>8
  <2> QED
    BY <2>3, <2>9 DEF G
<1>3. F \in G
  <2> HIDE DEF G
  <2>1. G \in SUBSET (SUBSET F)
    BY DEF G
  <2> QED
    BY <1>0, <1>1, <1>2, <2>1, Growing
<1> QED
  BY <1>3

-----------------------------------------------------------------------------
(* What the assignments to some of the variables of a check are worth      *)

\* The assignments to the variables D that sum up to i, what an assignment is
\* worth by the likelihoods q, and what they are worth together.
Assignments(g, D, i) == {w \in [D -> g.symbols] : SumOver(g, D, w) = i}
Worth(q, D, w) == ProductOf([n \in D |-> q[n][w[n]]], D)
Worths(g, q, D) == [w \in [D -> g.symbols] |-> Worth(q, D, w)]
Chance(g, q, D) == [i \in g.symbols |-> Total(Worths(g, q, D), Assignments(g, D, i))]

\* q gives each variable of D the likelihoods of the symbols.
Likelihoods(g, q, D) ==
  /\ D \subseteq DOMAIN g.check
  /\ \A n \in D : \A a \in g.symbols : q[n][a] \in Int

LEMMA VariablesFinite ==
  ASSUME NEW g, Laws(g), NEW D, D \subseteq DOMAIN g.check
  PROVE  IsFiniteSet(D) /\ IsFiniteSet([D -> g.symbols]) /\ IsFiniteSet(g.symbols)
<1>0. 0 \in Int /\ g.length - 1 \in Int
  BY DEF Laws, Shape
<1>1. D \in SUBSET (0 .. g.length - 1) /\ IsFiniteSet(0 .. g.length - 1) /\ IsFiniteSet(g.symbols)
  <2>1. IsFiniteSet(0 .. g.length - 1)
    BY <1>0, FS_Interval
  <2> QED
    BY <2>1 DEF Laws, Shape
<1>2. IsFiniteSet(D)
  BY <1>1, FS_Subset
<1> QED
  BY <1>1, <1>2, FinitelyMany

LEMMA WorthType ==
  ASSUME NEW g, Laws(g), NEW q, NEW D, Likelihoods(g, q, D), NEW w \in [D -> g.symbols]
  PROVE  Worth(q, D, w) \in Int /\ Worths(g, q, D)[w] = Worth(q, D, w)
<1>1. IsFiniteSet(D)
  BY VariablesFinite DEF Likelihoods
<1>2. Integral([n \in D |-> q[n][w[n]]], D)
  BY DEF Integral, Likelihoods
<1> QED
  BY <1>1, <1>2, ProductType DEF Worth, Worths

LEMMA AssignmentsFinite ==
  ASSUME NEW g, Laws(g), NEW q, NEW D, Likelihoods(g, q, D), NEW i
  PROVE  /\ Assignments(g, D, i) \in SUBSET [D -> g.symbols]
         /\ IsFiniteSet(Assignments(g, D, i))
         /\ Integral(Worths(g, q, D), Assignments(g, D, i))
         /\ Total(Worths(g, q, D), Assignments(g, D, i)) \in Int
<1>1. Assignments(g, D, i) \in SUBSET [D -> g.symbols]
  BY DEF Assignments
<1>2. IsFiniteSet(Assignments(g, D, i))
  BY <1>1, VariablesFinite, FS_Subset DEF Likelihoods
<1>3. Integral(Worths(g, q, D), Assignments(g, D, i))
  <2> SUFFICES ASSUME NEW w \in Assignments(g, D, i) PROVE Worths(g, q, D)[w] \in Int
    BY DEF Integral
  <2> QED
    BY <1>1, WorthType
<1> QED
  BY <1>1, <1>2, <1>3, TotalType

\* No variables sum up to zero.
LEMMA ChanceOfNone ==
  ASSUME NEW g, Laws(g), NEW q
  PROVE  Chance(g, q, {}) = [i \in g.symbols |-> IF i = 0 THEN 1 ELSE 0]
<1> DEFINE none == [x \in {} |-> 0]
<1>1. none \in [{} -> g.symbols] /\ \A w \in [{} -> g.symbols] : w = none
  OBVIOUS
<1> HIDE DEF none
<1>2. Likelihoods(g, q, {})
  BY DEF Likelihoods
<1>3. Worths(g, q, {})[none] = 1
  <2>1. Worths(g, q, {})[none] = Worth(q, {}, none)
    BY <1>1 DEF Worths
  <2> QED
    BY <2>1, ProductOfNone DEF Worth
<1>4. ASSUME NEW i \in g.symbols
      PROVE  Total(Worths(g, q, {}), Assignments(g, {}, i)) = IF i = 0 THEN 1 ELSE 0
  <2>1. CASE i = 0
    <3>1. Assignments(g, {}, i) = {} \cup {none}
      BY <1>1, <2>1, SumOfNone DEF Assignments
    <3>2. IsFiniteSet({}) /\ Integral(Worths(g, q, {}), {} \cup {none})
      BY <1>3, FS_EmptySet DEF Integral
    <3>3. Total(Worths(g, q, {}), {} \cup {none}) = 1 + Total(Worths(g, q, {}), {})
      BY <1>3, <3>2, TotalOfOneMore
    <3> QED
      BY <2>1, <3>1, <3>3, TotalOfNone
  <2>2. CASE i # 0
    <3>1. Assignments(g, {}, i) = {}
      BY <2>2, SumOfNone DEF Assignments
    <3> QED
      BY <2>2, <3>1, TotalOfNone
  <2> QED
    BY <2>1, <2>2
<1> QED
  BY <1>4 DEF Chance

\* v[j]: what is worth the assignments to D and n that sum up to i, those to D
\* up to j.
WithOneMore(v, g, q, D, n, i) ==
  \A j \in g.symbols : v[j] = Chance(g, q, D)[j] * q[n][Solve(g, n, i, j)]

LEMMA ChanceOfOneMore ==
  ASSUME NEW g, Laws(g), NEW q, NEW D, NEW n, n \notin D, Likelihoods(g, q, D \cup {n}),
         NEW i \in g.symbols, NEW v, WithOneMore(v, g, q, D, n, i)
  PROVE  Chance(g, q, D \cup {n})[i] = Total(v, g.symbols)
<1> DEFINE E == D \cup {n}
           T == Assignments(g, E, i)
           w == Worths(g, q, E)
           class == [u \in [E -> g.symbols] |-> SumOver(g, D, u)]
<1>0. /\ n \in DOMAIN g.check /\ Likelihoods(g, q, D) /\ IsFiniteSet(g.symbols) /\ IsFiniteSet(D)
      /\ \A a \in g.symbols : q[n][a] \in Int
  <2>1. n \in DOMAIN g.check /\ Likelihoods(g, q, D) /\ \A a \in g.symbols : q[n][a] \in Int
    BY DEF Likelihoods
  <2> QED
    BY <2>1, VariablesFinite DEF Likelihoods
<1>1. T \in SUBSET [E -> g.symbols] /\ IsFiniteSet(T) /\ Integral(w, T)
  BY AssignmentsFinite
<1>2. ASSUME NEW u \in [E -> g.symbols]
      PROVE  /\ Names(g, E, u) /\ Names(g, D, u) /\ u[n] \in g.symbols
             /\ class[u] = SumOver(g, D, u) /\ class[u] \in g.symbols
             /\ SumOver(g, E, u) = Put(g, n, class[u], u[n])
  <2>1. Names(g, E, u) /\ Names(g, D, u) /\ u[n] \in g.symbols
    BY <1>0 DEF Names, Likelihoods
  <2>2. class[u] = SumOver(g, D, u)
    OBVIOUS
  <2> HIDE DEF class
  <2> QED
    BY <2>1, <2>2, SumType, SumOfOneMore
<1>3. ASSUME NEW j \in g.symbols
      PROVE  v[j] = Total(w, {u \in T : class[u] = j})
  <2> DEFINE e == Solve(g, n, i, j)
             U == Assignments(g, D, j)
             V == {u \in T : class[u] = j}
             b == [u \in [D -> g.symbols] |-> [m \in E |-> IF m = n THEN e ELSE u[m]]]
             z == [u \in U |-> q[n][e] * Worths(g, q, D)[u]]
  <2>1. e \in g.symbols /\ \A a \in g.symbols : Put(g, n, j, a) = i <=> a = e
    BY <1>0, SolveIs
  <2>2. /\ U \in SUBSET [D -> g.symbols] /\ IsFiniteSet(U) /\ Integral(Worths(g, q, D), U)
        /\ Chance(g, q, D)[j] = Total(Worths(g, q, D), U) /\ Total(Worths(g, q, D), U) \in Int
    BY <1>0, AssignmentsFinite DEF Chance
  <2>3. ASSUME NEW u \in [D -> g.symbols]
        PROVE  /\ b[u] \in [E -> g.symbols] /\ b[u][n] = e /\ \A m \in D : b[u][m] = u[m]
               /\ class[b[u]] = SumOver(g, D, u)
    <3> HIDE DEF e
    <3>1. b[u] \in [E -> g.symbols] /\ b[u][n] = e /\ \A m \in D : b[u][m] = u[m]
      BY <2>1
    <3> HIDE DEF b, class
    <3>2. Names(g, D, b[u]) /\ class[b[u]] = SumOver(g, D, b[u])
      BY <1>2, <3>1
    <3> QED
      BY <3>1, <3>2, SameSum
  <2>4. ASSUME NEW u \in U PROVE b[u] \in V
    <3>1. u \in [D -> g.symbols] /\ SumOver(g, D, u) = j
      BY DEF Assignments
    <3>2. b[u] \in [E -> g.symbols] /\ b[u][n] = e /\ class[b[u]] = j
      BY <2>3, <3>1
    <3> HIDE DEF b, class, e
    <3>3. SumOver(g, E, b[u]) = i
      BY <1>2, <2>1, <3>2
    <3> QED
      BY <3>2, <3>3 DEF Assignments
  <2>5. ASSUME NEW x \in U, NEW y \in U, b[x] = b[y] PROVE x = y
    <3> HIDE DEF b, U, e
    <3>1. x \in [D -> g.symbols] /\ y \in [D -> g.symbols]
      BY <2>2
    <3>2. /\ \A m \in D : b[x][m] = x[m]
          /\ \A m \in D : b[y][m] = y[m]
      BY <2>3, <3>1
    <3>3. \A m \in D : x[m] = y[m]
      BY <2>5, <3>2
    <3> QED
      BY <3>1, <3>3
  <2>6. ASSUME NEW t \in V PROVE \E u \in U : b[u] = t
    <3>1. t \in [E -> g.symbols] /\ SumOver(g, E, t) = i /\ class[t] = j
      BY DEF Assignments
    <3>2. PICK u \in [D -> g.symbols] : u = [m \in D |-> t[m]]
      BY <3>1
    <3>3. SumOver(g, D, u) = j
      <4> HIDE DEF class
      <4>1. Names(g, D, u) /\ \A m \in D : u[m] = t[m]
        BY <1>2, <3>1, <3>2 DEF Names
      <4>2. SumOver(g, D, u) = SumOver(g, D, t)
        BY <4>1, SameSum
      <4> QED
        BY <1>2, <3>1, <4>2
    <3>4. t[n] = e
      <4> HIDE DEF class, e
      <4> QED
        BY <1>2, <2>1, <3>1
    <3>5. b[u] = t
      <4> HIDE DEF b, e
      <4>1. /\ b[u] \in [E -> g.symbols] /\ b[u][n] = e
            /\ \A m \in D : b[u][m] = u[m]
        BY <2>3
      <4>2. \A m \in E : b[u][m] = t[m]
        BY <3>2, <3>4, <4>1
      <4> HIDE DEF E
      <4> QED
        BY <3>1, <4>1, <4>2
    <3>6. u \in U
      BY <3>2, <3>3 DEF Assignments
    <3> QED
      BY <3>5, <3>6
  <2>7. OneToOne(b, U, V)
    <3> HIDE DEF b, U, V
    <3> QED
      BY <2>4, <2>5, <2>6 DEF OneToOne
  <2>8. ASSUME NEW u \in U PROVE z[u] = w[b[u]]
    <3>1. u \in [D -> g.symbols]
      BY <2>2
    <3>2. b[u] \in [E -> g.symbols]
      BY <2>3, <3>1
    <3>3. PICK t : t = b[u] /\ t \in [E -> g.symbols] /\ t[n] = e /\ \A m \in D : t[m] = u[m]
      <4>1. b[u][n] = e /\ \A m \in D : b[u][m] = u[m]
        BY <2>3, <3>1
      <4> HIDE DEF b, e, U, E
      <4> QED
        BY <3>2, <4>1
    <3> HIDE DEF b, U, e
    <3> DEFINE x == [m \in E |-> q[m][t[m]]]
               y == [m \in D |-> q[m][u[m]]]
    <3>4. w[t] = ProductOf(x, E) /\ Worths(g, q, D)[u] = ProductOf(y, D)
      BY <1>0, <3>1, <3>3, WorthType DEF Worth
    <3>5. Integral(x, E)
      <4>1. ASSUME NEW m \in E PROVE q[m][t[m]] \in Int
        <5>1. t[m] \in g.symbols
          <6> HIDE DEF E
          <6> QED
            BY <3>3
        <5> QED
          BY <5>1 DEF Likelihoods
      <4> HIDE DEF E
      <4> QED
        BY <4>1 DEF Integral
    <3>6. ProductOf(x, D \cup {n}) = x[n] * ProductOf(x, D)
      <4> HIDE DEF x
      <4> QED
        BY <1>0, <3>5, ProductOfOneMore
    <3>7. ProductOf(x, D) = ProductOf(y, D)
      <4>1. \A m \in D : x[m] = y[m]
        BY <3>3
      <4> HIDE DEF x, y
      <4> QED
        BY <1>0, <4>1, ProductsAgree
    <3>8. x[n] = q[n][e]
      BY <3>3
    <3> HIDE DEF x, y, w
    <3> QED
      BY <3>3, <3>4, <3>6, <3>7, <3>8
  <2>9. Integral(w, V)
    BY <1>1 DEF Integral
  <2>10. Total(z, U) = Total(w, V)
    <3> HIDE DEF z, U, w, V, b
    <3> QED
      BY <2>2, <2>7, <2>8, <2>9, TotalRenamed
  <2>11. Total(z, U) = q[n][e] * Total(Worths(g, q, D), U)
    <3>1. q[n][e] \in Int
      BY <1>0, <2>1
    <3>2. \A u \in U : z[u] = q[n][e] * Worths(g, q, D)[u]
      OBVIOUS
    <3> HIDE DEF z, U, e
    <3> QED
      BY <2>2, <3>1, <3>2, TotalOfMultiples
  <2>12. PICK c \in Int, d \in Int : c = q[n][e] /\ d = Total(Worths(g, q, D), U)
    BY <1>0, <2>1, <2>2
  <2>13. v[j] = d * c /\ d * c = c * d
    BY <2>2, <2>12 DEF WithOneMore
  <2> QED
    BY <2>10, <2>11, <2>12, <2>13
<1>4. Total(w, T) = Total(v, g.symbols)
  <2>1. \A u \in T : class[u] \in g.symbols
    BY <1>1, <1>2
  <2>2. ByClass(v, w, T, class, g.symbols)
    <3> HIDE DEF w, T, class
    <3> QED
      BY <1>3, <2>1 DEF ByClass
  <2> HIDE DEF w, T, class
  <2> QED
    BY <1>0, <1>1, <2>2, TotalByClass
<1> QED
  BY <1>4 DEF Chance

-----------------------------------------------------------------------------
(* All that is worth the assignments in which one variable is given        *)

\* The check's variables are n, which is a, and those of D and F; cols counts
\* an assignment by the likelihoods q of the others.
Around(g, q, cols, C, D, F, n, a) ==
  /\ C = (D \cup F) \cup {n} /\ D \cap F = {} /\ n \notin D /\ n \notin F
  /\ Likelihoods(g, q, D) /\ Likelihoods(g, q, F)
  /\ n \in DOMAIN g.check /\ a \in g.symbols
  /\ cols[n][a] = 1 /\ \A m \in D \cup F : cols[m] = q[m]

\* w gives the assignments T their worth; with b on one side, a sum needs y on
\* the other for n to make it z.
Valued(w, T, cols, C) == \A t \in T : w[t] = Worth(cols, C, t)
Completes(g, n, a, z, b, y) ==
  \A x \in g.symbols : Put(g, n, g.plus[<<b, x>>], a) = z <=> x = y

LEMMA WorthAround ==
  ASSUME NEW g, Laws(g), NEW q, NEW cols, NEW C, NEW D, NEW F, NEW n, NEW a,
         Around(g, q, cols, C, D, F, n, a),
         NEW u \in [D -> g.symbols], NEW x \in [F -> g.symbols],
         NEW t \in [C -> g.symbols],
         t[n] = a, \A m \in D : t[m] = u[m], \A m \in F : t[m] = x[m]
  PROVE  /\ Worth(cols, C, t) = Worth(q, D, u) * Worth(q, F, x)
         /\ SumOver(g, C, t)
            = Put(g, n, g.plus[<<SumOver(g, D, u), SumOver(g, F, x)>>], a)
<1> DEFINE h == [m \in C |-> cols[m][t[m]]]
           hD == [m \in D |-> q[m][u[m]]]
           hF == [m \in F |-> q[m][x[m]]]
<1>0. /\ C = (D \cup F) \cup {n} /\ D \cap F = {} /\ n \notin D \cup F /\ Likelihoods(g, q, D) /\ Likelihoods(g, q, F)
      /\ D \cup F \subseteq DOMAIN g.check /\ n \in DOMAIN g.check
  BY DEF Around, Likelihoods
<1>1. IsFiniteSet(D) /\ IsFiniteSet(F) /\ IsFiniteSet(D \cup F)
  BY <1>0, VariablesFinite, FS_Union DEF Likelihoods
<1>2. /\ h[n] = 1
      /\ \A m \in D : h[m] = hD[m] /\ h[m] \in Int
      /\ \A m \in F : h[m] = hF[m] /\ h[m] \in Int
  <2>1. h[n] = cols[n][a]
    BY <1>0
  <2>2. ASSUME NEW m \in D PROVE h[m] = hD[m] /\ h[m] \in Int
    BY <1>0 DEF Around, Likelihoods
  <2>3. ASSUME NEW m \in F PROVE h[m] = hF[m] /\ h[m] \in Int
    BY <1>0 DEF Around, Likelihoods
  <2> QED
    BY <2>1, <2>2, <2>3 DEF Around
<1>3. /\ Worth(cols, C, t) = ProductOf(h, C)
      /\ Worth(q, D, u) = ProductOf(hD, D) /\ Worth(q, F, x) = ProductOf(hF, F)
  BY DEF Worth
<1> HIDE DEF h, hD, hF
<1>4. Integral(h, C) /\ Integral(h, D \cup F) /\ Integral(h, D) /\ Integral(h, F)
  BY <1>0, <1>2 DEF Integral
<1>5. ProductOf(h, C) = h[n] * ProductOf(h, D \cup F)
  BY <1>0, <1>1, <1>4, ProductOfOneMore
<1>6. ProductOf(h, D \cup F) = ProductOf(h, D) * ProductOf(h, F)
  <2>1. PICK V : V = D \cup F
    OBVIOUS
  <2>2. D \in SUBSET V /\ F \in SUBSET V /\ IsFiniteSet(V) /\ Integral(h, V)
    BY <1>1, <1>4, <2>1
  <2>3. ProductOf(h, D \cup F) = ProductOf(h, D) * ProductOf(h, F)
    BY <1>0, <2>2, ProductOfUnion
  <2> QED
    BY <2>3
<1>7. ProductOf(h, D) = ProductOf(hD, D) /\ ProductOf(h, F) = ProductOf(hF, F)
  <2>1. \A m \in D : h[m] = hD[m]
    BY <1>2
  <2>2. \A m \in F : h[m] = hF[m]
    BY <1>2
  <2> QED
    BY <1>1, <2>1, <2>2, ProductsAgree
<1>8. Worth(cols, C, t) = Worth(q, D, u) * Worth(q, F, x)
  <2>1. PICK i \in Int, j \in Int : i = ProductOf(h, D) /\ j = ProductOf(h, F)
    BY <1>1, <1>4, ProductType
  <2>2. 1 * (i * j) = i * j
    OBVIOUS
  <2> QED
    BY <1>2, <1>3, <1>5, <1>6, <1>7, <2>1, <2>2
<1>9. Names(g, C, t) /\ Names(g, D \cup F, t) /\ Names(g, D, u) /\ Names(g, F, x)
  BY <1>0 DEF Names
<1>10. SumOver(g, C, t) = Put(g, n, SumOver(g, D \cup F, t), t[n])
  BY <1>0, <1>9, SumOfOneMore
<1>11. SumOver(g, D \cup F, t) = g.plus[<<SumOver(g, D, t), SumOver(g, F, t)>>]
  BY <1>0, <1>9, SumOfUnion
<1>12. SumOver(g, D, t) = SumOver(g, D, u) /\ SumOver(g, F, t) = SumOver(g, F, x)
  BY <1>9, SameSum
<1> QED
  BY <1>8, <1>10, <1>11, <1>12

\* The assignments to D, n and F in which n is a and the sum is z.
Making(g, C, n, a, z) ==
  {w \in [C -> g.symbols] :
     SumOver(g, C, w) = z /\ w[n] = a}

\* Those that are u on D, the rest of which sums up to y.
LEMMA MadeWith ==
  ASSUME NEW g, Laws(g), NEW q, NEW cols, NEW C, NEW D, NEW F, NEW n, NEW a,
         Around(g, q, cols, C, D, F, n, a),
         NEW u \in [D -> g.symbols], NEW z, NEW y \in g.symbols,
         Completes(g, n, a, z, SumOver(g, D, u), y),
         NEW T, T = {w \in Making(g, C, n, a, z) : [m \in D |-> w[m]] = u},
         NEW w, Valued(w, T, cols, C)
  PROVE  Total(w, T) = Worth(q, D, u) * Chance(g, q, F)[y]
<1> DEFINE B == Assignments(g, F, y)
           b == [x \in [F -> g.symbols] |->
                  [m \in C |-> IF m = n THEN a ELSE IF m \in D THEN u[m] ELSE x[m]]]
           v == [x \in B |-> Worth(q, D, u) * Worths(g, q, F)[x]]
<1>0. /\ C = (D \cup F) \cup {n} /\ D \cap F = {} /\ n \notin D \cup F /\ Likelihoods(g, q, D) /\ Likelihoods(g, q, F)
      /\ a \in g.symbols
  BY DEF Around
<1>1. /\ B \in SUBSET [F -> g.symbols] /\ IsFiniteSet(B) /\ Integral(Worths(g, q, F), B)
      /\ Chance(g, q, F)[y] = Total(Worths(g, q, F), B)
  BY <1>0, AssignmentsFinite DEF Chance
<1>2. ASSUME NEW x \in [F -> g.symbols]
      PROVE  /\ b[x] \in [C -> g.symbols] /\ b[x][n] = a
             /\ \A m \in D : b[x][m] = u[m]
             /\ \A m \in F : b[x][m] = x[m]
  BY <1>0
<1> HIDE DEF b
<1>3. ASSUME NEW t \in [C -> g.symbols], t[n] = a, NEW x \in [F -> g.symbols],
             \A m \in D : t[m] = u[m], \A m \in F : t[m] = x[m]
      PROVE  /\ Worth(cols, C, t) = Worth(q, D, u) * Worths(g, q, F)[x]
             /\ t \in T <=> x \in B
  <2>1. /\ Worth(cols, C, t) = Worth(q, D, u) * Worth(q, F, x)
        /\ SumOver(g, C, t) = Put(g, n, g.plus[<<SumOver(g, D, u), SumOver(g, F, x)>>], a)
    BY <1>3, WorthAround
  <2>2. Names(g, F, x)
    BY <1>0 DEF Likelihoods, Names
  <2>3. SumOver(g, F, x) \in g.symbols
    BY <2>2, SumType
  <2>4. SumOver(g, C, t) = z <=> SumOver(g, F, x) = y
    BY <2>1, <2>3 DEF Completes
  <2>5. [m \in D |-> t[m]] = u
    BY <1>3
  <2>6. t \in T <=> x \in B
    BY <1>3, <2>4, <2>5 DEF Making, Assignments
  <2>7. Worths(g, q, F)[x] = Worth(q, F, x)
    BY DEF Worths
  <2> QED
    BY <2>1, <2>6, <2>7
<1>4. ASSUME NEW x \in B PROVE b[x] \in T /\ v[x] = w[b[x]]
  <2>1. x \in [F -> g.symbols]
    BY <1>1
  <2>2. PICK t \in [C -> g.symbols] :
          /\ t = b[x] /\ t[n] = a
          /\ \A m \in D : t[m] = u[m]
          /\ \A m \in F : t[m] = x[m]
    BY <1>2, <2>1
  <2> HIDE DEF B
  <2>3. t \in T /\ Worth(cols, C, t) = Worth(q, D, u) * Worths(g, q, F)[x]
    BY <1>3, <2>1, <2>2
  <2>4. w[t] = Worth(cols, C, t)
    BY <2>3 DEF Valued
  <2> QED
    BY <2>2, <2>3, <2>4
<1>5. ASSUME NEW x \in B, NEW x2 \in B, b[x] = b[x2] PROVE x = x2
  <2> HIDE DEF B
  <2>1. x \in [F -> g.symbols] /\ x2 \in [F -> g.symbols]
    BY <1>1
  <2>2. /\ \A m \in F : b[x][m] = x[m]
        /\ \A m \in F : b[x2][m] = x2[m]
    BY <1>2, <2>1
  <2>3. \A m \in F : x[m] = x2[m]
    BY <1>5, <2>2
  <2> QED
    BY <2>1, <2>3
<1>6. ASSUME NEW t \in T PROVE \E x \in B : b[x] = t
  <2>1. t \in [C -> g.symbols] /\ t[n] = a /\ [m \in D |-> t[m]] = u
    BY DEF Making
  <2>2. PICK x \in [F -> g.symbols] : x = [m \in F |-> t[m]]
    BY <1>0, <2>1
  <2>3. \A m \in F : t[m] = x[m]
    BY <2>2
  <2>4. \A m \in D : t[m] = u[m]
    BY <2>1
  <2>5. x \in B
    <3> HIDE DEF B
    <3> QED
      BY <1>3, <2>1, <2>3, <2>4
  <2>6. b[x] = t
    <3>1. /\ b[x] \in [C -> g.symbols] /\ b[x][n] = a
          /\ \A m \in D : b[x][m] = u[m]
          /\ \A m \in F : b[x][m] = x[m]
      BY <1>2
    <3>2. \A m \in C : b[x][m] = t[m]
      BY <1>0, <2>1, <2>3, <2>4, <3>1
    <3> QED
      BY <2>1, <3>1, <3>2
  <2> QED
    BY <2>5, <2>6
<1>7. OneToOne(b, B, T)
  <2> HIDE DEF B
  <2> QED
    BY <1>4, <1>5, <1>6 DEF OneToOne
<1>8. Integral(w, T) /\ Worth(q, D, u) \in Int
  <2>1. Worth(q, D, u) \in Int
    BY <1>0, WorthType
  <2>2. ASSUME NEW t \in T PROVE w[t] \in Int
    <3>1. PICK x \in B : b[x] = t
      BY <1>6
    <3>2. w[t] = v[x] /\ v[x] = Worth(q, D, u) * Worths(g, q, F)[x]
      BY <1>4, <3>1
    <3> HIDE DEF B, v
    <3>3. Worths(g, q, F)[x] \in Int
      BY <1>1 DEF Integral
    <3> QED
      BY <2>1, <3>2, <3>3
  <2> QED
    BY <2>1, <2>2 DEF Integral
<1>9. Total(v, B) = Total(w, T)
  <2>1. \A x \in B : v[x] = w[b[x]]
    BY <1>4
  <2> HIDE DEF B, v
  <2> QED
    BY <1>1, <1>7, <1>8, <2>1, TotalRenamed
<1>10. Total(v, B) = Worth(q, D, u) * Total(Worths(g, q, F), B)
  <2>1. \A x \in B : v[x] = Worth(q, D, u) * Worths(g, q, F)[x]
    OBVIOUS
  <2> HIDE DEF B, v
  <2> QED
    BY <1>1, <1>8, <2>1, TotalOfMultiples
<1> QED
  BY <1>1, <1>9, <1>10

LEMMA MakingFinite ==
  ASSUME NEW g, Laws(g), NEW q, NEW cols, NEW C, NEW D, NEW F, NEW n, NEW a,
         Around(g, q, cols, C, D, F, n, a), NEW z,
         NEW T \in SUBSET Making(g, C, n, a, z),
         NEW w, Valued(w, T, cols, C)
  PROVE  IsFiniteSet(T) /\ Integral(w, T)
<1>1. C \subseteq DOMAIN g.check
  BY DEF Around, Likelihoods
<1>2. Making(g, C, n, a, z) \in SUBSET [C -> g.symbols]
  BY DEF Making
<1>3. IsFiniteSet(T)
  BY <1>1, <1>2, VariablesFinite, FS_Subset
<1>4. ASSUME NEW t \in T PROVE w[t] \in Int
  <2>1. t \in [C -> g.symbols] /\ t[n] = a /\ IsFiniteSet(C)
    BY <1>1, VariablesFinite DEF Making
  <2> DEFINE h == [m \in C |-> cols[m][t[m]]]
  <2>2. ASSUME NEW m \in C PROVE h[m] \in Int
    <3>1. CASE m = n
      BY <2>1, <3>1 DEF Around
    <3>2. CASE m # n
      <4>1. m \in D \cup F /\ t[m] \in g.symbols
        BY <2>1, <3>2 DEF Around
      <4>2. cols[m][t[m]] = q[m][t[m]] /\ q[m][t[m]] \in Int
        BY <4>1 DEF Around, Likelihoods
      <4> QED
        BY <4>2
    <3> QED
      BY <3>1, <3>2
  <2>3. Worth(cols, C, t) = ProductOf(h, C)
    BY DEF Worth, Valued
  <2>4. Integral(h, C)
    BY <2>2 DEF Integral
  <2> HIDE DEF h
  <2>5. ProductOf(h, C) \in Int
    BY <2>1, <2>4, ProductType
  <2> QED
    BY <2>3, <2>5 DEF Valued
<1> QED
  BY <1>3, <1>4 DEF Integral

\* Those whose sum over D is b: the sum over F has to be y.
LEMMA MadeBeside ==
  ASSUME NEW g, Laws(g), NEW q, NEW cols, NEW C, NEW D, NEW F, NEW n, NEW a,
         Around(g, q, cols, C, D, F, n, a),
         NEW b \in g.symbols, NEW z, NEW y \in g.symbols,
         Completes(g, n, a, z, b, y),
         NEW T, T = {t \in Making(g, C, n, a, z) : SumOver(g, D, t) = b},
         NEW w, Valued(w, T, cols, C)
  PROVE  Total(w, T) = Chance(g, q, F)[y] * Chance(g, q, D)[b]
<1> DEFINE A == Assignments(g, D, b)
           part == [t \in T |-> [m \in D |-> t[m]]]
           k == Chance(g, q, F)[y]
           v == [u \in A |-> k * Worths(g, q, D)[u]]
<1>0. /\ C = (D \cup F) \cup {n} /\ Likelihoods(g, q, D) /\ Likelihoods(g, q, F)
      /\ D \subseteq DOMAIN g.check
  BY DEF Around, Likelihoods
<1>1. /\ A \in SUBSET [D -> g.symbols] /\ IsFiniteSet(A) /\ Integral(Worths(g, q, D), A)
      /\ Chance(g, q, D)[b] = Total(Worths(g, q, D), A) /\ k \in Int
  BY <1>0, AssignmentsFinite DEF Chance
<1>2. IsFiniteSet(T) /\ Integral(w, T)
  <2>1. T \in SUBSET Making(g, C, n, a, z)
    OBVIOUS
  <2> QED
    BY <2>1, MakingFinite
<1>3. ASSUME NEW t \in [C -> g.symbols]
      PROVE  /\ [m \in D |-> t[m]] \in [D -> g.symbols]
             /\ SumOver(g, D, [m \in D |-> t[m]]) = SumOver(g, D, t)
  <2>1. PICK u : u = [m \in D |-> t[m]]
    OBVIOUS
  <2>2. u \in [D -> g.symbols] /\ \A m \in D : u[m] = t[m]
    BY <1>0, <2>1
  <2>3. Names(g, D, u)
    BY <1>0, <2>2 DEF Names
  <2>4. SumOver(g, D, u) = SumOver(g, D, t)
    BY <2>2, <2>3, SameSum
  <2> QED
    BY <2>1, <2>2, <2>4
<1>4. ASSUME NEW t \in T PROVE part[t] \in A
  <2>1. t \in [C -> g.symbols] /\ SumOver(g, D, t) = b
    BY DEF Making
  <2> QED
    BY <1>3, <2>1 DEF Assignments
<1>5. ASSUME NEW u \in A PROVE v[u] = Total(w, {t \in T : part[t] = u})
  <2>1. u \in [D -> g.symbols] /\ SumOver(g, D, u) = b
    BY DEF Assignments
  <2>2. PICK U : U = {t \in Making(g, C, n, a, z) : [m \in D |-> t[m]] = u}
    OBVIOUS
  <2>3. {t \in T : part[t] = u} = U
    <3>1. ASSUME NEW t \in U PROVE t \in T /\ part[t] = u
      <4>1. t \in Making(g, C, n, a, z) /\ t \in [C -> g.symbols] /\ [m \in D |-> t[m]] = u
        BY <2>2 DEF Making
      <4>2. SumOver(g, D, t) = b
        BY <1>3, <2>1, <4>1
      <4> QED
        BY <4>1, <4>2
    <3>2. ASSUME NEW t \in T, part[t] = u PROVE t \in U
      BY <2>2, <3>2
    <3> QED
      BY <3>1, <3>2
  <2>4. Valued(w, U, cols, C)
    BY <2>3 DEF Valued
  <2>5. Completes(g, n, a, z, SumOver(g, D, u), y)
    BY <2>1
  <2>6. Total(w, U) = Worth(q, D, u) * k
    <3> HIDE DEF A, part, v
    <3> QED
      BY <2>1, <2>2, <2>4, <2>5, MadeWith
  <2>7. Worths(g, q, D)[u] = Worth(q, D, u) /\ Worth(q, D, u) \in Int
    BY <1>0, <2>1, WorthType
  <2>8. PICK i \in Int, j \in Int : i = k /\ j = Worth(q, D, u)
    BY <1>1, <2>7
  <2>9. i * j = j * i /\ v[u] = k * Worths(g, q, D)[u]
    OBVIOUS
  <2> HIDE DEF v, k, part
  <2> QED
    BY <2>3, <2>6, <2>7, <2>8, <2>9
<1>6. ByClass(v, w, T, part, A)
  <2> HIDE DEF v, A, part
  <2> QED
    BY <1>4, <1>5 DEF ByClass
<1>7. Total(w, T) = Total(v, A)
  <2> HIDE DEF v, A, part
  <2> QED
    BY <1>1, <1>2, <1>6, TotalByClass
<1>8. Total(v, A) = k * Total(Worths(g, q, D), A)
  <2>1. \A u \in A : v[u] = k * Worths(g, q, D)[u]
    OBVIOUS
  <2> HIDE DEF v, A, k
  <2> QED
    BY <1>1, <2>1, TotalOfMultiples
<1> QED
  BY <1>1, <1>7, <1>8

\* What the assignments are worth together, by the sum b over D.
LEMMA ChanceAround ==
  ASSUME NEW g, Laws(g), NEW q, NEW cols, NEW C, NEW D, NEW F, NEW n, NEW a,
         Around(g, q, cols, C, D, F, n, a), NEW z, NEW rest,
         \A b \in g.symbols : rest[b] \in g.symbols,
         \A b \in g.symbols : Completes(g, n, a, z, b, rest[b]),
         NEW v, \A b \in g.symbols : v[b] = Chance(g, q, F)[rest[b]] * Chance(g, q, D)[b],
         NEW w, Valued(w, Making(g, C, n, a, z), cols, C)
  PROVE  Total(w, Making(g, C, n, a, z)) = Total(v, g.symbols)
<1> DEFINE T == Making(g, C, n, a, z)
           part == [t \in T |-> SumOver(g, D, t)]
<1>1. D \subseteq C /\ D \subseteq DOMAIN g.check /\ IsFiniteSet(g.symbols)
  BY DEF Around, Likelihoods, Laws, Shape
<1>2. IsFiniteSet(T) /\ Integral(w, T)
  BY MakingFinite
<1>3. ASSUME NEW t \in T PROVE part[t] \in g.symbols
  <2>1. Names(g, D, t)
    BY <1>1 DEF Names, Making
  <2> QED
    BY <2>1, SumType
<1>4. ASSUME NEW b \in g.symbols PROVE v[b] = Total(w, {t \in T : part[t] = b})
  <2>1. PICK U : U = {t \in Making(g, C, n, a, z) : SumOver(g, D, t) = b}
    OBVIOUS
  <2>2. {t \in T : part[t] = b} = U
    BY <2>1
  <2>3. Valued(w, U, cols, C)
    BY <2>1 DEF Valued
  <2>4. rest[b] \in g.symbols
    OBVIOUS
  <2>5. Completes(g, n, a, z, b, rest[b])
    OBVIOUS
  <2>6. Total(w, U) = Chance(g, q, F)[rest[b]] * Chance(g, q, D)[b]
    BY <2>1, <2>3, <2>4, <2>5, MadeBeside
  <2> QED
    BY <2>2, <2>6
<1>5. ByClass(v, w, T, part, g.symbols)
  <2> HIDE DEF T, part
  <2> QED
    BY <1>3, <1>4 DEF ByClass
<1>6. Total(w, T) = Total(v, g.symbols)
  <2> HIDE DEF T, part
  <2> QED
    BY <1>1, <1>2, <1>5, TotalByClass
<1> QED
  BY <1>6

-----------------------------------------------------------------------------
(* The forward and the backward sums                                       *)

\* What Absorb does with a check's variable k.
Takes(g, q, k, prev) ==
  IF k \notin DOMAIN g.check THEN prev
  ELSE [i \in g.symbols |-> SumFunction([j \in g.symbols |-> prev[j] * q[k][Solve(g, k, i, j)]])]

None(g) == [i \in g.symbols |-> IF i = 0 THEN 1 ELSE 0]

LEMMA TakesIs ==
  ASSUME NEW g, Laws(g), NEW q, Likelihoods(g, q, DOMAIN g.check),
         NEW D \in SUBSET DOMAIN g.check, NEW k, k \notin D
  PROVE  Takes(g, q, k, Chance(g, q, D)) = Chance(g, q, DOMAIN g.check \cap (D \cup {k}))
<1>1. CASE k \notin DOMAIN g.check
  <2>1. DOMAIN g.check \cap (D \cup {k}) = D
    BY <1>1
  <2> QED
    BY <1>1, <2>1 DEF Takes
<1>2. CASE k \in DOMAIN g.check
  <2>1. DOMAIN g.check \cap (D \cup {k}) = D \cup {k} /\ Likelihoods(g, q, D \cup {k})
    BY <1>2 DEF Likelihoods
  <2>2. IsFiniteSet(g.symbols)
    BY DEF Laws, Shape
  <2>3. ASSUME NEW i \in g.symbols
        PROVE  SumFunction([j \in g.symbols |-> Chance(g, q, D)[j] * q[k][Solve(g, k, i, j)]])
               = Chance(g, q, D \cup {k})[i]
    <3> DEFINE v == [j \in g.symbols |-> Chance(g, q, D)[j] * q[k][Solve(g, k, i, j)]]
    <3>1. SumFunction(v) = Total(v, DOMAIN v) /\ DOMAIN v = g.symbols
      <4>1. DOMAIN v = g.symbols
        OBVIOUS
      <4> HIDE DEF v
      <4> QED
        BY <2>2, <4>1, SumFunctionIs
    <3>2. WithOneMore(v, g, q, D, k, i)
      BY DEF WithOneMore
    <3>3. Total(v, g.symbols) = Chance(g, q, D \cup {k})[i]
      <4> HIDE DEF v
      <4> QED
        BY <2>1, <3>2, ChanceOfOneMore
    <3> QED
      BY <3>1, <3>3
  <2>4. Chance(g, q, D \cup {k}) = [i \in g.symbols |-> Chance(g, q, D \cup {k})[i]]
    BY DEF Chance
  <2>5. Takes(g, q, k, Chance(g, q, D))
        = [i \in g.symbols |-> SumFunction([j \in g.symbols |->
             Chance(g, q, D)[j] * q[k][Solve(g, k, i, j)]])]
    BY <1>2 DEF Takes
  <2> QED
    BY <2>1, <2>3, <2>4, <2>5
<1> QED
  BY <1>1, <1>2

\* The variables of the check below k, and from k on.
Lower(g, k) == DOMAIN g.check \cap (0 .. k - 1)
Upper(g, k) == DOMAIN g.check \cap (k .. g.length - 1)

LEMMA LowerStep ==
  ASSUME NEW g, Laws(g), NEW q, Likelihoods(g, q, DOMAIN g.check), NEW k \in 0 .. g.length - 1
  PROVE  Chance(g, q, Lower(g, k + 1)) = Takes(g, q, k, Chance(g, q, Lower(g, k)))
<1>1. Lower(g, k) \in SUBSET DOMAIN g.check /\ k \notin Lower(g, k)
  BY DEF Lower
<1>2. DOMAIN g.check \cap (Lower(g, k) \cup {k}) = Lower(g, k + 1)
  BY DEF Lower
<1> QED
  BY <1>1, <1>2, TakesIs

LEMMA UpperStep ==
  ASSUME NEW g, Laws(g), NEW q, Likelihoods(g, q, DOMAIN g.check), NEW k \in 0 .. g.length - 1
  PROVE  Chance(g, q, Upper(g, k)) = Takes(g, q, k, Chance(g, q, Upper(g, k + 1)))
<1>1. Upper(g, k + 1) \in SUBSET DOMAIN g.check /\ k \notin Upper(g, k + 1)
  BY DEF Upper
<1>2. DOMAIN g.check \cap (Upper(g, k + 1) \cup {k}) = Upper(g, k)
  BY DEF Upper, Laws, Shape
<1> QED
  BY <1>1, <1>2, TakesIs

LEMMA NoneIs ==
  ASSUME NEW g, Laws(g), NEW q
  PROVE  Chance(g, q, Lower(g, 0)) = None(g) /\ Chance(g, q, Upper(g, g.length)) = None(g)
<1>1. Lower(g, 0) = {} /\ Upper(g, g.length) = {}
  BY DEF Lower, Upper, Laws, Shape
<1> QED
  BY <1>1, ChanceOfNone DEF None

\* The forward sums of calculate_intermediate and the backward ones.
Forward(g, q, f) ==
  f = [k \in 0 .. g.length |-> IF k = 0 THEN None(g) ELSE Takes(g, q, k - 1, f[k - 1])]
Backward(g, q, f) ==
  f = [k \in 0 .. g.length |-> IF k = g.length THEN None(g) ELSE Takes(g, q, k, f[k + 1])]

LEMMA ForwardIs ==
  ASSUME NEW g, Laws(g), NEW q, Likelihoods(g, q, DOMAIN g.check)
  PROVE  /\ \E f : Forward(g, q, f)
         /\ \A f : Forward(g, q, f) => \A k \in 0 .. g.length : f[k] = Chance(g, q, Lower(g, k))
<1>0. g.length \in Nat
  BY DEF Laws, Shape
<1>1. \E f : Forward(g, q, f)
  <2> DEFINE f == [k \in 0 .. g.length |-> Chance(g, q, Lower(g, k))]
  <2>1. ASSUME NEW k \in 0 .. g.length
        PROVE  f[k] = IF k = 0 THEN None(g) ELSE Takes(g, q, k - 1, f[k - 1])
    <3>1. CASE k = 0
      BY <3>1, NoneIs
    <3>2. CASE k # 0
      <4>1. k - 1 \in 0 .. g.length - 1 /\ k - 1 \in 0 .. g.length /\ (k - 1) + 1 = k
        BY <1>0, <3>2
      <4>2. Chance(g, q, Lower(g, (k - 1) + 1)) = Takes(g, q, k - 1, Chance(g, q, Lower(g, k - 1)))
        BY <4>1, LowerStep
      <4> QED
        BY <3>2, <4>1, <4>2
    <3> QED
      BY <3>1, <3>2
  <2>2. f = [k \in 0 .. g.length |-> f[k]]
    OBVIOUS
  <2>3. Forward(g, q, f)
    <3> HIDE DEF f
    <3> QED
      BY <2>1, <2>2 DEF Forward
  <2> QED
    BY <2>3
<1>2. ASSUME NEW f, Forward(g, q, f)
      PROVE  \A k \in 0 .. g.length : f[k] = Chance(g, q, Lower(g, k))
  <2> DEFINE G == {k \in Nat : k <= g.length => f[k] = Chance(g, q, Lower(g, k))}
  <2>1. \A k \in 0 .. g.length : f[k] = IF k = 0 THEN None(g) ELSE Takes(g, q, k - 1, f[k - 1])
    BY <1>2 DEF Forward
  <2>2. 0 \in G
    BY <1>0, <2>1, NoneIs
  <2>3. ASSUME NEW k \in G PROVE k + 1 \in G
    <3>0. k \in Nat
      OBVIOUS
    <3> SUFFICES ASSUME k + 1 <= g.length PROVE f[k + 1] = Chance(g, q, Lower(g, k + 1))
      BY <3>0
    <3>1. f[k] = Chance(g, q, Lower(g, k)) /\ k \in 0 .. g.length - 1 /\ k + 1 \in 0 .. g.length
      BY <1>0, <3>0
    <3> HIDE DEF G
    <3>2. f[k + 1] = Takes(g, q, k, f[k])
      <4>1. k + 1 # 0 /\ (k + 1) - 1 = k
        BY <3>0
      <4> QED
        BY <2>1, <3>1, <4>1
    <3> QED
      BY <3>1, <3>2, LowerStep
  <2>4. G = Nat
    <3> HIDE DEF G
    <3>1. G \in SUBSET Nat
      BY DEF G
    <3> QED
      BY <2>2, <2>3, <3>1, Counting
  <2> QED
    BY <1>0, <2>4
<1> QED
  BY <1>1, <1>2

LEMMA BackwardIs ==
  ASSUME NEW g, Laws(g), NEW q, Likelihoods(g, q, DOMAIN g.check)
  PROVE  /\ \E f : Backward(g, q, f)
         /\ \A f : Backward(g, q, f) => \A k \in 0 .. g.length : f[k] = Chance(g, q, Upper(g, k))
<1>0. g.length \in Nat
  BY DEF Laws, Shape
<1>1. \E f : Backward(g, q, f)
  <2> DEFINE f == [k \in 0 .. g.length |-> Chance(g, q, Upper(g, k))]
  <2>1. ASSUME NEW k \in 0 .. g.length
        PROVE  f[k] = IF k = g.length THEN None(g) ELSE Takes(g, q, k, f[k + 1])
    <3>1. CASE k = g.length
      BY <3>1, NoneIs
    <3>2. CASE k # g.length
      <4>1. k \in 0 .. g.length - 1 /\ k + 1 \in 0 .. g.length
        BY <1>0, <3>2
      <4> QED
        BY <3>2, <4>1, UpperStep
    <3> QED
      BY <3>1, <3>2
  <2>2. f = [k \in 0 .. g.length |-> f[k]]
    OBVIOUS
  <2>3. Backward(g, q, f)
    <3> HIDE DEF f
    <3> QED
      BY <2>1, <2>2 DEF Backward
  <2> QED
    BY <2>3
<1>2. ASSUME NEW f, Backward(g, q, f)
      PROVE  \A k \in 0 .. g.length : f[k] = Chance(g, q, Upper(g, k))
  <2> DEFINE G == {i \in Nat : i <= g.length =>
                     f[g.length - i] = Chance(g, q, Upper(g, g.length - i))}
  <2>1. \A k \in 0 .. g.length : f[k] = IF k = g.length THEN None(g) ELSE Takes(g, q, k, f[k + 1])
    BY <1>2 DEF Backward
  <2>2. 0 \in G
    BY <1>0, <2>1, NoneIs
  <2>3. ASSUME NEW i \in G PROVE i + 1 \in G
    <3>0. i \in Nat
      OBVIOUS
    <3> SUFFICES ASSUME i + 1 <= g.length
                 PROVE  f[g.length - (i + 1)] = Chance(g, q, Upper(g, g.length - (i + 1)))
      BY <3>0
    <3>1. PICK k \in 0 .. g.length - 1 : k = g.length - (i + 1) /\ k + 1 = g.length - i
      BY <1>0, <3>0
    <3>2. f[k + 1] = Chance(g, q, Upper(g, k + 1))
      BY <1>0, <3>0, <3>1
    <3> HIDE DEF G
    <3>3. f[k] = Takes(g, q, k, f[k + 1])
      BY <1>0, <2>1
    <3> QED
      BY <3>1, <3>2, <3>3, UpperStep
  <2>4. G = Nat
    <3> HIDE DEF G
    <3>1. G \in SUBSET Nat
      BY DEF G
    <3> QED
      BY <2>2, <2>3, <3>1, Counting
  <2>5. ASSUME NEW k \in 0 .. g.length PROVE f[k] = Chance(g, q, Upper(g, k))
    <3>1. PICK i \in Nat : i = g.length - k /\ i <= g.length /\ g.length - i = k
      BY <1>0
    <3> QED
      BY <2>4, <3>1
  <2> QED
    BY <2>5
<1> QED
  BY <1>1, <1>2

-----------------------------------------------------------------------------
(* The symbols and the tables of a field obey the laws of a check          *)

LEMMA SymbolsSum ==
  ASSUME NEW F, SymbolsAdd(F), NEW a \in SymbolsOf(F), NEW b \in SymbolsOf(F)
  PROVE  /\ PlusOf(F, a, b) \in SymbolsOf(F) /\ MinusOf(F, a, b) \in SymbolsOf(F)
         /\ TimesOf(F, a, b) \in SymbolsOf(F)
         /\ PlusOf(F, a, b) = PlusOf(F, b, a) /\ PlusOf(F, a, 0) = a
BY DEF SymbolsAdd

LEMMA SumsGroup ==
  ASSUME NEW F, SymbolsAdd(F), NEW a \in SymbolsOf(F), NEW b \in SymbolsOf(F), NEW c \in SymbolsOf(F)
  PROVE  PlusOf(F, PlusOf(F, a, b), c) = PlusOf(F, a, PlusOf(F, b, c))
BY DEF SymbolsAdd

LEMMA MinusUndoes ==
  ASSUME NEW F, SymbolsAdd(F), NEW a \in SymbolsOf(F), NEW b \in SymbolsOf(F), NEW c \in SymbolsOf(F)
  PROVE  PlusOf(F, b, c) = a <=> c = MinusOf(F, a, b)
BY DEF SymbolsAdd

LEMMA SymbolsFinite ==
  ASSUME NEW F, SymbolsAdd(F)
  PROVE  IsFiniteSet(SymbolsOf(F)) /\ 0 \in SymbolsOf(F)
<1>1. F.size \in Nat \ {0, 1}
  BY DEF SymbolsAdd
<1>2. 0 \in Int /\ F.size - 1 \in Int
  BY <1>1
<1>3. IsFiniteSet(0 .. F.size - 1)
  BY <1>2, FS_Interval
<1> QED
  BY <1>1, <1>3 DEF SymbolsOf

LEMMA AddTableIs ==
  ASSUME NEW F, TablesSolve(F), NEW h \in SymbolsOf(F) \ {0},
         NEW a \in SymbolsOf(F), NEW b \in SymbolsOf(F)
  PROVE  Tables(F).add[<<b, h, a>>] = PlusOf(F, b, TimesOf(F, h, a))
BY DEF TablesSolve

LEMMA MultTableIs ==
  ASSUME NEW F, TablesSolve(F), NEW h \in SymbolsOf(F) \ {0},
         NEW a \in SymbolsOf(F), NEW b \in SymbolsOf(F), NEW e \in SymbolsOf(F)
  PROVE  /\ Tables(F).mult[h][<<a, b>>] \in SymbolsOf(F)
         /\ PlusOf(F, b, TimesOf(F, h, e)) = a <=> e = Tables(F).mult[h][<<a, b>>]
<1>1. \A x, y \in SymbolsOf(F) :
        /\ Tables(F).mult[h][<<x, y>>] \in SymbolsOf(F)
        /\ PlusOf(F, y, TimesOf(F, h, Tables(F).mult[h][<<x, y>>])) = x
        /\ Tables(F).mult[h][<<PlusOf(F, y, TimesOf(F, h, x)), y>>] = x
  BY DEF TablesSolve
<1>2. Tables(F).mult[h][<<PlusOf(F, b, TimesOf(F, h, e)), b>>] = e
  BY <1>1
<1> QED
  BY <1>1, <1>2

LEMMA SumTableIs ==
  ASSUME NEW F, TablesSolve(F), NEW h \in SymbolsOf(F) \ {0},
         NEW a \in SymbolsOf(F), NEW b \in SymbolsOf(F), NEW z \in SymbolsOf(F)
  PROVE  Tables(F).sum[<<z, h>>][<<a, b>>] = MinusOf(F, MinusOf(F, z, TimesOf(F, h, a)), b)
<1>1. \A x \in SymbolsOf(F) \ {0}, c, d, i \in SymbolsOf(F) :
        Tables(F).sum[<<i, x>>][<<c, d>>] = MinusOf(F, MinusOf(F, i, TimesOf(F, x, c)), d)
  BY DEF TablesSolve
<1> QED
  BY <1>1

\* A check with the tables of a field F.
CheckOf(F, check) ==
  [length |-> Length, symbols |-> SymbolsOf(F), check |-> check,
   plus |-> [e \in SymbolsOf(F) \X SymbolsOf(F) |-> PlusOf(F, e[1], e[2])],
   add |-> Tables(F).add, mult |-> Tables(F).mult]

Entries(F, check) ==
  /\ DOMAIN check \subseteq Variables
  /\ \A n \in DOMAIN check : check[n] \in SymbolsOf(F) \ {0}

LEMMA CheckIs ==
  ASSUME NEW F, NEW check, NEW g, g = CheckOf(F, check)
  PROVE  /\ g.length = Length /\ g.symbols = SymbolsOf(F) /\ g.check = check
         /\ g.add = Tables(F).add /\ g.mult = Tables(F).mult
BY DEF CheckOf

LEMMA PutIs ==
  ASSUME NEW F, TablesSolve(F), NEW check, Entries(F, check), NEW g, g = CheckOf(F, check),
         NEW n \in DOMAIN check, NEW a \in SymbolsOf(F), NEW b \in SymbolsOf(F)
  PROVE  Put(g, n, b, a) = PlusOf(F, b, TimesOf(F, check[n], a))
<1>1. check[n] \in SymbolsOf(F) \ {0}
  BY DEF Entries
<1>2. Tables(F).add[<<b, check[n], a>>] = PlusOf(F, b, TimesOf(F, check[n], a))
  BY <1>1, AddTableIs
<1> QED
  BY <1>2, CheckIs DEF Put

LEMMA JoinIs ==
  ASSUME NEW F, NEW check, NEW g, g = CheckOf(F, check),
         NEW a \in SymbolsOf(F), NEW b \in SymbolsOf(F)
  PROVE  g.plus[<<a, b>>] = PlusOf(F, a, b)
BY DEF CheckOf

LEMMA LawsHold ==
  ASSUME NEW F, SymbolsAdd(F), TablesSolve(F), NEW check, Entries(F, check), NEW g, g = CheckOf(F, check)
  PROVE  Laws(g) /\ g.symbols = SymbolsOf(F) /\ g.check = check /\ g.length = Length
<1> DEFINE S == SymbolsOf(F)
<1>0. g.symbols = S /\ g.check = check /\ g.length = Length
  BY CheckIs
<1>1. Shape(g)
  <2>1. g.length \in Nat /\ IsFiniteSet(g.symbols) /\ 0 \in g.symbols
    BY <1>0, LengthAssumption, SymbolsFinite
  <2>2. DOMAIN g.check \subseteq 0 .. g.length - 1
    BY <1>0 DEF Entries, Variables
  <2>3. ASSUME NEW a \in S, NEW b \in S
        PROVE  g.plus[<<a, b>>] \in S /\ g.plus[<<a, 0>>] = a
    <3>1. 0 \in S
      BY SymbolsFinite
    <3>2. g.plus[<<a, b>>] = PlusOf(F, a, b) /\ g.plus[<<a, 0>>] = PlusOf(F, a, 0)
      BY <3>1, JoinIs
    <3> QED
      BY <3>2, SymbolsSum
  <2> QED
    BY <1>0, <2>1, <2>2, <2>3 DEF Shape
<1>2. Solves(g)
  <2>1. ASSUME NEW n \in DOMAIN check, NEW a \in S, NEW b \in S, NEW e \in S
        PROVE  /\ Put(g, n, b, a) \in S /\ Solve(g, n, a, b) \in S
               /\ Put(g, n, b, e) = a <=> e = Solve(g, n, a, b)
    <3>1. PICK h \in S \ {0} : h = check[n]
      BY DEF Entries
    <3>2. /\ Put(g, n, b, a) = PlusOf(F, b, TimesOf(F, h, a))
          /\ Put(g, n, b, e) = PlusOf(F, b, TimesOf(F, h, e))
          /\ Solve(g, n, a, b) = Tables(F).mult[h][<<a, b>>]
      BY <3>1, PutIs, CheckIs DEF Solve
    <3>3. PlusOf(F, b, TimesOf(F, h, a)) \in S
      <4>1. TimesOf(F, h, a) \in S
        BY SymbolsSum
      <4> QED
        BY <4>1, SymbolsSum
    <3>4. /\ Tables(F).mult[h][<<a, b>>] \in S
          /\ PlusOf(F, b, TimesOf(F, h, e)) = a <=> e = Tables(F).mult[h][<<a, b>>]
      BY MultTableIs
    <3> QED
      BY <3>2, <3>3, <3>4
  <2> QED
    BY <1>0, <2>1 DEF Solves
<1>3. Turns(g)
  <2>1. ASSUME NEW n \in DOMAIN check, NEW m \in DOMAIN check, NEW a \in S, NEW b \in S, NEW c \in S
        PROVE  Put(g, m, Put(g, n, b, a), c) = Put(g, n, Put(g, m, b, c), a)
    <3>1. PICK x \in S : x = TimesOf(F, check[n], a)
      <4>1. check[n] \in S
        BY DEF Entries
      <4> QED
        BY <4>1, SymbolsSum
    <3>2. PICK y \in S : y = TimesOf(F, check[m], c)
      <4>1. check[m] \in S
        BY DEF Entries
      <4> QED
        BY <4>1, SymbolsSum
    <3>3. /\ Put(g, n, b, a) = PlusOf(F, b, x) /\ PlusOf(F, b, x) \in S
          /\ Put(g, m, b, c) = PlusOf(F, b, y) /\ PlusOf(F, b, y) \in S
      BY <3>1, <3>2, PutIs, SymbolsSum
    <3>4. /\ Put(g, m, PlusOf(F, b, x), c) = PlusOf(F, PlusOf(F, b, x), y)
          /\ Put(g, n, PlusOf(F, b, y), a) = PlusOf(F, PlusOf(F, b, y), x)
      BY <3>1, <3>2, <3>3, PutIs
    <3>5. /\ PlusOf(F, PlusOf(F, b, x), y) = PlusOf(F, b, PlusOf(F, x, y))
          /\ PlusOf(F, PlusOf(F, b, y), x) = PlusOf(F, b, PlusOf(F, y, x))
          /\ PlusOf(F, x, y) = PlusOf(F, y, x)
      BY SymbolsSum, SumsGroup
    <3> QED
      BY <3>3, <3>4, <3>5
  <2> QED
    BY <1>0, <2>1 DEF Turns
<1>4. Joins(g)
  <2>1. ASSUME NEW n \in DOMAIN check, NEW a \in S, NEW b \in S, NEW c \in S
        PROVE  Put(g, n, g.plus[<<b, c>>], a) = g.plus[<<b, Put(g, n, c, a)>>]
    <3>1. PICK x \in S : x = TimesOf(F, check[n], a)
      <4>1. check[n] \in S
        BY DEF Entries
      <4> QED
        BY <4>1, SymbolsSum
    <3>2. g.plus[<<b, c>>] = PlusOf(F, b, c) /\ PlusOf(F, b, c) \in S
      BY JoinIs, SymbolsSum
    <3>3. Put(g, n, c, a) = PlusOf(F, c, x) /\ PlusOf(F, c, x) \in S
      BY <3>1, PutIs, SymbolsSum
    <3>4. /\ Put(g, n, PlusOf(F, b, c), a) = PlusOf(F, PlusOf(F, b, c), x)
          /\ g.plus[<<b, PlusOf(F, c, x)>>] = PlusOf(F, b, PlusOf(F, c, x))
      BY <3>1, <3>2, <3>3, PutIs, JoinIs
    <3>5. PlusOf(F, PlusOf(F, b, c), x) = PlusOf(F, b, PlusOf(F, c, x))
      BY SumsGroup
    <3> QED
      BY <3>2, <3>3, <3>4, <3>5
  <2>2. ASSUME NEW n \in DOMAIN g.check, NEW a \in g.symbols, NEW b \in g.symbols, NEW c \in g.symbols
        PROVE  Put(g, n, g.plus[<<b, c>>], a) = g.plus[<<b, Put(g, n, c, a)>>]
    <3>1. n \in DOMAIN check /\ a \in S /\ b \in S /\ c \in S
      BY <1>0
    <3> HIDE DEF S
    <3> QED
      BY <3>1, <2>1
  <2> QED
    BY <2>2 DEF Joins
<1> QED
  BY <1>0, <1>1, <1>2, <1>3, <1>4 DEF Laws

\* What sum_idx gives is what is missing.
LEMMA SumCompletes ==
  ASSUME NEW F, SymbolsAdd(F), TablesSolve(F), NEW check, Entries(F, check), NEW g, g = CheckOf(F, check),
         NEW n \in DOMAIN check, NEW a \in SymbolsOf(F), NEW z \in SymbolsOf(F), NEW b \in SymbolsOf(F)
  PROVE  /\ Tables(F).sum[<<z, check[n]>>][<<a, b>>] \in SymbolsOf(F)
         /\ Completes(g, n, a, z, b, Tables(F).sum[<<z, check[n]>>][<<a, b>>])
<1> DEFINE S == SymbolsOf(F)
<1>1. PICK h \in S \ {0} : h = check[n]
  BY DEF Entries
<1>2. PICK x \in S : x = TimesOf(F, h, a)
  BY SymbolsSum
<1>3. PICK y \in S : y = MinusOf(F, z, x)
  BY SymbolsSum
<1>4. PICK r \in S : r = MinusOf(F, y, b)
  BY SymbolsSum
<1>5. Tables(F).sum[<<z, check[n]>>][<<a, b>>] = r
  BY <1>1, <1>2, <1>3, <1>4, SumTableIs
<1>6. ASSUME NEW c \in S
      PROVE  Put(g, n, g.plus[<<b, c>>], a) = z <=> c = r
  <2>1. PICK s \in S : s = PlusOf(F, b, c)
    BY SymbolsSum
  <2>2. Put(g, n, g.plus[<<b, c>>], a) = PlusOf(F, s, x)
    BY <1>1, <1>2, <2>1, PutIs, JoinIs
  <2>3. PlusOf(F, s, x) = PlusOf(F, x, s)
    BY SymbolsSum
  <2>4. PlusOf(F, x, s) = z <=> s = y
    BY <1>3, MinusUndoes
  <2>5. PlusOf(F, b, c) = y <=> c = r
    BY <1>4, MinusUndoes
  <2> QED
    BY <2>1, <2>2, <2>3, <2>4, <2>5
<1>7. g.symbols = S
  BY CheckIs
<1> QED
  BY <1>5, <1>6, <1>7 DEF Completes

-----------------------------------------------------------------------------
(* The messages of a check                                                 *)

\* The decoder's tables are those of its field, and fit the check m.
TablesFit(m) ==
  /\ tables = Tables(field) /\ SymbolsAdd(field) /\ TablesSolve(field)
  /\ Entries(field, factors[m])

\* The check m has a syndrome and messages from its variables.
Heard(m) ==
  /\ syndrome[m] \in Symbols
  /\ \A n \in DOMAIN factors[m] : \A a \in Symbols : qmn[m][n][a] \in Nat

OfCheck(m, g) == g = CheckOf(field, factors[m]) /\ TablesFit(m)

LEMMA ReadyCheck ==
  ASSUME NEW m, NEW g, OfCheck(m, g)
  PROVE  /\ Laws(g) /\ g.symbols = Symbols /\ g.check = factors[m] /\ g.length = Length
         /\ g.mult = tables.mult /\ g.add = tables.add /\ Length \in Nat
<1>1. /\ Laws(g) /\ g.symbols = Symbols /\ g.check = factors[m] /\ g.length = Length
  BY LawsHold DEF OfCheck, TablesFit, Symbols
<1>2. g.mult = tables.mult /\ g.add = tables.add
  BY CheckIs DEF OfCheck, TablesFit
<1> QED
  BY <1>1, <1>2, LengthAssumption

LEMMA HeardLikelihoods ==
  ASSUME NEW m, NEW g, OfCheck(m, g), Heard(m)
  PROVE  Likelihoods(g, qmn[m], DOMAIN g.check)
<1>1. g.symbols = Symbols /\ g.check = factors[m]
  BY ReadyCheck
<1>2. \A n \in DOMAIN factors[m] : \A a \in Symbols : qmn[m][n][a] \in Int
  BY DEF Heard
<1> QED
  BY <1>1, <1>2 DEF Likelihoods

\* calculate_syndrome adds up as SumOver does.
LEMMA SyndromeIs ==
  ASSUME NEW m, NEW g, OfCheck(m, g), NEW w, Names(g, DOMAIN g.check, w)
  PROVE  SyndromeOf(factors[m], w) = SumOver(g, DOMAIN g.check, w)
<1> DEFINE Adds(f) == f = [k \in 0 .. Length |->
                            IF k = 0 THEN 0
                            ELSE IF k - 1 \in DOMAIN factors[m]
                                 THEN tables.add[<<f[k - 1], factors[m][k - 1], w[k - 1]>>]
                                 ELSE f[k - 1]]
           sum == CHOOSE f : Adds(f)
<1>0. /\ Laws(g) /\ g.check = factors[m] /\ g.length = Length /\ g.add = tables.add
      /\ Length \in Nat
  BY ReadyCheck
<1>1. PICK f : SumsTo(g, DOMAIN g.check, w, f)
  BY <1>0, SumsExist
<1>2. f \in [0 .. Length -> g.symbols] /\ f[0] = 0
  BY <1>0, <1>1 DEF SumsTo
<1>3. ASSUME NEW k \in 0 .. Length
      PROVE  f[k] = IF k = 0 THEN 0
                    ELSE IF k - 1 \in DOMAIN factors[m]
                         THEN tables.add[<<f[k - 1], factors[m][k - 1], w[k - 1]>>]
                         ELSE f[k - 1]
  <2>1. CASE k = 0
    BY <1>2, <2>1
  <2>2. CASE k # 0
    <3>1. PICK i \in 0 .. Length - 1 : i = k - 1 /\ i + 1 = k
      BY <1>0, <2>2
    <3>2. f[i + 1] = IF i \in DOMAIN factors[m]
                     THEN tables.add[<<f[i], factors[m][i], w[i]>>] ELSE f[i]
      BY <1>0, <1>1 DEF SumsTo, Put
    <3> QED
      BY <2>2, <3>1, <3>2
  <2> QED
    BY <2>1, <2>2
<1>4. Adds(f)
  BY <1>2, <1>3
<1>5. Adds(sum)
  <2> HIDE DEF Adds
  <2> QED
    BY <1>4
<1>6. SyndromeOf(factors[m], w) = sum[Length]
  BY DEF SyndromeOf
<1>7. sum[Length] = f[Length]
  <2> HIDE DEF sum
  <2> DEFINE G == {k \in Nat : k <= Length => sum[k] = f[k]}
  <2>1. \A k \in 0 .. Length :
          sum[k] = IF k = 0 THEN 0
                   ELSE IF k - 1 \in DOMAIN factors[m]
                        THEN tables.add[<<sum[k - 1], factors[m][k - 1], w[k - 1]>>]
                        ELSE sum[k - 1]
    BY <1>5
  <2> HIDE DEF Adds
  <2>2. 0 \in G
    <3>1. 0 \in 0 .. Length
      BY <1>0
    <3>2. sum[0] = 0
      BY <2>1, <3>1
    <3> QED
      BY <1>2, <3>2
  <2>3. ASSUME NEW k \in G PROVE k + 1 \in G
    <3>0. k \in Nat
      OBVIOUS
    <3> SUFFICES ASSUME k + 1 <= Length PROVE sum[k + 1] = f[k + 1]
      BY <3>0
    <3>1. PICK i : i = k + 1 /\ i \in 0 .. Length /\ i # 0 /\ i - 1 = k
      BY <1>0, <3>0
    <3>2. sum[k] = f[k]
      BY <1>0, <3>0
    <3>3. sum[i] = IF k \in DOMAIN factors[m]
                   THEN tables.add[<<sum[k], factors[m][k], w[k]>>] ELSE sum[k]
      BY <2>1, <3>1
    <3>4. f[i] = IF k \in DOMAIN factors[m]
                 THEN tables.add[<<f[k], factors[m][k], w[k]>>] ELSE f[k]
      BY <1>3, <3>1
    <3> QED
      BY <3>1, <3>2, <3>3, <3>4
  <2>4. G = Nat
    <3> HIDE DEF G
    <3>1. G \in SUBSET Nat
      BY DEF G
    <3> QED
      BY <2>2, <2>3, <3>1, Counting
  <2> QED
    BY <1>0, <2>4
<1> QED
  BY <1>0, <1>1, <1>6, <1>7, SumIs

LEMMA AbsorbIs ==
  ASSUME NEW m, NEW g, OfCheck(m, g)
  PROVE  /\ First = None(g)
         /\ \A k, prev : Absorb(m, k, prev) = Takes(g, qmn[m], k, prev)
<1>1. g.symbols = Symbols /\ g.check = factors[m] /\ g.mult = tables.mult
  BY ReadyCheck
<1>2. First = None(g)
  BY <1>1 DEF First, None
<1>3. ASSUME NEW k, NEW prev
      PROVE  Absorb(m, k, prev) = Takes(g, qmn[m], k, prev)
  <2> DEFINE u(i) == [j \in Symbols |->
                       prev[j] * qmn[m][k][tables.mult[factors[m][k]][<<i, j>>]]]
             v(i) == [j \in g.symbols |-> prev[j] * qmn[m][k][Solve(g, k, i, j)]]
  <2>1. \A i : u(i) = v(i)
    BY <1>1 DEF Solve
  <2> HIDE DEF u, v
  <2>2. [i \in Symbols |-> SumFunction(u(i))] = [i \in g.symbols |-> SumFunction(v(i))]
    BY <1>1, <2>1
  <2> QED
    BY <1>1, <2>2 DEF Absorb, Takes, u, v
<1> QED
  BY <1>2, <1>3

LEMMA SigmaIs ==
  ASSUME NEW m, NEW g, OfCheck(m, g), Heard(m), NEW k \in 0 .. Length
  PROVE  Sigma(m)[k] = Chance(g, qmn[m], Lower(g, k))
<1> DEFINE Forwards(f) == f = [i \in 0 .. Length |->
                             IF i = 0 THEN First ELSE Absorb(m, i - 1, f[i - 1])]
           below == CHOOSE f : Forwards(f)
<1>1. \A f : Forwards(f) <=> Forward(g, qmn[m], f)
  <2>1. \A f : [i \in 0 .. Length |-> IF i = 0 THEN First ELSE Absorb(m, i - 1, f[i - 1])]
             = [i \in 0 .. g.length |->
                 IF i = 0 THEN None(g) ELSE Takes(g, qmn[m], i - 1, f[i - 1])]
    BY ReadyCheck, AbsorbIs
  <2> QED
    BY <2>1 DEF Forward
<1>2. Sigma(m) = below
  BY DEF Sigma
<1>3. Forwards(below)
  <2> HIDE DEF Forwards
  <2>1. \E f : Forwards(f)
    BY <1>1, ReadyCheck, HeardLikelihoods, ForwardIs
  <2> QED
    BY <2>1
<1> HIDE DEF below, Forwards
<1> QED
  BY <1>1, <1>2, <1>3, ReadyCheck, HeardLikelihoods, ForwardIs

LEMMA RhoIs ==
  ASSUME NEW m, NEW g, OfCheck(m, g), Heard(m), NEW k \in 0 .. Length
  PROVE  Rho(m)[k] = Chance(g, qmn[m], Upper(g, k))
<1> DEFINE From(f) == f = [i \in 0 .. Length |->
                            IF i = Length THEN First ELSE Absorb(m, i, f[i + 1])]
           from == CHOOSE f : From(f)
<1>1. \A f : From(f) <=> Backward(g, qmn[m], f)
  <2>1. \A f : [i \in 0 .. Length |-> IF i = Length THEN First ELSE Absorb(m, i, f[i + 1])]
             = [i \in 0 .. g.length |->
                 IF i = g.length THEN None(g) ELSE Takes(g, qmn[m], i, f[i + 1])]
    BY ReadyCheck, AbsorbIs
  <2> QED
    BY <2>1 DEF Backward
<1>2. Rho(m) = from
  BY DEF Rho
<1>3. From(from)
  <2> HIDE DEF From
  <2>1. \E f : From(f)
    BY <1>1, ReadyCheck, HeardLikelihoods, BackwardIs
  <2> QED
    BY <2>1
<1> HIDE DEF from, From
<1> QED
  BY <1>1, <1>2, <1>3, ReadyCheck, HeardLikelihoods, BackwardIs

\* What the other variables of the check tell it, and nothing of n.
Without(m, n) ==
  [l \in DOMAIN factors[m] |-> IF l = n THEN [a \in Symbols |-> 1] ELSE qmn[m][l]]
TrueWords(m) ==
  {w \in [DOMAIN factors[m] -> Symbols] : SyndromeOf(factors[m], w) = syndrome[m]}

LEMMA MessageExact ==
  ASSUME NEW m, TablesFit(m), Heard(m), NEW n \in DOMAIN factors[m]
  PROVE  CheckMessage(m, n) = Marginal(TrueWords(m), Without(m, n), n)
<1> DEFINE g == CheckOf(field, factors[m])
           C == DOMAIN factors[m]
           D == Lower(g, n)
           F == Upper(g, n + 1)
           z == syndrome[m]
           q == qmn[m]
           cols == Without(m, n)
<1>0. OfCheck(m, g)
  BY DEF OfCheck
<1>1. /\ Laws(g) /\ g.symbols = Symbols /\ g.check = factors[m] /\ g.length = Length
      /\ Length \in Nat /\ Likelihoods(g, q, DOMAIN g.check)
  BY <1>0, ReadyCheck, HeardLikelihoods
<1>2. /\ Entries(field, factors[m]) /\ z \in Symbols /\ SymbolsAdd(field) /\ TablesSolve(field)
      /\ tables = Tables(field) /\ Symbols = SymbolsOf(field)
  BY DEF TablesFit, Heard, Symbols
<1>3. C \subseteq 0 .. Length - 1 /\ n \in 0 .. Length /\ n + 1 \in 0 .. Length
  BY <1>1, <1>2 DEF Entries, Variables
<1> HIDE DEF g
<1>4. IsFiniteSet(C) /\ IsFiniteSet([C -> Symbols]) /\ IsFiniteSet(Symbols)
  BY <1>1, VariablesFinite
<1> SUFFICES ASSUME NEW a \in Symbols
             PROVE  SumFunction([b \in Symbols |->
                       Rho(m)[n + 1][tables.sum[<<z, factors[m][n]>>][<<a, b>>]] * Sigma(m)[n][b]])
                  = SumFunction([w \in {v \in TrueWords(m) : v[n] = a} |-> Weight(cols, w)])
  <2> HIDE DEF C, z, cols
  <2> QED
    BY DEF CheckMessage, Marginal, C, z, cols
<1> DEFINE rest == [b \in Symbols |-> tables.sum[<<z, factors[m][n]>>][<<a, b>>]]
           v == [b \in Symbols |->
                  Rho(m)[n + 1][tables.sum[<<z, factors[m][n]>>][<<a, b>>]] * Sigma(m)[n][b]]
           T == {u \in TrueWords(m) : u[n] = a}
           w == [u \in T |-> Weight(cols, u)]
<1>5. Around(g, q, cols, C, D, F, n, a)
  <2>1. C = (D \cup F) \cup {n} /\ D \cap F = {} /\ n \notin D /\ n \notin F
    BY <1>1, <1>3 DEF Lower, Upper
  <2>2. Likelihoods(g, q, D) /\ Likelihoods(g, q, F)
    BY <1>1, <2>1 DEF Likelihoods
  <2>3. cols[n][a] = 1
    BY DEF Without
  <2>4. ASSUME NEW l \in D \cup F PROVE cols[l] = q[l]
    BY <2>1 DEF Without
  <2> HIDE DEF cols, C, D, F, q
  <2> QED
    BY <1>1, <2>1, <2>2, <2>3, <2>4 DEF Around, C
<1>6. \A b \in Symbols : rest[b] \in Symbols /\ Completes(g, n, a, z, b, rest[b])
  <2> SUFFICES ASSUME NEW b \in Symbols
               PROVE  rest[b] \in Symbols /\ Completes(g, n, a, z, b, rest[b])
    OBVIOUS
  <2>1. g = CheckOf(field, factors[m])
    BY DEF g
  <2>2. rest[b] = Tables(field).sum[<<z, factors[m][n]>>][<<a, b>>]
    BY <1>2
  <2> HIDE DEF rest, z
  <2> QED
    BY <1>2, <2>1, <2>2, SumCompletes
<1>7. \A b \in Symbols : v[b] = Chance(g, q, F)[rest[b]] * Chance(g, q, D)[b]
  <2>1. Sigma(m)[n] = Chance(g, q, D) /\ Rho(m)[n + 1] = Chance(g, q, F)
    BY <1>0, <1>3, SigmaIs, RhoIs
  <2> HIDE DEF D, F, q, z
  <2> QED
    BY <2>1
<1>8. T = Making(g, C, n, a, z)
  <2>1. ASSUME NEW u \in [C -> Symbols]
        PROVE  SyndromeOf(factors[m], u) = SumOver(g, C, u)
    <3>1. Names(g, DOMAIN g.check, u)
      BY <1>1 DEF Names
    <3> QED
      BY <1>0, <1>1, <3>1, SyndromeIs
  <2> QED
    BY <1>1, <2>1 DEF TrueWords, Making
<1>9. Valued(w, T, cols, C)
  <2> SUFFICES ASSUME NEW u \in T PROVE Weight(cols, u) = Worth(cols, C, u)
    BY DEF Valued
  <2>1. DOMAIN u = C
    BY DEF TrueWords
  <2>2. DOMAIN [l \in DOMAIN u |-> cols[l][u[l]]] = C
    BY <2>1
  <2> HIDE DEF C, cols, T
  <2>3. ProductFunction([l \in DOMAIN u |-> cols[l][u[l]]])
        = ProductOf([l \in DOMAIN u |-> cols[l][u[l]]], C)
    BY <1>4, <2>2, ProductFunctionIs
  <2> QED
    BY <2>1, <2>3 DEF Weight, Worth
<1>10. IsFiniteSet(T)
  BY <1>4, FS_Subset DEF TrueWords
<1> HIDE DEF rest, v, T, w, D, F, q, z, C, cols
<1>11. Total(w, T) = Total(v, Symbols)
  BY <1>1, <1>5, <1>6, <1>7, <1>8, <1>9, ChanceAround
<1>12. SumFunction(v) = Total(v, Symbols) /\ SumFunction(w) = Total(w, T)
  <2>1. DOMAIN v = Symbols /\ DOMAIN w = T
    BY DEF v, w
  <2> QED
    BY <1>4, <1>10, <2>1, SumFunctionIs
<1> QED
  BY <1>11, <1>12 DEF v, w, T, z

-----------------------------------------------------------------------------
(* Likelihoods are natural numbers                                         *)

LEMMA SumNatural ==
  ASSUME NEW w, IsFiniteSet(DOMAIN w), \A x \in DOMAIN w : w[x] \in Nat
  PROVE  SumFunction(w) \in Nat
<1>1. Total(w, DOMAIN w) \in Nat
  BY FoldNatural DEF Total
<1> QED
  BY <1>1, SumFunctionIs

LEMMA ProductNatural ==
  ASSUME NEW w, IsFiniteSet(DOMAIN w), \A x \in DOMAIN w : w[x] \in Nat
  PROVE  ProductFunction(w) \in Nat
<1>1. ProductOf(w, DOMAIN w) \in Nat
  BY FoldNatural DEF ProductOf
<1> QED
  BY <1>1, ProductFunctionIs

LEMMA ChanceNatural ==
  ASSUME NEW g, Laws(g), NEW q, NEW D, Likelihoods(g, q, D),
         \A n \in D : \A a \in g.symbols : q[n][a] \in Nat
  PROVE  \A i \in g.symbols : Chance(g, q, D)[i] \in Nat
<1>1. IsFiniteSet(D)
  BY VariablesFinite DEF Likelihoods
<1>2. ASSUME NEW w \in [D -> g.symbols] PROVE Worths(g, q, D)[w] \in Nat
  <2>1. \A n \in D : [l \in D |-> q[l][w[l]]][n] \in Nat
    OBVIOUS
  <2>2. ProductOf([l \in D |-> q[l][w[l]]], D) \in Nat
    BY <1>1, <2>1, FoldNatural DEF ProductOf
  <2> QED
    BY <2>2 DEF Worths, Worth
<1>3. ASSUME NEW i \in g.symbols PROVE Chance(g, q, D)[i] \in Nat
  <2>1. IsFiniteSet(Assignments(g, D, i)) /\ Assignments(g, D, i) \in SUBSET [D -> g.symbols]
    BY AssignmentsFinite
  <2>2. \A w \in Assignments(g, D, i) : Worths(g, q, D)[w] \in Nat
    BY <1>2, <2>1
  <2>3. Total(Worths(g, q, D), Assignments(g, D, i)) \in Nat
    BY <2>1, <2>2, FoldNatural DEF Total
  <2> QED
    BY <2>3 DEF Chance
<1> QED
  BY <1>3

\* A column of likelihoods.
Column(col) == col \in [Symbols -> Nat]

LEMMA MessageType ==
  ASSUME NEW m, TablesFit(m), Heard(m), NEW n \in DOMAIN factors[m]
  PROVE  Column(CheckMessage(m, n))
<1> DEFINE g == CheckOf(field, factors[m])
           q == qmn[m]
<1>0. OfCheck(m, g)
  BY DEF OfCheck
<1>1. /\ Laws(g) /\ g.symbols = Symbols /\ g.check = factors[m] /\ g.length = Length
      /\ Length \in Nat /\ Likelihoods(g, q, DOMAIN g.check)
  BY <1>0, ReadyCheck, HeardLikelihoods
<1>2. /\ Entries(field, factors[m]) /\ syndrome[m] \in Symbols /\ SymbolsAdd(field) /\ TablesSolve(field)
      /\ tables = Tables(field) /\ Symbols = SymbolsOf(field)
  BY DEF TablesFit, Heard, Symbols
<1>3. n \in 0 .. Length /\ n + 1 \in 0 .. Length
  BY <1>1, <1>2 DEF Entries, Variables
<1> HIDE DEF g
<1>4. \A D \in SUBSET DOMAIN g.check : \A i \in Symbols : Chance(g, q, D)[i] \in Nat
  <2> SUFFICES ASSUME NEW D \in SUBSET DOMAIN g.check
               PROVE  \A i \in Symbols : Chance(g, q, D)[i] \in Nat
    OBVIOUS
  <2>1. Likelihoods(g, q, D)
    BY <1>1 DEF Likelihoods
  <2>2. \A l \in D : \A a \in g.symbols : q[l][a] \in Nat
    BY <1>1 DEF Heard
  <2> QED
    BY <1>1, <2>1, <2>2, ChanceNatural
<1>5. \A b \in Symbols : Sigma(m)[n][b] \in Nat /\ Rho(m)[n + 1][b] \in Nat
  <2>1. Sigma(m)[n] = Chance(g, q, Lower(g, n)) /\ Rho(m)[n + 1] = Chance(g, q, Upper(g, n + 1))
    BY <1>0, <1>3, SigmaIs, RhoIs
  <2>2. Lower(g, n) \in SUBSET DOMAIN g.check /\ Upper(g, n + 1) \in SUBSET DOMAIN g.check
    BY DEF Lower, Upper
  <2> QED
    BY <1>4, <2>1, <2>2
<1>6. ASSUME NEW a \in Symbols, NEW b \in Symbols
      PROVE  tables.sum[<<syndrome[m], factors[m][n]>>][<<a, b>>] \in Symbols
  <2>1. g = CheckOf(field, factors[m])
    BY DEF g
  <2> QED
    BY <1>2, <2>1, SumCompletes
<1>7. IsFiniteSet(Symbols)
  BY <1>2, SymbolsFinite
<1>8. ASSUME NEW a \in Symbols
      PROVE  SumFunction([b \in Symbols |->
               Rho(m)[n + 1][tables.sum[<<syndrome[m], factors[m][n]>>][<<a, b>>]] * Sigma(m)[n][b]])
             \in Nat
  <2> DEFINE w == [b \in Symbols |->
               Rho(m)[n + 1][tables.sum[<<syndrome[m], factors[m][n]>>][<<a, b>>]] * Sigma(m)[n][b]]
  <2>1. \A b \in DOMAIN w : w[b] \in Nat
    <3> SUFFICES ASSUME NEW b \in Symbols PROVE w[b] \in Nat
      OBVIOUS
    <3>1. PICK c \in Symbols : c = tables.sum[<<syndrome[m], factors[m][n]>>][<<a, b>>]
      BY <1>6
    <3>2. Rho(m)[n + 1][c] \in Nat /\ Sigma(m)[n][b] \in Nat
      BY <1>5
    <3>3. Rho(m)[n + 1][c] * Sigma(m)[n][b] \in Nat
      BY <3>2
    <3> QED
      BY <3>1, <3>3
  <2>2. IsFiniteSet(DOMAIN w)
    BY <1>7
  <2> HIDE DEF w
  <2>3. SumFunction(w) \in Nat
    BY <2>1, <2>2, SumNatural
  <2> QED
    BY <2>3 DEF w
<1> QED
  BY <1>8 DEF CheckMessage, Column

\* The common divisor of a column is a natural number, and so is what it leaves.
LEMMA LowestTermsType ==
  ASSUME NEW col, Column(col), IsFiniteSet(Symbols)
  PROVE  Column(LowestTerms(col))
<1> DEFINE g == FoldFunction(LAMBDA a, b : Gcd[<<a, b>>], 0, col)
           D == DOMAIN col
           Divisors(it) == it = [s \in SUBSET D |->
                                  IF s = {} THEN 0 ELSE Gcd[<<col[Some(s)], it[s \ {Some(s)}]>>]]
           divisor == CHOOSE it : Divisors(it)
<1>1. D = Symbols /\ \A a \in D : col[a] \in Nat
  BY DEF Column
<1>2. PICK h : Folds("gcd", h, col, D)
  BY <1>1, FoldExists
<1>3. Divisors(h)
  BY <1>2 DEF Folds, Combine, Unit
<1>4. Divisors(divisor)
  <2> HIDE DEF Divisors
  <2> QED
    BY <1>3
<1>5. Folds("gcd", divisor, col, D)
  <2> HIDE DEF divisor
  <2> QED
    BY <1>4 DEF Folds, Combine, Unit
<1>6. g = divisor[D]
  BY DEF FoldFunction, FoldFunctionOnSet, MapThenFoldSet, Some
<1>7. divisor[D] \in Nat
  <2> HIDE DEF divisor, D
  <2>1. ClosedUnder("gcd", Nat) /\ D \in SUBSET D
    BY NatClosed
  <2> QED
    BY <1>1, <1>5, <2>1, FoldsType
<1>8. PICK d \in Nat : d = g
  BY <1>6, <1>7
<1> HIDE DEF divisor, g
<1>9. ASSUME NEW a \in Symbols PROVE (IF d = 0 THEN 0 ELSE col[a] \div d) \in Nat
  <2>1. col[a] \in Nat
    BY <1>1
  <2> QED
    BY <2>1
<1>10. LowestTerms(col) = [a \in Symbols |-> IF d = 0 THEN 0 ELSE col[a] \div d]
  BY <1>1, <1>8 DEF LowestTerms, g
<1> QED
  BY <1>9, <1>10 DEF Column

-----------------------------------------------------------------------------
(* The decoder                                                             *)

\* What a file that is read gives.
LEMMA FileIs ==
  ASSUME NEW f \in Files, ReadError(f) = "none"
  PROVE  /\ SymbolsAdd(FieldOf(f)) /\ TablesSolve(FieldOf(f)) /\ IsFiniteSet(RowsOf(f))
         /\ \A m \in RowsOf(f) : Entries(FieldOf(f), ReadFactors(FieldOf(f), f)[m])
<1>1. SymbolsAdd(FieldOf(f)) /\ TablesSolve(FieldOf(f)) /\ EntriesInvert(FieldOf(f), f)
  BY FieldsCompute DEF FieldsSolve
<1>2. ~FileTooShort(f)
  <2> SUFFICES ASSUME FileTooShort(f) PROVE FALSE
    OBVIOUS
  <2>1. f.format = "alist"
    BY DEF FileTooShort
  <2>2. ReadError(f) \in {"BadFieldSize", "FileTooShort"}
    BY <2>1 DEF ReadError
  <2> QED
    BY <2>2
<1>3. IsFiniteSet(RowsOf(f))
  <2>1. PICK k \in Nat : RowsOf(f) = 1 .. k
    BY FilesAssumption DEF RowsOf
  <2> QED
    BY <2>1, FS_Interval
<1>4. ASSUME NEW m \in RowsOf(f)
      PROVE  Entries(FieldOf(f), ReadFactors(FieldOf(f), f)[m])
  <2> DEFINE F == FieldOf(f)
             pairs == PairsOf(f, m)
             C == {e[1] - 1 : e \in pairs}
             At(n) == CHOOSE e \in pairs : e[1] = n + 1
             check == [n \in C |-> AsInt(F, Entry(F, At(n)[2]))]
  <2>1. ReadFactors(F, f)[m] = check
    BY DEF ReadFactors
  <2>2. \A e \in pairs : e[1] \in 1 .. Length
    BY <1>2, FilesAssumption
  <2>3. C \subseteq Variables
    BY <2>2, LengthAssumption DEF Variables
  <2>4. \A e \in pairs : AsInt(F, Entry(F, e[2])) \in 1 .. F.size - 1
    BY <1>1 DEF EntriesInvert
  <2>5. ASSUME NEW n \in C PROVE At(n) \in pairs
    <3> HIDE DEF pairs
    <3>1. PICK e \in pairs : n = e[1] - 1
      OBVIOUS
    <3>2. e[1] = n + 1
      BY <2>2, <3>1
    <3> QED
      BY <3>2
  <2>6. F.size \in Nat
    BY <1>1 DEF SymbolsAdd
  <2>7. ASSUME NEW n \in C PROVE check[n] \in SymbolsOf(F) \ {0}
    <3>1. check[n] \in 1 .. F.size - 1
      <4> HIDE DEF pairs, At, F
      <4> QED
        BY <2>4, <2>5
    <3> HIDE DEF check, F
    <3> QED
      BY <2>6, <3>1 DEF SymbolsOf
  <2>8. DOMAIN check = C
    OBVIOUS
  <2> HIDE DEF check, F, C
  <2> QED
    BY <2>1, <2>3, <2>7, <2>8 DEF Entries, F
<1> QED
  BY <1>1, <1>3, <1>4

\* While it decodes, the decoder has what it has read, and every check a
\* syndrome and a column from each variable.
Decoding ==
  /\ code \in Files /\ ReadError(code) = "none"
  /\ field = FieldOf(code) /\ tables = Tables(field) /\ factors = ReadFactors(field, code)
  /\ channel \in Channels /\ received \in [Variables -> Symbols]
  /\ \A m \in DOMAIN factors : syndrome[m] \in Symbols
  /\ \A m \in DOMAIN factors : \A n \in Variables : Column(qmn[m][n])

DecodingInv == result = "refused" \/ Decoding

LEMMA ReadIs ==
  ASSUME code \in Files, ReadError(code) = "none",
         field = FieldOf(code), tables = Tables(field), factors = ReadFactors(field, code)
  PROVE  /\ SymbolsAdd(field) /\ IsFiniteSet(Symbols) /\ IsFiniteSet(DOMAIN factors)
         /\ \A m \in DOMAIN factors :
              TablesFit(m) /\ DOMAIN factors[m] \subseteq Variables
<1>1. /\ SymbolsAdd(field) /\ TablesSolve(field) /\ IsFiniteSet(RowsOf(code))
      /\ \A m \in RowsOf(code) : Entries(field, factors[m])
  BY FileIs
<1>2. DOMAIN factors = RowsOf(code)
  BY DEF ReadFactors
<1>3. IsFiniteSet(Symbols)
  BY <1>1, SymbolsFinite DEF Symbols
<1>4. \A m \in DOMAIN factors : TablesFit(m)
  BY <1>1, <1>2 DEF TablesFit
<1> QED
  BY <1>1, <1>2, <1>3, <1>4 DEF Entries

LEMMA DecodingIs ==
  ASSUME Decoding
  PROVE  /\ SymbolsAdd(field) /\ IsFiniteSet(Symbols) /\ IsFiniteSet(DOMAIN factors)
         /\ \A m \in DOMAIN factors :
              TablesFit(m) /\ Heard(m) /\ DOMAIN factors[m] \subseteq Variables
<1>1. /\ SymbolsAdd(field) /\ IsFiniteSet(Symbols) /\ IsFiniteSet(DOMAIN factors)
      /\ \A m \in DOMAIN factors : TablesFit(m) /\ DOMAIN factors[m] \subseteq Variables
  BY ReadIs DEF Decoding
<1>2. ASSUME NEW m \in DOMAIN factors PROVE Heard(m)
  <2>1. syndrome[m] \in Symbols /\ \A n \in Variables : qmn[m][n] \in [Symbols -> Nat]
    BY DEF Decoding, Column
  <2>2. DOMAIN factors[m] \subseteq Variables
    BY <1>1
  <2> QED
    BY <2>1, <2>2 DEF Heard
<1> QED
  BY <1>1, <1>2

LEMMA PriorType ==
  ASSUME SymbolsAdd(field), channel \in Channels, NEW n
  PROVE  Column(Prior(n))
<1>1. field.size - 1 \in Nat
  BY DEF SymbolsAdd
<1>2. channel.scale - channel.error \in Nat /\ channel.error \in Nat
  BY ChannelsAssumption
<1>3. (field.size - 1) * (channel.scale - channel.error) \in Nat
  BY <1>1, <1>2
<1> QED
  BY <1>2, <1>3 DEF Prior, Distribution, Column

LEMMA InitDecoding ==
  ASSUME Init PROVE DecodingInv
<1>1. CASE ReadError(code) # "none"
  BY <1>1 DEF Init, Refuse, DecodingInv
<1>2. CASE ReadError(code) = "none"
  <2>1. Decode /\ code \in Files
    BY <1>2 DEF Init
  <2>2. /\ field = FieldOf(code) /\ tables = Tables(field) /\ factors = ReadFactors(field, code)
        /\ channel \in Channels /\ received \in [Variables -> Symbols]
        /\ qmn = [m \in DOMAIN factors |-> [n \in Variables |-> Prior(n)]]
    BY <2>1 DEF Decode
  <2>3. PICK sent \in [Variables -> Symbols] : syndrome = CalculateSyndrome(sent)
    BY <2>1 DEF Decode
  <2>4. /\ SymbolsAdd(field)
        /\ \A m \in DOMAIN factors : TablesFit(m) /\ DOMAIN factors[m] \subseteq Variables
    BY <1>2, <2>1, <2>2, ReadIs
  <2>5. ASSUME NEW m \in DOMAIN factors PROVE syndrome[m] \in Symbols
    <3> DEFINE g == CheckOf(field, factors[m])
    <3>1. OfCheck(m, g)
      BY <2>4 DEF OfCheck
    <3>2. Laws(g) /\ g.symbols = Symbols /\ g.check = factors[m]
      BY <3>1, ReadyCheck
    <3> HIDE DEF g
    <3>3. Names(g, DOMAIN g.check, sent)
      BY <2>4, <3>2 DEF Names
    <3>4. SumOver(g, DOMAIN g.check, sent) \in Symbols
      BY <3>2, <3>3, SumType
    <3>5. SyndromeOf(factors[m], sent) \in Symbols
      BY <3>1, <3>3, <3>4, SyndromeIs
    <3> QED
      BY <2>3, <3>5 DEF CalculateSyndrome
  <2>6. ASSUME NEW m \in DOMAIN factors, NEW n \in Variables PROVE Column(qmn[m][n])
    <3>1. Column(Prior(n))
      BY <2>2, <2>4, PriorType
    <3> QED
      BY <2>2, <3>1
  <2> QED
    BY <1>2, <2>1, <2>2, <2>5, <2>6 DEF Decoding, DecodingInv
<1> QED
  BY <1>1, <1>2

\* The likelihoods that a variable gathers from checks that name it.
LEMMA ProductColumn ==
  ASSUME Decoding, NEW messages, NEW n \in Variables,
         NEW checks \in SUBSET Neighbours(n),
         \A m \in Neighbours(n) : Column(messages[m][n])
  PROVE  Column(Product(messages, n, checks))
<1>1. Column(Prior(n)) /\ IsFiniteSet(DOMAIN factors)
  BY DecodingIs, PriorType DEF Decoding
<1>2. IsFiniteSet(checks)
  BY <1>1, FS_Subset DEF Neighbours
<1>3. ASSUME NEW a \in Symbols
      PROVE  Prior(n)[a] * ProductFunction([m \in checks |-> messages[m][n][a]]) \in Nat
  <2> DEFINE w == [m \in checks |-> messages[m][n][a]]
  <2>1. DOMAIN w = checks /\ \A m \in DOMAIN w : w[m] \in Nat
    BY DEF Column
  <2> HIDE DEF w
  <2>2. ProductFunction(w) \in Nat
    BY <1>2, <2>1, ProductNatural
  <2>3. Prior(n)[a] \in Nat
    BY <1>1 DEF Column
  <2>4. Prior(n)[a] * ProductFunction(w) \in Nat
    BY <2>2, <2>3
  <2> QED
    BY <2>4 DEF w
<1> QED
  BY <1>3 DEF Product, Column

\* A pass gives every check new columns, of natural numbers again.
LEMMA PassDecoding ==
  ASSUME Decoding, Pass PROVE Decoding'
<1> USE DEF arguments
<1>1. /\ UNCHANGED <<code, field, tables, factors, channel, received, syndrome>>
      /\ rmn' = [m \in DOMAIN factors |-> [n \in DOMAIN factors[m] |-> CheckMessage(m, n)]]
      /\ qmn' = [m \in DOMAIN factors |-> [n \in Variables |-> VariableMessage(rmn', m, n)]]
  BY DEF Pass
<1>2. /\ IsFiniteSet(Symbols)
      /\ \A m \in DOMAIN factors : TablesFit(m) /\ Heard(m)
  BY DecodingIs
<1>3. ASSUME NEW m \in DOMAIN factors, NEW n \in Variables
      PROVE  Column(qmn'[m][n])
  <2>1. PICK messages : messages = rmn'
    OBVIOUS
  <2>2. \A k \in Neighbours(n) : Column(messages[k][n])
    <3> SUFFICES ASSUME NEW k \in Neighbours(n) PROVE Column(messages[k][n])
      OBVIOUS
    <3>1. k \in DOMAIN factors /\ n \in DOMAIN factors[k]
      BY DEF Neighbours
    <3>2. messages[k][n] = CheckMessage(k, n)
      BY <1>1, <2>1, <3>1
    <3>3. Column(CheckMessage(k, n))
      BY <1>2, <3>1, MessageType
    <3> QED
      BY <3>2, <3>3
  <2>3. Column(Product(messages, n, Neighbours(n) \ {m}))
    <3>1. Neighbours(n) \ {m} \in SUBSET Neighbours(n)
      OBVIOUS
    <3> QED
      BY <2>2, <3>1, ProductColumn
  <2>4. Column(qmn[m][n])
    BY DEF Decoding
  <2>5. Column(VariableMessage(messages, m, n))
    <3>1. PICK col : col = IF n \in Reached THEN Product(messages, n, Neighbours(n) \ {m}) ELSE qmn[m][n]
      OBVIOUS
    <3>2. Column(col)
      BY <2>3, <2>4, <3>1
    <3>3. Column(LowestTerms(col))
      BY <1>2, <3>2, LowestTermsType
    <3> QED
      BY <3>1, <3>3 DEF VariableMessage
  <2> QED
    BY <1>1, <2>1, <2>5
<1>4. Symbols' = Symbols
  BY <1>1 DEF Symbols
<1>5. \A m \in DOMAIN factors' : \A n \in Variables : Column(qmn[m][n])'
  BY <1>1, <1>3, <1>4 DEF Column
<1> QED
  BY <1>1, <1>4, <1>5 DEF Decoding

LEMMA NextDecoding ==
  ASSUME DecodingInv, [Next]_vars PROVE DecodingInv'
<1>1. CASE Pass
  <2>1. Decoding
    BY <1>1 DEF Pass, DecodingInv
  <2> QED
    BY <1>1, <2>1, PassDecoding DEF DecodingInv
<1>2. CASE (result' = result \/ result = "running") /\ UNCHANGED <<arguments, qmn>>
  BY <1>2 DEF DecodingInv, Decoding, arguments, Symbols, Column
<1> QED
  BY <1>1, <1>2 DEF Next, PassPanics, GivesUp, vars, arguments

\* Only a pass changes what the checks tell.
LEMMA StepExact ==
  ASSUME DecodingInv, [Next]_vars, rmn' # rmn,
         NEW m \in DOMAIN factors, NEW n \in DOMAIN factors[m]
  PROVE  rmn'[m][n] = Marginal(TrueWords(m), Without(m, n), n)
<1>1. Pass
  BY DEF Next, PassPanics, GivesUp, vars
<1>2. Decoding
  BY <1>1 DEF Pass, DecodingInv
<1>3. TablesFit(m) /\ Heard(m)
  BY <1>2, DecodingIs
<1>4. rmn'[m][n] = CheckMessage(m, n)
  BY <1>1 DEF Pass
<1> QED
  BY <1>3, <1>4, MessageExact

(* In every pass, what a check tells a variable is, for each symbol, what  *)
(* all assignments to the other variables that make the check true are     *)
(* worth together: the forward and backward sums of calculate_intermediate,*)
(* read through mult_idx and sum_idx, lose and double none, for every      *)
(* matrix, field, length and channel                                       *)
(* (decoder.rs 76-143, 222-246).                                           *)
THEOREM MessagesAreExact == Spec => MessagesExact
<1>1. Init => DecodingInv
  BY InitDecoding
<1>2. DecodingInv /\ [Next]_vars => DecodingInv'
  BY NextDecoding
<1>3. DecodingInv /\ [Next]_vars =>
      [rmn' # rmn =>
         \A m \in DOMAIN factors : \A n \in DOMAIN factors[m] :
           rmn'[m][n] = Marginal(TrueWords(m), Without(m, n), n)]_vars
  BY StepExact
<1> QED
  BY <1>1, <1>2, <1>3, PTL DEF Spec, MessagesExact, TrueWords, Without

-----------------------------------------------------------------------------
(* The binary code                                                         *)

\* What the program gives the stage; MCLdpc assumes it of its files.
ConstantsAssumption ==
  /\ Binary!FilesAssumption
  /\ Length \in Nat /\ MaxIter \in Nat

-----------------------------------------------------------------------------
(* The sums of the binary code, folds like those of PolynomialProofs       *)

\* g adds up the values of w over every subset of S.
AddsUp(g, w, S) ==
  g = [s \in SUBSET S |-> IF s = {} THEN 0 ELSE w[Some(s)] + g[s \ {Some(s)}]]

LEMMA SumExists ==
  ASSUME NEW S, IsFiniteSet(S), NEW w
  PROVE  \E g : AddsUp(g, w, S)
<1>1. PICK g : Folds("+", g, w, S)
  BY FoldExists
<1>2. g = [s \in SUBSET S |-> g[s]]
  BY <1>1 DEF Folds
<1>3. ASSUME NEW s \in SUBSET S
      PROVE  g[s] = IF s = {} THEN 0 ELSE w[Some(s)] + g[s \ {Some(s)}]
  BY <1>1 DEF Folds, Unit, Combine
<1>4. g = [s \in SUBSET S |-> IF s = {} THEN 0 ELSE w[Some(s)] + g[s \ {Some(s)}]]
  BY <1>2, <1>3
<1> QED
  BY <1>4 DEF AddsUp

LEMMA ParityIs ==
  ASSUME NEW S, IsFiniteSet(S), NEW w
  PROVE  \E g : AddsUp(g, w, S) /\ Binary!Parity(w, S) = g[S] % 2
<1> DEFINE g == CHOOSE f : AddsUp(f, w, S)
<1>1. AddsUp(g, w, S)
  BY SumExists
<1>2. Binary!Parity(w, S) = g[S] % 2
  BY DEF Binary!Parity, Binary!MapThenSumSet, Binary!MapThenFoldSet, AddsUp, Some
<1> QED
  BY <1>1, <1>2

-----------------------------------------------------------------------------
(* Parities                                                                *)

Differing(a, b, s) == {v \in s : a[v] # b[v]}

\* One more position makes one more difference, or none.
LEMMA OneMoreDifference ==
  ASSUME NEW s, IsFiniteSet(s), NEW x \in s, NEW a, NEW b
  PROVE  /\ Cardinality(Differing(a, b, s \ {x})) \in Nat
         /\ Cardinality(Differing(a, b, s))
              = IF a[x] # b[x] THEN Cardinality(Differing(a, b, s \ {x})) + 1
                ELSE Cardinality(Differing(a, b, s \ {x}))
<1> DEFINE D == Differing(a, b, s \ {x})
<1>1. IsFiniteSet(D) /\ x \notin D
  BY FS_Subset, FS_RemoveElement DEF Differing
<1>2. Cardinality(D) \in Nat /\ Cardinality(D \cup {x}) = Cardinality(D) + 1
  BY <1>1, FS_CardinalityType, FS_AddElement
<1>3. Differing(a, b, s) = IF a[x] # b[x] THEN D \cup {x} ELSE D
  BY DEF Differing
<1> QED
  BY <1>2, <1>3

\* Two words have the same parity over a set exactly if they differ in an even
\* number of its positions.
LEMMA ParityOfDifference ==
  ASSUME NEW P, NEW S \in SUBSET P, IsFiniteSet(S),
         NEW a \in [P -> Binary!Bits], NEW b \in [P -> Binary!Bits]
  PROVE  /\ Binary!Parity(a, S) \in Binary!Bits
         /\ Binary!Parity(a, S) = Binary!Parity(b, S) <=>
              Cardinality(Differing(a, b, S)) % 2 = 0
<1>1. PICK g : AddsUp(g, a, S) /\ Binary!Parity(a, S) = g[S] % 2
  BY ParityIs
<1>2. PICK h : AddsUp(h, b, S) /\ Binary!Parity(b, S) = h[S] % 2
  BY ParityIs
<1> DEFINE Good(s) == /\ g[s] \in Nat /\ h[s] \in Nat
                      /\ (g[s] + h[s]) % 2 = Cardinality(Differing(a, b, s)) % 2
           Bad == {n \in Nat : \E s \in SUBSET S : Cardinality(s) = n /\ ~ Good(s)}
<1>3. Bad = {}
  <2> SUFFICES ASSUME Bad # {} PROVE FALSE
    OBVIOUS
  <2>1. PICK n \in Bad : \A k \in Bad : n <= k
    <3> HIDE DEF Bad
    <3>1. Bad \in SUBSET Nat
      BY DEF Bad
    <3> QED
      BY <3>1, LeastNumber
  <2>2. PICK s \in SUBSET S : Cardinality(s) = n /\ ~ Good(s)
    <3> HIDE DEF Good
    <3> QED
      BY <2>1
  <2>3. CASE s = {}
    <3>1. g[s] = 0 /\ h[s] = 0
      BY <1>1, <1>2, <2>3 DEF AddsUp
    <3>2. Cardinality(Differing(a, b, s)) = 0
      BY <2>3, FS_EmptySet DEF Differing
    <3> QED
      BY <2>2, <3>1, <3>2
  <2>4. CASE s # {}
    <3> DEFINE x == Some(s)
               t == s \ {x}
    <3>1. /\ x \in s /\ x \in P
          /\ t \in SUBSET S /\ IsFiniteSet(s)
          /\ Cardinality(s) \in Nat \ {0} /\ Cardinality(t) = Cardinality(s) - 1
      BY <2>4, OneFewer, SomeIsMember
    <3>2. g[s] = a[x] + g[t] /\ h[s] = b[x] + h[t]
      BY <1>1, <1>2, <2>4 DEF AddsUp
    <3>3. Good(t)
      <4>1. Cardinality(t) \in Nat /\ Cardinality(t) < n
        BY <2>2, <3>1
      <4>2. Cardinality(t) \notin Bad
        <5>1. n \in Nat
          OBVIOUS
        <5> HIDE DEF Bad, t
        <5> QED
          BY <2>1, <4>1, <5>1
      <4> HIDE DEF Good, t
      <4> QED
        BY <3>1, <4>1, <4>2
    <3>4. a[x] \in Binary!Bits /\ b[x] \in Binary!Bits
      BY <3>1
    <3> DEFINE d == Cardinality(Differing(a, b, t))
    <3>5. d \in Nat /\ Cardinality(Differing(a, b, s)) = IF a[x] # b[x] THEN d + 1 ELSE d
      <4> HIDE DEF x
      <4> QED
        BY <3>1, OneMoreDifference
    <3>6. g[t] \in Nat /\ h[t] \in Nat /\ (g[t] + h[t]) % 2 = d % 2
      BY <3>3
    <3>7. Good(s)
      <4> HIDE DEF x, t, d
      <4>1. d \in Nat
        BY <3>5
      <4>2. /\ a[x] + g[t] \in Nat /\ b[x] + h[t] \in Nat
            /\ ((a[x] + g[t]) + (b[x] + h[t])) % 2
                 = (IF a[x] # b[x] THEN d + 1 ELSE d) % 2
        <5>1. PICK i \in Binary!Bits, j \in Binary!Bits : i = a[x] /\ j = b[x]
          BY <3>4
        <5>2. PICK m \in Nat, k \in Nat : m = g[t] /\ k = h[t]
          BY <3>6
        <5>3. /\ i + m \in Nat /\ j + k \in Nat
              /\ ((i + m) + (j + k)) % 2 = (IF i # j THEN d + 1 ELSE d) % 2
          <6>1. (m + k) % 2 = d % 2
            BY <3>6, <5>2
          <6> QED
            BY <4>1, <6>1 DEF Binary!Bits
        <5> QED
          BY <5>1, <5>2, <5>3
      <4> QED
        BY <3>2, <3>5, <4>2
    <3> QED
      BY <2>2, <3>7
  <2> QED
    BY <2>3, <2>4
<1>4. Good(S)
  <2>1. Cardinality(S) \in Nat
    BY FS_CardinalityType
  <2> HIDE DEF Good
  <2> QED
    BY <1>3, <2>1
<1>5. Binary!Parity(a, S) = g[S] % 2 /\ Binary!Parity(b, S) = h[S] % 2
  BY <1>1, <1>2
<1>6. IsFiniteSet(Differing(a, b, S))
  BY FS_Subset DEF Differing
<1>7. Cardinality(Differing(a, b, S)) \in Nat
  BY <1>6, FS_CardinalityType
<1>8. Cardinality(Differing(a, b, S)) % 2 = (g[S] + h[S]) % 2 /\ g[S] \in Nat /\ h[S] \in Nat
  BY <1>4
<1> HIDE DEF Good
<1> QED
  BY <1>5, <1>7, <1>8 DEF Binary!Bits

-----------------------------------------------------------------------------
(* The stage                                                               *)

RowsFit == UNION {matrix.factors[m] : m \in DOMAIN matrix.factors} \subseteq Binary!Positions

\* The estimate has the syndrome that the follower sent.
SyndromeReached ==
  /\ RowsFit
  /\ estimate \in [Binary!Positions -> Binary!Bits]
  /\ Binary!CalculateSyndrome(estimate) = Binary!CalculateSyndrome(other)

\* What holds once the follower has answered.
Answered ==
  /\ RowsFit
  /\ answer = Binary!CalculateSyndrome(other)
  /\ leaked.follower = Binary!Cardinality(DOMAIN matrix.factors)

Phases == {"setup", "ask", "asked", "answered", "propagating", "converged",
           "reconciled", "aborted", "panic"}

StageInv ==
  /\ phase \in Phases
  /\ file \in AlistFiles
  /\ key \in [Binary!Positions -> Binary!Bits] /\ other \in [Binary!Positions -> Binary!Bits]
  /\ passes \in 0 .. MaxIter
  /\ leaked = [follower |-> leaked.follower, leader |-> leaked.leader]
  /\ phase \notin {"setup", "panic"} => ~ Binary!Refused(file) /\ matrix = Binary!FromAlist(file)
  /\ phase \in {"answered", "propagating", "converged", "reconciled"} => Answered
  /\ phase \in {"converged", "reconciled"} => SyndromeReached /\ ~ Binary!Oversized
  /\ phase = "reconciled" => leaked.leader = leaked.follower
  /\ phase = "panic" =>
       Binary!Refused(file) \/ (matrix = Binary!FromAlist(file) /\ Binary!Oversized)
  /\ phase = "aborted" => ~ RowsFit \/ passes = MaxIter

\* Steps that change neither the matrix nor the keys keep what is said of them.
LEMMA MatrixKept ==
  ASSUME UNCHANGED <<Binary!arguments, matrix>>
  PROVE  /\ UNCHANGED <<file, key, other, matrix>>
         /\ RowsFit' = RowsFit /\ Binary!Oversized' = Binary!Oversized
         /\ Binary!Refused(file)' = Binary!Refused(file)
         /\ Binary!FromAlist(file)' = Binary!FromAlist(file)
         /\ Binary!CalculateSyndrome(other)' = Binary!CalculateSyndrome(other)
         /\ UNCHANGED estimate => SyndromeReached' = SyndromeReached
         /\ UNCHANGED <<answer, leaked>> => Answered' = Answered
BY DEF Binary!arguments, RowsFit, Binary!Oversized, Binary!CalculateSyndrome,
   SyndromeReached, Answered

LEMMA StageInitial ==
  ASSUME ConstantsAssumption, Binary!Init PROVE StageInv
BY DEF ConstantsAssumption, Binary!Init, StageInv, Phases

LEMMA SetupKeeps ==
  ASSUME StageInv, Binary!Setup PROVE StageInv'
<1>1. /\ UNCHANGED <<file, key, other, passes, leaked>>
      /\ Binary!Refused(file)' = Binary!Refused(file)
      /\ Binary!FromAlist(file)' = Binary!FromAlist(file)
  BY DEF Binary!Setup, Binary!arguments, Binary!beliefs, Binary!Refused, Binary!FromAlist
<1>2. \/ phase' = "panic" /\ Binary!Refused(file)
      \/ phase' = "ask" /\ ~ Binary!Refused(file) /\ matrix' = Binary!FromAlist(file)
  BY DEF Binary!Setup
<1> QED
  BY <1>1, <1>2 DEF StageInv, Phases

LEMMA AskKeeps ==
  ASSUME StageInv, Binary!Ask PROVE StageInv'
<1>1. UNCHANGED <<Binary!arguments, matrix, passes, leaked>>
  BY DEF Binary!Ask, Binary!beliefs
<1> QED
  BY <1>1, MatrixKept DEF Binary!Ask, StageInv, Phases

LEMMA FollowerAnswersKeeps ==
  ASSUME StageInv, Binary!FollowerAnswers PROVE StageInv'
<1>1. UNCHANGED <<Binary!arguments, matrix, passes>>
  BY DEF Binary!FollowerAnswers, Binary!beliefs
<1>2. CASE RowsFit
  <2>1. /\ phase' = "answered" /\ answer' = Binary!CalculateSyndrome(other)
        /\ leaked' = [leaked EXCEPT !.follower = Binary!Cardinality(DOMAIN matrix.factors)]
    BY <1>2 DEF Binary!FollowerAnswers, RowsFit
  <2>2. /\ leaked' = [follower |-> leaked'.follower, leader |-> leaked'.leader]
        /\ leaked'.follower = Binary!Cardinality(DOMAIN matrix.factors)
    BY <2>1 DEF StageInv
  <2>3. Answered'
    BY <1>1, <1>2, <2>1, <2>2, MatrixKept DEF Answered
  <2> QED
    BY <1>1, <2>1, <2>2, <2>3, MatrixKept DEF Binary!FollowerAnswers, StageInv, Phases
<1>3. CASE ~ RowsFit
  <2>1. phase' = "aborted" /\ UNCHANGED leaked
    BY <1>3 DEF Binary!FollowerAnswers, RowsFit
  <2> QED
    BY <1>1, <1>3, <2>1, MatrixKept DEF Binary!FollowerAnswers, StageInv, Phases
<1> QED
  BY <1>2, <1>3

LEMMA BeginKeeps ==
  ASSUME ConstantsAssumption, StageInv, Binary!Begin PROVE StageInv'
<1>1. /\ UNCHANGED <<Binary!arguments, matrix, answer, leaked>>
      /\ passes' \in 0 .. MaxIter
  BY DEF Binary!Begin, ConstantsAssumption
<1> QED
  BY <1>1, MatrixKept DEF Binary!Begin, StageInv, Phases

\* The pass that ends the loop compared the syndromes.
LEMMA PassKeeps ==
  ASSUME ConstantsAssumption, StageInv, Binary!Pass PROVE StageInv'
<1>1. UNCHANGED <<Binary!arguments, matrix, answer, leaked>> /\ phase = "propagating"
  BY DEF Binary!Pass
<1>2. passes' \in 0 .. MaxIter
  BY DEF Binary!Pass, StageInv, ConstantsAssumption
<1>3. estimate' \in [Binary!Positions -> Binary!Bits]
  BY DEF Binary!Pass, Binary!Bits
<1>4. /\ Answered /\ Answered' /\ RowsFit /\ RowsFit'
      /\ ~ Binary!Oversized /\ ~ Binary!Oversized'
  BY <1>1, MatrixKept DEF StageInv, Answered, Binary!Pass
<1>5. CASE Binary!CalculateSyndrome(estimate') = answer
  <2>1. phase' = "converged"
    BY <1>5 DEF Binary!Pass
  <2>2. Binary!CalculateSyndrome(estimate)' = Binary!CalculateSyndrome(estimate')
    BY <1>1 DEF Binary!CalculateSyndrome
  <2>3. SyndromeReached'
    BY <1>1, <1>3, <1>4, <1>5, <2>2, MatrixKept DEF SyndromeReached, Answered
  <2> QED
    BY <1>1, <1>2, <1>4, <2>1, <2>3, MatrixKept DEF StageInv, Phases
<1>6. CASE Binary!CalculateSyndrome(estimate') # answer
  <2>1. phase' = "propagating"
    BY <1>1, <1>6 DEF Binary!Pass
  <2> QED
    BY <1>1, <1>2, <1>4, <2>1, MatrixKept DEF StageInv, Phases
<1> QED
  BY <1>5, <1>6

LEMMA PassPanicsKeeps ==
  ASSUME StageInv, Binary!PassPanics PROVE StageInv'
<1>1. UNCHANGED <<Binary!arguments, matrix, passes, leaked>>
  BY DEF Binary!PassPanics, Binary!beliefs
<1> QED
  BY <1>1, MatrixKept DEF Binary!PassPanics, StageInv, Phases

LEMMA GivesUpKeeps ==
  ASSUME StageInv, Binary!GivesUp PROVE StageInv'
<1>1. UNCHANGED <<Binary!arguments, matrix, passes, leaked>>
  BY DEF Binary!GivesUp, Binary!beliefs
<1> QED
  BY <1>1, MatrixKept DEF Binary!GivesUp, StageInv, Phases

\* The leader counts the bits of the syndrome, the follower counted the rows.
LEMMA FinalizeKeeps ==
  ASSUME StageInv, Binary!Finalize PROVE StageInv'
<1>1. UNCHANGED <<Binary!arguments, matrix, answer, estimate, passes>>
  BY DEF Binary!Finalize, Binary!beliefs
<1>2. DOMAIN answer = DOMAIN matrix.factors
  BY DEF StageInv, Binary!Finalize, Answered, Binary!CalculateSyndrome
<1>3. /\ leaked' = [follower |-> leaked'.follower, leader |-> leaked'.leader]
      /\ leaked'.follower = leaked.follower
      /\ leaked'.leader = Binary!Cardinality(DOMAIN matrix.factors)
  BY <1>2 DEF Binary!Finalize, StageInv
<1>4. Answered /\ SyndromeReached /\ ~ Binary!Oversized
  BY DEF StageInv, Binary!Finalize
<1>5. Answered'
  BY <1>1, <1>3, <1>4, MatrixKept DEF Answered
<1>6. leaked'.leader = leaked'.follower
  BY <1>3, <1>4 DEF Answered
<1> QED
  BY <1>1, <1>3, <1>4, <1>5, <1>6, MatrixKept DEF Binary!Finalize, StageInv, Phases

LEMMA StageInvariance ==
  ASSUME ConstantsAssumption PROVE Binary!Spec => []StageInv
<1>1. Binary!Init => StageInv
  BY StageInitial
<1>2. ASSUME StageInv, [Binary!Next]_Binary!vars PROVE StageInv'
  <2>1. CASE UNCHANGED Binary!vars
    BY <1>2, <2>1, MatrixKept DEF Binary!vars, Binary!arguments, Binary!beliefs, StageInv
  <2>2. CASE Binary!Next
    BY <1>2, <2>2, SetupKeeps, AskKeeps, FollowerAnswersKeeps, BeginKeeps,
       PassKeeps, PassPanicsKeeps, GivesUpKeeps, FinalizeKeeps DEF Binary!Next
  <2> QED
    BY <1>2, <2>1, <2>2
<1> QED
  BY <1>1, <1>2, PTL DEF Binary!Spec

-----------------------------------------------------------------------------
(* What the stage promises                                                 *)

\* A key is handed on only if every check of the matrix has the parity the
\* follower told: the reconciled key differs from the follower's in an even
\* number of the positions of every check, so no check names just one position
\* that is still wrong; and if no other key has the follower's syndrome, the
\* keys are equal (belief_propagation.rs, propagate; lib.rs, finalize).
ErrorsCancel ==
  phase \in {"converged", "reconciled"} =>
    /\ \A m \in DOMAIN matrix.factors :
         Cardinality({v \in matrix.factors[m] : estimate[v] # other[v]}) % 2 = 0
    /\ {k \in [Binary!Positions -> Binary!Bits] :
          Binary!CalculateSyndrome(k) = Binary!CalculateSyndrome(other)} = {other}
         => estimate = other

THEOREM ReconciledKeysAgreeOnChecks ==
  ASSUME ConstantsAssumption PROVE Binary!Spec => []ErrorsCancel
<1>1. StageInv => ErrorsCancel
  <2> SUFFICES ASSUME StageInv, phase \in {"converged", "reconciled"} PROVE ErrorsCancel
    BY DEF ErrorsCancel
  <2>1. SyndromeReached
    BY DEF StageInv
  <2>2. ASSUME NEW m \in DOMAIN matrix.factors
        PROVE  Cardinality({v \in matrix.factors[m] : estimate[v] # other[v]}) % 2 = 0
    <3> DEFINE S == matrix.factors[m]
    <3>1. S \in SUBSET Binary!Positions
      BY <2>1 DEF SyndromeReached, RowsFit
    <3>2. IsFiniteSet(Binary!Positions)
      BY FS_Interval DEF ConstantsAssumption, Binary!Positions
    <3>3. IsFiniteSet(S)
      BY <3>1, <3>2, FS_Subset
    <3>4. Binary!Parity(estimate, S) = Binary!Parity(other, S)
      <4>1. Binary!CalculateSyndrome(estimate)[m] = Binary!CalculateSyndrome(other)[m]
        BY <2>1 DEF SyndromeReached
      <4> QED
        BY <4>1 DEF Binary!CalculateSyndrome
    <3>5. /\ estimate \in [Binary!Positions -> Binary!Bits]
          /\ other \in [Binary!Positions -> Binary!Bits]
      BY <2>1 DEF SyndromeReached, StageInv
    <3> HIDE DEF S
    <3>6. Cardinality(Differing(estimate, other, S)) % 2 = 0
      BY <3>1, <3>3, <3>4, <3>5, ParityOfDifference
    <3> QED
      BY <3>6 DEF Differing, S
  <2>3. ASSUME {k \in [Binary!Positions -> Binary!Bits] :
                  Binary!CalculateSyndrome(k) = Binary!CalculateSyndrome(other)} = {other}
        PROVE  estimate = other
    BY <2>1, <2>3 DEF SyndromeReached
  <2> QED
    BY <2>2, <2>3 DEF ErrorsCancel
<1> QED
  BY <1>1, StageInvariance, PTL

\* When the stage hands on a key, what the leader will subtract for the stage in
\* privacy amplification is what the follower counted when it answered (lib.rs,
\* finalize; the follower's answer to the syndrome request).
SameLeak == phase = "reconciled" => leaked.leader = leaked.follower

THEOREM LeaksAgree ==
  ASSUME ConstantsAssumption PROVE Binary!Spec => []SameLeak
<1>1. StageInv => SameLeak
  BY DEF StageInv, SameLeak
<1> QED
  BY <1>1, StageInvariance, PTL

\* The stage panics only for a file that is refused or that has a column the key
\* or the rows do not have, and gives up only for a row that names a position
\* beyond the key or after MaxIter passes.  With a matrix that fits the key it
\* never panics.
TroubleExplained ==
  /\ phase = "panic" => Binary!Refused(file) \/ Binary!Oversized
  /\ phase = "aborted" => ~ RowsFit \/ passes = MaxIter
  /\ phase \in {"panic", "aborted"} /\ ~ Binary!Refused(file) /\ Binary!Fits =>
       phase = "aborted" /\ passes = MaxIter

THEOREM TroubleHasACause ==
  ASSUME ConstantsAssumption PROVE Binary!Spec => []TroubleExplained
<1>1. Binary!Fits => RowsFit /\ ~ Binary!Oversized
  BY DEF Binary!Fits, RowsFit, Binary!Oversized
<1>2. StageInv => TroubleExplained
  BY <1>1 DEF StageInv, TroubleExplained
<1> QED
  BY <1>2, StageInvariance, PTL

-----------------------------------------------------------------------------
(* The stage ends                                                          *)

Ended == phase \in {"reconciled", "aborted", "panic"}

StepsLeft ==
  CASE phase = "setup"       -> MaxIter + 6
    [] phase = "ask"         -> MaxIter + 5
    [] phase = "asked"       -> MaxIter + 4
    [] phase = "answered"    -> MaxIter + 3
    [] phase = "propagating" -> MaxIter + 2 - passes
    [] phase = "converged"   -> 1
    [] OTHER                 -> 0

\* The guards of the steps: one of them holds until the stage has ended.
Ready ==
  \/ phase \in {"setup", "ask", "asked", "answered", "converged"}
  \/ phase = "propagating" /\ (passes < MaxIter \/ passes = MaxIter)

LEMMA StepsLeftType ==
  ASSUME MaxIter \in Nat, StageInv PROVE StepsLeft \in 0 .. MaxIter + 6
<1>1. passes \in Nat /\ passes <= MaxIter
  BY DEF StageInv
<1> QED
  BY <1>1 DEF StepsLeft, StageInv, Phases

LEMMA EveryStepCounts ==
  ASSUME MaxIter \in Nat, StageInv, StageInv', Binary!Next PROVE StepsLeft' < StepsLeft
<1>1. passes \in Nat /\ passes <= MaxIter /\ passes' \in Nat /\ passes' <= MaxIter
  BY DEF StageInv
<1>2. CASE Binary!Setup \/ Binary!Ask \/ Binary!FollowerAnswers \/ Binary!Begin
  BY <1>1, <1>2 DEF Binary!Setup, Binary!Ask, Binary!FollowerAnswers, Binary!Begin, StepsLeft
<1>3. CASE Binary!Pass
  BY <1>1, <1>3 DEF Binary!Pass, StepsLeft
<1>4. CASE Binary!PassPanics \/ Binary!GivesUp
  BY <1>1, <1>4 DEF Binary!PassPanics, Binary!GivesUp, StepsLeft
<1>5. CASE Binary!Finalize
  BY <1>1, <1>5 DEF Binary!Finalize, StepsLeft
<1> QED
  BY <1>2, <1>3, <1>4, <1>5 DEF Binary!Next

\* The stage takes at most MaxIter + 6 steps, whatever the file and the keys are,
\* and until it has reconciled, given up or panicked there is a step it can take.
THEOREM StageEnds ==
  ASSUME ConstantsAssumption
  PROVE  Binary!Spec => /\ [](StepsLeft \in 0 .. MaxIter + 6 /\ (Ended \/ Ready))
                 /\ [][StepsLeft' < StepsLeft]_Binary!vars
<1>1. MaxIter \in Nat
  BY DEF ConstantsAssumption
<1>2. StageInv => StepsLeft \in 0 .. MaxIter + 6 /\ (Ended \/ Ready)
  <2>1. StageInv => Ended \/ Ready
    BY <1>1 DEF StageInv, Phases, Ended, Ready
  <2> QED
    BY <1>1, <2>1, StepsLeftType
<1>3. ASSUME StageInv, StageInv', [Binary!Next]_Binary!vars
      PROVE  [StepsLeft' < StepsLeft]_Binary!vars
  BY <1>1, <1>3, EveryStepCounts
<1> QED
  BY <1>2, <1>3, StageInvariance, PTL DEF Binary!Spec
=============================================================================

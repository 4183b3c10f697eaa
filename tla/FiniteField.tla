---------------------------- MODULE FiniteField ----------------------------
(* The field GF(p^n) as polynomials modulo an irreducible one of degree n, *)
(* and its elements by number, as the decoder uses them (finite_field.rs), *)
(* and the search for irreducible polynomials (polynomial.rs, utils.rs).   *)
(* Operations on elements of two different fields panic in the code; here  *)
(* the field is an argument.                                               *)
EXTENDS Polynomial, SequencesExt

-----------------------------------------------------------------------------
(* Irreducible polynomials                                                 *)

\* The sieve of prime_factorization finds the next prime up to n; the loop
\* collects those that divide n, the last one when there is no next.
NextPrimes(n, primes) == {m \in Max(primes) + 1 .. n : \A r \in primes : m % r # 0}

Sieve(n) ==
  Loop(LAMBDA primes : NextPrimes(n, primes) = {},
       LAMBDA primes : primes \cup {Min(NextPrimes(n, primes))}, {2}, n)

PrimeFactors(n) == IF n < 2 THEN {} ELSE {r \in Sieve(n) : n % r = 0}

\* x^k - x; for k = 1 the second entry of the map replaces the first.
XPowerMinusX(p, k) ==
  Normal(p, [i \in {1, k} |-> IF i = k THEN 1 ELSE p - 1])

\* Variant: only the first half of Rabin's test.
DividesXPowerMinusX(p, f) ==
  Rem(p, XPowerMinusX(p, Raise(p, Degree(f))), f) = Zero

\* Rabin's test.
IsIrreducible(p, f) ==
  /\ Rem(p, XPowerMinusX(p, Raise(p, Degree(f))), f) = Zero
  /\ \A n \in PrimeFactors(Degree(f)) :
       IsOne(PolyGcd(p, f, XPowerMinusX(p, Raise(p, Degree(f) \div n))))

(* IterPoly: the coefficients below the leading one count up like an       *)
(* odometer from position 0; the last value, after which position n - 1    *)
(* overflows, is followed by Zero.                                         *)
Turn(p, n, coeffs) ==
  LET i == Min({k \in 0 .. n : coeffs[k] + 1 < p \/ k >= n - 1})
  IN IF coeffs[i] + 1 = p THEN Zero
     ELSE [k \in 0 .. n |-> IF k < i THEN 0 ELSE coeffs[k] + IF k = i THEN 1 ELSE 0]

Odometer(p, n) ==
  Loop(LAMBDA s : s.next = Zero,
       LAMBDA s : [all  |-> Append(s.all, Normal(p, s.next)), next |-> Turn(p, n, s.next)],
       [all |-> << >>, next |-> [k \in 0 .. n |-> IF k = n THEN 1 ELSE 0]],
       Raise(p, n))

IterPoly(p, n) == Odometer(p, n).all

\* The first that find_irreducible yields.
FindIrreducible(p, n) ==
  LET all == IterPoly(p, n)
  IN all[CHOOSE i \in DOMAIN all :
           /\ IsIrreducible(p, all[i])
           /\ \A j \in 1 .. i - 1 : ~IsIrreducible(p, all[j])]

-----------------------------------------------------------------------------
(* Fields                                                                  *)

\* What GF::from_poly answers: an error or the field.
NewField(p, poly) ==
  [error |-> CASE ~IsPrime(p)             -> "NotPrime"
               [] IsPrime(p) /\ ~IsIrreducible(p, poly) -> "ReduciblePolynomial"
               [] OTHER                   -> "none",
   p |-> p, n |-> Degree(poly), size |-> Raise(p, Degree(poly)), poly |-> poly]

\* Variant: the field is built on the first monic polynomial of its degree.
WithSizeUntested(p, n) ==
  [error |-> "none", p |-> p, n |-> n, size |-> Raise(p, n), poly |-> Head(IterPoly(p, n))]

WithSize(p, n) == NewField(p, FindIrreducible(p, n))

FromPoly(F, f) == Rem(F.p, f, F.poly)
ZeroOf(F) == Zero
OneOf(F) == Monomial(0, 1)

Plus(F, a, b) == FromPoly(F, Add(F.p, a, b))
Minus(F, a, b) == FromPoly(F, Sub(F.p, a, b))
Times(F, a, b) == FromPoly(F, Mul(F.p, a, b))
Power(F, a, n) == FromPoly(F, Pow(F.p, a, n))

\* add_assign leaves out the reduction: both degrees are below n already.
PlusAssign(F, a, b) == Add(F.p, a, b)

\* The digits of n in base p are the coefficients.
Element(F, n) ==
  LET m == n % F.size
  IN FromPoly(F, Normal(F.p, [k \in 0 .. F.n |-> (m \div Raise(F.p, k)) % F.p]))

AsInt(F, a) == MapThenSumSet(LAMBDA k : Raise(F.p, k) * a[k], DOMAIN a)

\* The number of powers a, a^2, ... before the first that is one.
PowersBeforeOne(F, a) ==
  Loop(LAMBDA s : s.cur = OneOf(F),
       LAMBDA s : [cur |-> Times(F, s.cur, a), count |-> s.count + 1],
       [cur |-> a, count |-> 0], F.size).count

IsPrimitive(F, a) ==
  a # ZeroOf(F) /\ PowersBeforeOne(F, a) = F.size - 2

\* The first that iter_primitive yields.
PrimitiveElement(F) ==
  Element(F, CHOOSE i \in 1 .. F.size - 1 :
               /\ IsPrimitive(F, Element(F, i))
               /\ \A j \in 1 .. i - 1 : ~IsPrimitive(F, Element(F, j)))

(* read_alist_file: the field of an order with one prime factor p, where   *)
(* n = log_p of the order, and the entry a^j of the file for its first     *)
(* primitive element a.                                                    *)
OrderAccepted(size) == \E p \in PrimeFactors(size) : PrimeFactors(size) = {p}

FieldOfOrder(size) ==
  LET p == CHOOSE r \in PrimeFactors(size) : TRUE
  IN WithSize(p, CHOOSE n \in 1 .. size : Raise(p, n) = size)

Entry(F, j) == Power(F, PrimitiveElement(F), j)

-----------------------------------------------------------------------------
(* Matrix files: each row becomes a map from positions to the numbers of   *)
(* its entries. An alist file names the order of its field; it has a line  *)
(* for each variable, which is skipped, then for each factor a line of     *)
(* pairs <<i, j>>: a^j stands at i - 1. A table, read with a polynomial,   *)
(* names an exponent for each position, -1 where there is no entry.        *)

FieldOf(file) ==
  IF file.format = "alist" THEN FieldOfOrder(file.order) ELSE NewField(file.p, file.poly)

FileTooShort(file) ==
  file.format = "alist" /\ Len(file.lines) < file.variables + file.factors

ReadError(file) ==
  CASE file.format = "table" -> FieldOf(file).error
    [] file.format = "alist" /\ ~OrderAccepted(file.order) -> "BadFieldSize"
    [] file.format = "alist" /\ OrderAccepted(file.order) ->
         IF FileTooShort(file) THEN "FileTooShort" ELSE "none"

RowsOf(file) == 1 .. IF file.format = "alist" THEN file.factors ELSE Len(file.lines)

PairsOf(file, m) ==
  IF file.format = "alist" THEN ToSet(file.lines[file.variables + m])
  ELSE {<<i, file.lines[m][i]>> : i \in {k \in DOMAIN file.lines[m] : file.lines[m][k] # -1}}

\* Files name a position once in a line; of two pairs the map would keep the last.
ReadFactors(F, file) ==
  [m \in RowsOf(file) |->
    LET pairs == PairsOf(file, m)
    IN [n \in {e[1] - 1 : e \in pairs} |->
         AsInt(F, Entry(F, (CHOOSE e \in pairs : e[1] = n + 1)[2]))]]
=============================================================================

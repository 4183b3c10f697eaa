---------------------------- MODULE Polynomial ----------------------------
(* Polynomials with coefficients in Z_p, on which the finite fields of the *)
(* non-binary LDPC code are built (polynomial.rs).                         *)
(*                                                                         *)
(* As in the code a polynomial is the map from the powers that occur to    *)
(* their coefficients, 1..p-1; the zero polynomial is the empty map. The   *)
(* prime p is an argument: every operation gives None when its operands    *)
(* disagree on it, and no caller lets that happen.                         *)
EXTENDS Integers, Sequences, FiniteSetsExt, Functions, TLC

\* b to the power k.
Raise(b, k) ==
  LET To[m \in Nat] == IF m = 0 THEN 1 ELSE b * To[m - 1] IN To[k]

Coeff(f, k) == IF k \in DOMAIN f THEN f[k] ELSE 0

Normal(p, c) ==
  RestrictValues([k \in DOMAIN c |-> c[k] % p], LAMBDA v : v # 0)

Zero == << >>
IsOne(f) == DOMAIN f = {0} /\ f[0] = 1
Monomial(k, c) == [i \in {k} |-> c]

\* The power and the coefficient of the leading term; (0, 0) for Zero.
LeadTerm(f) ==
  IF f = Zero THEN <<0, 0>> ELSE LET k == Max(DOMAIN f) IN <<k, f[k]>>
Degree(f) == LeadTerm(f)[1]

\* What Polynomial::new makes.
IsPoly(p, f) ==
  /\ Degree(f) \in Nat /\ DOMAIN f \subseteq 0 .. Degree(f)
  /\ f \in [DOMAIN f -> 1 .. p - 1]

Add(p, f, g) ==
  Normal(p, [k \in DOMAIN f \cup DOMAIN g |-> Coeff(f, k) + Coeff(g, k)])

Sub(p, f, g) ==
  Normal(p, [k \in DOMAIN f \cup DOMAIN g |-> p + Coeff(f, k) - Coeff(g, k)])

MulCoeff(f, g, k) == MapThenSumSet(LAMBDA i : f[i] * Coeff(g, k - i), DOMAIN f)
Mul(p, f, g) ==
  Normal(p, [k \in {i + j : i \in DOMAIN f, j \in DOMAIN g} |-> MulCoeff(f, g, k)])

\* Exponents begin at 1: pow(0) calls itself for ever.
Pow(p, f, n) ==
  LET To[m \in Nat \ {0}] ==
        IF m = 1 THEN f
        ELSE LET h == To[m \div 2]
             IN Mul(p, IF m % 2 = 0 THEN h ELSE Mul(p, f, h), h)
  IN To[n]

\* The state in which a loop that ends within so many turns leaves its variables.
Loop(Ends(_), Turn(_), start, turns) ==
  LET After[k \in Nat] ==
        IF k = 0 THEN start
        ELSE LET last == After[k - 1] IN IF Ends(last) THEN last ELSE Turn(last)
  IN After[turns]

-----------------------------------------------------------------------------
(* The extended Euclidean algorithm on integers: <<s, t, r>> with          *)
(* s*a + t*b = r. Each pair holds the old value and the new one.           *)
EgcdTurn(e) ==
  LET quotient   == e.r[1] \div e.r[2]
      Shift(old) == <<old[2], old[1] - quotient * old[2]>>
  IN [r |-> Shift(e.r), s |-> Shift(e.s), t |-> Shift(e.t)]

\* Each turn lowers the new r, which is b at first.
Egcd(a, b) ==
  LET e == Loop(LAMBDA last : last.r[2] = 0, EgcdTurn,
                [r |-> <<a, b>>, s |-> <<1, 0>>, t |-> <<0, 1>>], b)
  IN <<e.s[1], e.t[1], e.r[1]>>

(* Quotient and remainder. The loop of divmod does not end when the        *)
(* divisor is zero; its callers divide by fields' polynomials and by       *)
(* remainders they have compared with zero. Each turn lowers the degree of *)
(* the remainder.                                                          *)
DivEnds(g, r) == r = Zero \/ Degree(r) < Degree(g)

DivTurn(p, g, q, r) ==
  LET top == LeadTerm(r)
      div == LeadTerm(g)
      t   == Monomial(top[1] - div[1], (Egcd(div[2], p)[1] * top[2]) % p)
  IN <<Add(p, q, t), Sub(p, r, Mul(p, t, g))>>

DivMod(p, f, g) ==
  Loop(LAMBDA d : DivEnds(g, d[2]), LAMBDA d : DivTurn(p, g, d[1], d[2]),
       <<Zero, f>>, Degree(f) + 1)

Rem(p, f, g) == DivMod(p, f, g)[2]

\* The variables of poly_gcd are r0, r1 and r.
GcdLoop(p, a, b) ==
  Loop(LAMBDA v : v[3] = Zero, LAMBDA v : <<v[2], v[3], Rem(p, v[2], v[3])>>,
       <<a, b, Rem(p, a, b)>>, Degree(b) + 1)[2]

\* Variant: the common divisor is left as the divisions end.
PolyGcdNotMonic(p, a, b) == GcdLoop(p, a, b)

\* The greatest common divisor that is monic.
PolyGcd(p, a, b) ==
  LET g == GcdLoop(p, a, b)
      c == LeadTerm(g)[2]
  IN [k \in DOMAIN g |->
       IF c = 1 THEN g[k] ELSE (Egcd(c, p)[1] * g[k]) % p]

IsPrime(n) == n # 1 /\ \A i \in 2 .. n : i * i <= n => n % i # 0
=============================================================================

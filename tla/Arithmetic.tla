----------------------------- MODULE Arithmetic -----------------------------
(* What the arithmetic below the non-binary LDPC code is to compute, each  *)
(* operation measured by a plain definition: division by multiplication,   *)
(* Rabin's test by all the products of smaller polynomials, the fields by  *)
(* the laws of a field.                                                    *)
EXTENDS NonBinaryLdpc

CONSTANT Subjects   \* what the arithmetic is tried on

Prime(p) == p \in Nat \ {0} /\ IsPrime(p)

\* Two polynomials; a monic polynomial of degree n, to be tested; a field of
\* p^n elements, and three numbers of its elements; a matrix file.
IsSubject(s) ==
  \/ s.kind = "pair" /\ Prime(s.p) /\ IsPoly(s.p, s.f) /\ IsPoly(s.p, s.g)
  \/ /\ s.kind = "candidate" /\ Prime(s.p) /\ IsPoly(s.p, s.f)
     /\ s.n \in Nat \ {0} /\ LeadTerm(s.f) = <<s.n, 1>>
  \/ /\ s.kind = "field" /\ Prime(s.p) /\ s.n \in Nat \ {0}
     /\ s.field = WithSize(s.p, s.n)
  \/ /\ s.kind = "triple" /\ Prime(s.p) /\ s.n \in Nat \ {0}
     /\ s.field = WithSize(s.p, s.n) /\ s.abc \in [1 .. 3 -> SymbolsOf(s.field)]
  \/ /\ s.kind = "file" /\ s.file \in Files /\ ReadError(s.file) = "none"
     /\ s.field = FieldOf(s.file)

ASSUME SubjectsAssumption == \A s \in Subjects : IsSubject(s)

VARIABLE subject

About(kind) == subject.kind = kind

-----------------------------------------------------------------------------
\* Polynomials of degree below d, and the monic ones of degree n.
Polynomials(p, d) == {Normal(p, c) : c \in [0 .. d - 1 -> 0 .. p - 1]}
Monic(p, n) == {f \in Polynomials(p, n + 1) : LeadTerm(f) = <<n, 1>>}

HasFactor(p, f, d) == \E h \in Polynomials(p, Degree(f) + 1) : Mul(p, d, h) = f

(* Rabin's test accepts a monic polynomial exactly if it is no product of  *)
(* two smaller ones, and IterPoly, from which fields are made, produces    *)
(* every monic polynomial of a degree once (polynomial.rs 24-45, utils.rs  *)
(* 16-134).                                                                *)
IrreducibleExact ==
  About("candidate") =>
    LET p == subject.p
        n == subject.n
        all == IterPoly(p, n)
    IN /\ IsIrreducible(p, subject.f) <=>
            ~ \E k \in 1 .. n - 1 : \E g \in Monic(p, k), h \in Monic(p, n - k) :
                Mul(p, g, h) = subject.f
       /\ Len(all) = Raise(p, n) /\ {all[i] : i \in DOMAIN all} = Monic(p, n)
       /\ \A i, j \in DOMAIN all : all[i] = all[j] => i = j

(* divmod splits f into a multiple of g and a smaller remainder, poly_gcd  *)
(* is the monic common divisor of the highest degree, and pow by halving   *)
(* is repeated multiplication (polynomial.rs 88-139, 248-284).             *)
DivisionExact ==
  (About("pair") /\ subject.g # Zero) =>
    LET p == subject.p
        f == subject.f
        g == subject.g
        d == DivMod(p, f, g)
        c == PolyGcd(p, f, g)
    IN /\ Add(p, Mul(p, d[1], g), d[2]) = f
       /\ d[2] = Zero \/ Degree(d[2]) < Degree(g)
       /\ LeadTerm(c)[2] = 1 /\ HasFactor(p, f, c) /\ HasFactor(p, g, c)
       /\ \A n \in Degree(c) + 1 .. Degree(g) : \A h \in Monic(p, n) :
            ~ (HasFactor(p, g, h) /\ HasFactor(p, f, h))
       /\ Pow(p, g, 1) = g
       /\ \A n \in 1 .. 4 : Pow(p, g, n + 1) = Mul(p, g, Pow(p, g, n))

(* with_size makes a field: numbers and elements correspond, the           *)
(* operations are those of a field, h^(q-2) inverts h, and the powers of   *)
(* the first primitive element are the elements other than zero, which is  *)
(* how matrix files name them (finite_field.rs, utils.rs 151-215). In the  *)
(* field of a matrix file the decoder's tables solve the equations they    *)
(* are for (decoder.rs 116-143), and no entry of the file is zero.         *)
FieldsAreFields ==
  /\ About("file") =>
       LET F == subject.field
       IN SymbolsAdd(F) /\ TablesSolve(F) /\ EntriesInvert(F, subject.file)
  /\ About("field") =>
       LET F   == subject.field
           all == {Element(F, j) : j \in SymbolsOf(F)}
       IN /\ F.error = "none" /\ OrderAccepted(F.size) /\ FieldOfOrder(F.size) = F
          /\ \A j \in SymbolsOf(F) : AsInt(F, Element(F, j)) = j
          /\ \A a \in all, b \in all : Times(F, a, b) \in all
          /\ F.size > 2 => \A a \in all \ {ZeroOf(F)} :
                             Times(F, a, Power(F, a, F.size - 2)) = OneOf(F)
          /\ {Entry(F, j) : j \in 1 .. F.size - 1} = all \ {ZeroOf(F)}
  /\ About("triple") =>
       LET F == subject.field
           a == Element(F, subject.abc[1])
           b == Element(F, subject.abc[2])
           c == Element(F, subject.abc[3])
       IN /\ Plus(F, a, b) = Plus(F, b, a) /\ Times(F, a, b) = Times(F, b, a)
          /\ Plus(F, Plus(F, a, b), c) = Plus(F, a, Plus(F, b, c))
          /\ Times(F, Times(F, a, b), c) = Times(F, a, Times(F, b, c))
          /\ Times(F, a, Plus(F, b, c)) = Plus(F, Times(F, a, b), Times(F, a, c))
          /\ Minus(F, Plus(F, a, b), b) = a /\ PlusAssign(F, a, b) = Plus(F, a, b)
=============================================================================

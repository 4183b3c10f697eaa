--------------------------- MODULE CascadeProofs ---------------------------
(***************************************************************************)
(* Proofs about Cascade, for every length of the key, block size, number   *)
(* of iterations, shuffle and pattern of errors.                           *)
(*                                                                         *)
(* What the recursive definitions compute is proved by induction over the  *)
(* lengths of blocks.  The induction takes the form of a least             *)
(* counterexample, LeastNumber, because the provers cannot instantiate the *)
(* induction rules of the library, whose parameter is an operator.         *)
(***************************************************************************)
EXTENDS Cascade, FiniteSetTheorems, WellFoundedInduction, TLAPS

-----------------------------------------------------------------------------
(* Induction and recursion.                                                *)

LEMMA LeastNumber ==
  ASSUME NEW S \in SUBSET Nat, S # {}
  PROVE  \E m \in S : \A k \in S : m <= k
<1> DEFINE R == {ss \in Nat \X Nat : ss[1] < ss[2]}
<1>1. IsWellFoundedOn(R, Nat)
  BY NatLessThanWellFounded DEF OpToRel
<1>2. PICK x \in S : \A y \in S : <<y, x>> \notin R
  <2> HIDE DEF R
  <2> QED
    BY <1>1, WFMin
<1>3. \A y \in S : ~ (y < x)
  BY <1>2
<1> QED
  BY <1>2, <1>3

LEMMA Constants ==
  /\ Length \in Nat /\ BlockSize \in Nat \ {0} /\ Iterations \in Nat \ {0}
  /\ \A i \in Turns : i \in Nat /\ i < Iterations
  /\ \A k \in Positions : k \in Nat /\ k > 0 /\ k <= Length
BY LengthAssumption, BlockSizeAssumption, IterationsAssumption DEF Turns, Positions

\* A stretch that can be cut has two halves, which make it up.
LEMMA Halves ==
  ASSUME NEW b \in Stretches
  PROVE  /\ b = <<b[1], b[2], b[3]>> /\ b[1] \in Turns /\ b[2] \in Nat \ {0} /\ b[3] \in Nat \ {0}
         /\ b[2] + b[3] - 1 <= Length
         /\ ~ IsLeaf(b) =>
              /\ Left(b) \in Stretches /\ Right(b) \in Stretches
              /\ Left(b)[1] = b[1] /\ Right(b)[1] = b[1]
              /\ Left(b)[2] = b[2] /\ Right(b)[2] = b[2] + Left(b)[3]
              /\ Left(b)[3] + Right(b)[3] = b[3]
              /\ Left(b)[3] > 0 /\ Right(b)[3] > 0
<1>1. b \in Turns \X Positions \X Positions /\ b[2] + b[3] - 1 <= Length
  BY DEF Stretches
<1>2. /\ b = <<b[1], b[2], b[3]>> /\ b[1] \in Turns /\ b[2] \in Nat \ {0} /\ b[3] \in Nat \ {0}
  BY <1>1, Constants
<1>3. ASSUME ~ IsLeaf(b)
      PROVE  /\ Left(b) \in Stretches /\ Right(b) \in Stretches
             /\ Left(b)[1] = b[1] /\ Right(b)[1] = b[1]
             /\ Left(b)[2] = b[2] /\ Right(b)[2] = b[2] + Left(b)[3]
             /\ Left(b)[3] + Right(b)[3] = b[3]
             /\ Left(b)[3] > 0 /\ Right(b)[3] > 0
  <2>1. PICK h \in Nat : h = b[3] \div 2 /\ h > 0 /\ h < b[3]
    BY <1>2, <1>3 DEF IsLeaf
  <2>2. Left(b) = <<b[1], b[2], h>> /\ Right(b) = <<b[1], b[2] + h, b[3] - h>>
    BY <2>1 DEF Left, Right
  <2>3. h \in Positions /\ b[2] + h \in Positions /\ b[3] - h \in Positions
    BY <1>1, <1>2, <2>1, Constants DEF Positions
  <2>4. Left(b) \in Stretches /\ Right(b) \in Stretches
    BY <1>1, <1>2, <2>1, <2>2, <2>3, Constants DEF Stretches
  <2> QED
    BY <1>2, <2>1, <2>2, <2>4
<1> QED
  BY <1>1, <1>2, <1>3

\* f follows the halves of a stretch and unites what they give, unless b is
\* one of the last.
Descends(f, D, Last, Own) ==
  f = [b \in D |-> IF b \in Last THEN Own[b] ELSE Own[b] \cup f[Left(b)] \cup f[Right(b)]]

\* A function may be defined by such a recursion.
LEMMA RecursionOnHalves ==
  ASSUME NEW D \in SUBSET Stretches, NEW Last, NEW Own,
         \A b \in D : b \in Last \/ (~ IsLeaf(b) /\ Left(b) \in D /\ Right(b) \in D)
  PROVE  \E f : Descends(f, D, Last, Own)
<1> DEFINE Value(f, b) == IF b \in Last THEN Own[b]
                          ELSE Own[b] \cup f[Left(b)] \cup f[Right(b)]
           Upto(f, n) == /\ f = [b \in D |-> f[b]]
                         /\ \A b \in D : b[3] <= n => f[b] = Value(f, b)
           Bad == {n \in Nat : ~ \E f : Upto(f, n)}
<1>1. Bad = {}
  <2> SUFFICES ASSUME Bad # {} PROVE FALSE
    OBVIOUS
  <2>1. PICK n \in Bad : \A k \in Bad : n <= k
    <3> HIDE DEF Bad
    <3>1. Bad \in SUBSET Nat
      BY DEF Bad
    <3> QED
      BY <3>1, LeastNumber
  <2>2. CASE n = 0
    <3> DEFINE g == [b \in D |-> {}]
    <3>1. \A b \in D : ~ (b[3] <= 0)
      BY Halves
    <3>2. Upto(g, n)
      BY <2>2, <3>1
    <3>3. \E f : Upto(f, n)
      <4> HIDE DEF g, Upto
      <4> QED
        BY <3>2
    <3> QED
      <4> HIDE DEF Upto
      <4> QED
        BY <2>1, <3>3
  <2>3. CASE n # 0
    <3>1. n - 1 \in Nat /\ n - 1 \notin Bad
      <4>1. n \in Nat
        OBVIOUS
      <4> HIDE DEF Bad
      <4> QED
        BY <2>1, <2>3, <4>1
    <3>2. PICK f : Upto(f, n - 1)
      BY <3>1
    <3> DEFINE g == [b \in D |-> Value(f, b)]
    <3>3. ASSUME NEW b \in D, b[3] <= n PROVE g[b] = Value(g, b)
      <4>1. CASE b \in Last
        BY <4>1
      <4>2. CASE b \notin Last
        <5>1. /\ Left(b) \in D /\ Right(b) \in D
              /\ Left(b)[3] <= n - 1 /\ Right(b)[3] <= n - 1
          BY <3>3, <4>2, Halves
        <5>2. f[Left(b)] = Value(f, Left(b)) /\ f[Right(b)] = Value(f, Right(b))
          BY <3>2, <5>1
        <5>3. g[Left(b)] = f[Left(b)] /\ g[Right(b)] = f[Right(b)]
          BY <5>1, <5>2
        <5> QED
          BY <4>2, <5>3
      <4> QED
        BY <4>1, <4>2
    <3>4. g = [b \in D |-> g[b]]
      OBVIOUS
    <3>5. Upto(g, n)
      <4> HIDE DEF g, Value
      <4> QED
        BY <3>3, <3>4
    <3> QED
      <4> HIDE DEF g, Upto
      <4> QED
        BY <2>1, <3>5
  <2> QED
    BY <2>2, <2>3
<1>2. PICK f : Upto(f, Length)
  BY <1>1, Constants
<1>3. \A b \in D : b[3] <= Length
  BY Halves, Constants
<1>4. f = [b \in D |-> Value(f, b)]
  BY <1>2, <1>3
<1> QED
  BY <1>4 DEF Descends

-----------------------------------------------------------------------------
(* The trees of blocks.                                                    *)

LEMMA TreeOf ==
  ASSUME NEW b \in Stretches
  PROVE  Tree[b] = IF IsLeaf(b) THEN {b} ELSE {b} \cup Tree[Left(b)] \cup Tree[Right(b)]
<1> DEFINE Last == {c \in Stretches : IsLeaf(c)}
           Own == [c \in Stretches |-> {c}]
<1>1. \A c \in Stretches : c \in Last \/ (~ IsLeaf(c) /\ Left(c) \in Stretches /\ Right(c) \in Stretches)
  BY Halves
<1>2. PICK f : Descends(f, Stretches, Last, Own)
  <2>1. Stretches \in SUBSET Stretches
    OBVIOUS
  <2> HIDE DEF Last, Own
  <2> QED
    BY <1>1, <2>1, RecursionOnHalves
<1>3. f = [c \in Stretches |-> IF IsLeaf(c) THEN {c}
                               ELSE {c} \cup f[Left(c)] \cup f[Right(c)]]
  BY <1>2 DEF Descends
<1>4. Tree = [c \in Stretches |-> IF IsLeaf(c) THEN {c}
                                  ELSE {c} \cup Tree[Left(c)] \cup Tree[Right(c)]]
  BY <1>3, Zenon DEF Tree
<1> QED
  BY <1>4, Zenon

\* Stretch c lies within stretch d, in one half of it, or shares nothing with it.
Within(c, d) == c[1] = d[1] /\ d[2] <= c[2] /\ c[2] + c[3] <= d[2] + d[3]
InHalf(c, d) == ~ IsLeaf(d) /\ (Within(c, Left(d)) \/ Within(c, Right(d)))
Apart(c, d) == c[1] # d[1] \/ c[2] + c[3] <= d[2] \/ d[2] + d[3] <= c[2]

LEMMA InHalfIsWithin ==
  ASSUME NEW c \in Stretches, NEW d \in Stretches, InHalf(c, d)
  PROVE  Within(c, d) /\ ~ Within(d, c) /\ c # d /\ c[3] < d[3]
BY Halves DEF InHalf, Within

\* What is in a tree is a stretch within its root, closed under halves, and
\* any two of its blocks are nested by halves or share nothing.
WellFormed(b) ==
  /\ b \in Tree[b]
  /\ \A c \in Tree[b] :
       /\ c \in Stretches /\ Within(c, b)
       /\ ~ IsLeaf(c) => Left(c) \in Tree[b] /\ Right(c) \in Tree[b]
  /\ \A c, d \in Tree[b] : c = d \/ Apart(c, d) \/ InHalf(c, d) \/ InHalf(d, c)

LEMMA LeafWellFormed ==
  ASSUME NEW b \in Stretches, IsLeaf(b)
  PROVE  WellFormed(b)
<1>1. Tree[b] = {b}
  BY TreeOf
<1>2. Within(b, b)
  BY Halves DEF Within
<1> QED
  BY <1>1, <1>2 DEF WellFormed

LEMMA NodeWellFormed ==
  ASSUME NEW b \in Stretches, ~ IsLeaf(b), WellFormed(Left(b)), WellFormed(Right(b))
  PROVE  WellFormed(b)
<1> DEFINE L == Left(b)
           R == Right(b)
<1>1. Tree[b] = {b} \cup Tree[L] \cup Tree[R]
  BY TreeOf
<1>2. L \in Tree[L] /\ R \in Tree[R]
  BY DEF WellFormed
<1>3. \A c \in Tree[L] : c \in Stretches /\ Within(c, L)
  BY DEF WellFormed
<1>4. \A c \in Tree[R] : c \in Stretches /\ Within(c, R)
  BY DEF WellFormed
<1>5. \A c \in Tree[L] \cup Tree[R] : c \in Stretches /\ Within(c, b) /\ InHalf(c, b)
  <2> SUFFICES ASSUME NEW c \in Tree[L] \cup Tree[R]
               PROVE  c \in Stretches /\ Within(c, b) /\ InHalf(c, b)
    OBVIOUS
  <2>1. c \in Stretches /\ (Within(c, L) \/ Within(c, R))
    BY <1>3, <1>4
  <2> QED
    BY <2>1, InHalfIsWithin DEF InHalf
<1>6. Within(b, b)
  BY Halves DEF Within
<1>7. \A c \in Tree[b] : c \in Stretches /\ Within(c, b)
  BY <1>1, <1>5, <1>6
<1>8. \A c \in Tree[b] : ~ IsLeaf(c) => Left(c) \in Tree[b] /\ Right(c) \in Tree[b]
  BY <1>1, <1>2 DEF WellFormed
<1>9. \A c \in Tree[L], d \in Tree[R] : Apart(c, d) /\ Apart(d, c)
  <2> SUFFICES ASSUME NEW c \in Tree[L], NEW d \in Tree[R]
               PROVE  Apart(c, d) /\ Apart(d, c)
    OBVIOUS
  <2>1. /\ c \in Stretches /\ d \in Stretches /\ Within(c, L) /\ Within(d, R)
    BY <1>3, <1>4
  <2> QED
    BY <2>1, Halves DEF Within, Apart
<1>10. \A c, d \in Tree[b] : c = d \/ Apart(c, d) \/ InHalf(c, d) \/ InHalf(d, c)
  <2>1. \A c, d \in Tree[L] : c = d \/ Apart(c, d) \/ InHalf(c, d) \/ InHalf(d, c)
    BY DEF WellFormed
  <2>2. \A c, d \in Tree[R] : c = d \/ Apart(c, d) \/ InHalf(c, d) \/ InHalf(d, c)
    BY DEF WellFormed
  <2> QED
    BY <1>1, <1>5, <1>9, <2>1, <2>2
<1> QED
  BY <1>1, <1>7, <1>8, <1>10 DEF WellFormed

LEMMA TreesWellFormed == \A b \in Stretches : WellFormed(b)
<1> DEFINE Bad == {n \in Nat : \E b \in Stretches : b[3] = n /\ ~ WellFormed(b)}
<1> SUFFICES ASSUME NEW b \in Stretches, ~ WellFormed(b) PROVE FALSE
  OBVIOUS
<1>1. Bad # {} /\ Bad \in SUBSET Nat
  BY Halves
<1>2. PICK n \in Bad : \A k \in Bad : n <= k
  <2> HIDE DEF Bad
  <2> QED
    BY <1>1, LeastNumber
<1>3. PICK c \in Stretches : c[3] = n /\ ~ WellFormed(c)
  BY <1>2
<1>4. ~ IsLeaf(c)
  BY <1>3, LeafWellFormed
<1>5. /\ Left(c) \in Stretches /\ Right(c) \in Stretches
      /\ Left(c)[3] \in Nat /\ Left(c)[3] < n /\ Right(c)[3] \in Nat /\ Right(c)[3] < n
  <2>1. /\ Left(c) \in Stretches /\ Right(c) \in Stretches
        /\ Left(c)[3] + Right(c)[3] = c[3] /\ Left(c)[3] > 0 /\ Right(c)[3] > 0
    BY <1>4, Halves
  <2>2. Left(c)[3] \in Nat /\ Right(c)[3] \in Nat
    BY <2>1, Halves
  <2> QED
    BY <1>3, <2>1, <2>2
<1>6. WellFormed(Left(c)) /\ WellFormed(Right(c))
  BY <1>2, <1>5
<1> QED
  BY <1>3, <1>4, <1>6, NodeWellFormed

\* Block sizes are positive.
LEMMA SizesPositive == \A i \in Turns : SizeOf[i] \in Nat \ {0}
<1> DEFINE Value(f, i) == IF i = 0 THEN BlockSize ELSE 2 * f[i - 1]
           Upto(f, n) == /\ f = [i \in Turns |-> f[i]]
                         /\ \A i \in Turns : i < n => f[i] = Value(f, i)
           Bad == {n \in Nat : ~ \E f : Upto(f, n)}
<1>1. Bad = {}
  <2> SUFFICES ASSUME Bad # {} PROVE FALSE
    OBVIOUS
  <2>1. PICK n \in Bad : \A k \in Bad : n <= k
    <3> HIDE DEF Bad
    <3>1. Bad \in SUBSET Nat
      BY DEF Bad
    <3> QED
      BY <3>1, LeastNumber
  <2>2. n \in Nat /\ ~ \E f : Upto(f, n)
    OBVIOUS
  <2>3. n # 0
    <3> DEFINE g == [i \in Turns |-> 0]
    <3>1. \A i \in Turns : ~ (i < 0)
      BY Constants
    <3>2. Upto(g, 0)
      BY <3>1
    <3> HIDE DEF g, Upto
    <3> QED
      BY <2>2, <3>2
  <2>4. n - 1 \in Nat /\ n - 1 \notin Bad
    <3> HIDE DEF Bad
    <3> QED
      BY <2>1, <2>2, <2>3
  <2>5. PICK f : Upto(f, n - 1)
    BY <2>4
  <2> DEFINE g == [i \in Turns |-> Value(f, i)]
  <2>6. ASSUME NEW i \in Turns, i < n PROVE g[i] = Value(g, i)
    <3>1. CASE i = 0
      BY <3>1
    <3>2. CASE i # 0
      <4>1. i - 1 \in Turns /\ i - 1 < n - 1
        BY <2>2, <2>6, <3>2, Constants DEF Turns
      <4>2. g[i - 1] = f[i - 1]
        BY <2>5, <4>1
      <4> QED
        BY <3>2, <4>2
    <3> QED
      BY <3>1, <3>2
  <2>7. g = [i \in Turns |-> g[i]]
    OBVIOUS
  <2>8. Upto(g, n)
    <3> HIDE DEF g, Value
    <3> QED
      BY <2>6, <2>7
  <2> HIDE DEF g, Upto
  <2> QED
    BY <2>2, <2>8
<1>2. PICK f : Upto(f, Iterations)
  BY <1>1, Constants
<1>3. f = [i \in Turns |-> IF i = 0 THEN BlockSize ELSE 2 * f[i - 1]]
  BY <1>2, Constants
<1>4. SizeOf = [i \in Turns |-> IF i = 0 THEN BlockSize ELSE 2 * SizeOf[i - 1]]
  BY <1>3, Zenon DEF SizeOf
<1> DEFINE Wrong == {i \in Turns : SizeOf[i] \notin Nat \ {0}}
<1> SUFFICES ASSUME Wrong # {} PROVE FALSE
  OBVIOUS
<1>5. PICK i \in Wrong : \A k \in Wrong : i <= k
  <2> HIDE DEF Wrong
  <2>1. Wrong \in SUBSET Nat
    BY Constants DEF Wrong
  <2> QED
    BY <2>1, LeastNumber
<1>6. i \in Turns /\ SizeOf[i] = IF i = 0 THEN BlockSize ELSE 2 * SizeOf[i - 1]
  <2>1. i \in Turns
    OBVIOUS
  <2> HIDE DEF Wrong
  <2> QED
    BY <1>4, <2>1
<1>7. i # 0 => SizeOf[i - 1] \in Nat \ {0}
  <2> HIDE DEF Wrong
  <2>1. i # 0 => i - 1 \in Turns /\ i - 1 \notin Wrong
    BY <1>5, <1>6, Constants DEF Turns
  <2> QED
    BY <2>1 DEF Wrong
<1> QED
  BY <1>6, <1>7, Constants

\* The roots of an iteration are stretches that share nothing.
LEMMA RootsApart ==
  ASSUME NEW i \in Turns
  PROVE  /\ \A r \in Roots(i) : r \in Stretches /\ r[1] = i
         /\ \A r, q \in Roots(i) : r = q \/ Apart(r, q)
<1> DEFINE S == SizeOf[i]
           Root(k) == <<i, k * S + 1, Lesser(S, Length - k * S)>>
<1>1. S \in Nat \ {0} /\ Length \in Nat /\ i \in Nat
  BY SizesPositive, Constants
<1>2. \A r \in Roots(i) : \E k \in Nat : k * S < Length /\ r = Root(k)
  BY Constants DEF Roots
<1> HIDE DEF S
<1>3. ASSUME NEW k \in Nat, k * S < Length
      PROVE  /\ Root(k) \in Stretches /\ Root(k)[1] = i
             /\ Root(k)[2] = k * S + 1 /\ k * S \in Nat
             /\ Root(k)[3] \in Nat /\ Root(k)[3] <= S
  <2>1. k * S \in Nat
    BY <1>1
  <2>2. PICK s \in Nat : s = k * S
    BY <2>1
  <2>3. PICK z \in Nat \ {0} : z = Lesser(S, Length - s) /\ z <= S /\ s + z <= Length
    <3>1. s < Length
      BY <1>3, <2>2
    <3>2. CASE S < Length - s
      BY <1>1, <2>2, <3>1, <3>2 DEF Lesser
    <3>3. CASE ~ (S < Length - s)
      BY <1>1, <2>2, <3>1, <3>3 DEF Lesser
    <3> QED
      BY <3>2, <3>3
  <2>4. s + 1 \in Positions /\ z \in Positions
    BY <1>1, <1>3, <2>2, <2>3 DEF Positions
  <2>5. <<i, s + 1, z>> \in Stretches
    BY <1>1, <2>3, <2>4 DEF Stretches
  <2> QED
    BY <2>2, <2>3, <2>5
<1>4. ASSUME NEW k \in Nat, NEW j \in Nat, k < j, k * S < Length, j * S < Length
      PROVE  Apart(Root(k), Root(j)) /\ Apart(Root(j), Root(k))
  <2>1. k * S + S <= j * S
    BY <1>1, <1>4
  <2>2. /\ Root(k)[2] = k * S + 1 /\ k * S \in Nat /\ Root(k)[3] \in Nat /\ Root(k)[3] <= S
        /\ Root(j)[2] = j * S + 1 /\ j * S \in Nat
    BY <1>3, <1>4
  <2>3. PICK s \in Nat, t \in Nat : s = k * S /\ t = j * S
    BY <2>2
  <2> HIDE DEF Root
  <2>4. Root(k)[2] + Root(k)[3] <= Root(j)[2]
    BY <1>1, <2>1, <2>2, <2>3
  <2> QED
    BY <2>4 DEF Apart
<1>5. \A r \in Roots(i) : r \in Stretches /\ r[1] = i
  BY <1>2, <1>3
<1>6. \A r, q \in Roots(i) : r = q \/ Apart(r, q)
  <2> SUFFICES ASSUME NEW r \in Roots(i), NEW q \in Roots(i) PROVE r = q \/ Apart(r, q)
    OBVIOUS
  <2>1. PICK k \in Nat : k * S < Length /\ r = Root(k)
    BY <1>2
  <2>2. PICK j \in Nat : j * S < Length /\ q = Root(j)
    BY <1>2
  <2>3. k < j \/ j < k \/ k = j
    OBVIOUS
  <2> HIDE DEF Root
  <2> QED
    BY <1>4, <2>1, <2>2, <2>3
<1> QED
  BY <1>5, <1>6

\* All blocks together.
LEMMA BlocksNest ==
  /\ \A b \in Blocks : /\ b \in Stretches
                       /\ ~ IsLeaf(b) => Left(b) \in Blocks /\ Right(b) \in Blocks
                       /\ \E r \in Roots(b[1]) : Within(b, r)
  /\ \A i \in Turns : Roots(i) \subseteq Blocks
  /\ \A c, d \in Blocks : c = d \/ Apart(c, d) \/ InHalf(c, d) \/ InHalf(d, c)
<1>1. \A b \in Blocks : \E i \in Turns : \E r \in Roots(i) : r \in Stretches /\ r[1] = i /\ b \in Tree[r]
  BY RootsApart DEF Blocks
<1>2. \A i \in Turns : \A r \in Roots(i) : Tree[r] \subseteq Blocks
  BY DEF Blocks
<1>3. ASSUME NEW b \in Blocks
      PROVE  /\ b \in Stretches
             /\ ~ IsLeaf(b) => Left(b) \in Blocks /\ Right(b) \in Blocks
             /\ \E r \in Roots(b[1]) : Within(b, r) /\ b \in Tree[r] /\ r \in Stretches
  <2>1. PICK i \in Turns : \E r \in Roots(i) : r \in Stretches /\ r[1] = i /\ b \in Tree[r]
    BY <1>1
  <2>2. PICK r \in Roots(i) : r \in Stretches /\ r[1] = i /\ b \in Tree[r]
    BY <2>1
  <2>3. WellFormed(r)
    BY <2>2, TreesWellFormed
  <2>4. /\ b \in Stretches /\ Within(b, r)
        /\ ~ IsLeaf(b) => Left(b) \in Tree[r] /\ Right(b) \in Tree[r]
    BY <2>2, <2>3 DEF WellFormed
  <2>5. b[1] = i
    BY <2>2, <2>4 DEF Within
  <2> QED
    BY <1>2, <2>2, <2>4, <2>5
<1>4. \A i \in Turns : Roots(i) \subseteq Blocks
  BY <1>2, RootsApart, TreesWellFormed DEF WellFormed
<1>5. ASSUME NEW c \in Blocks, NEW d \in Blocks
      PROVE  c = d \/ Apart(c, d) \/ InHalf(c, d) \/ InHalf(d, c)
  <2>1. PICK r \in Roots(c[1]) : Within(c, r) /\ c \in Tree[r] /\ r \in Stretches
    BY <1>3
  <2>2. PICK q \in Roots(d[1]) : Within(d, q) /\ d \in Tree[q] /\ q \in Stretches
    BY <1>3
  <2>3. CASE c[1] # d[1]
    BY <2>3 DEF Apart
  <2>4. CASE c[1] = d[1] /\ r = q
    BY <2>1, <2>2, <2>4, TreesWellFormed DEF WellFormed
  <2>5. CASE c[1] = d[1] /\ r # q
    <3>1. c \in Stretches /\ d \in Stretches /\ c[1] \in Turns
      BY <1>3, Halves
    <3>2. Apart(r, q)
      BY <2>5, <3>1, RootsApart
    <3> QED
      BY <2>1, <2>2, <2>5, <3>1, <3>2, Halves DEF Apart, Within
  <2> QED
    BY <2>3, <2>4, <2>5
<1> QED
  BY <1>3, <1>4, <1>5

LEMMA OneParent ==
  ASSUME NEW p \in Blocks, NEW q \in Blocks, ~ IsLeaf(p), ~ IsLeaf(q),
         NEW b, b \in {Left(p), Right(p)}, b \in {Left(q), Right(q)}
  PROVE  p = q
<1>1. p \in Stretches /\ q \in Stretches /\ b \in Stretches
  BY BlocksNest, Halves
<1>2. /\ InHalf(b, p) /\ InHalf(b, q)
  <2>1. Within(b, b)
    BY <1>1, Halves DEF Within
  <2> QED
    BY <2>1 DEF InHalf
<1>3. ~ Apart(p, q)
  <2>1. Within(b, p) /\ Within(b, q)
    BY <1>1, <1>2, InHalfIsWithin
  <2> QED
    BY <1>1, <2>1, Halves DEF Within, Apart
<1>4. ASSUME NEW c \in Blocks, NEW d \in Blocks, ~ IsLeaf(c), ~ IsLeaf(d), InHalf(c, d),
             c \in Stretches, d \in Stretches,
             b \in {Left(c), Right(c)}, b \in {Left(d), Right(d)}
      PROVE  FALSE
  <2>1. Within(b, c) /\ b[3] < c[3]
    BY <1>4, Halves DEF Within
  <2>2. PICK h \in {Left(d), Right(d)} : Within(c, h)
    BY <1>4 DEF InHalf
  <2> QED
    BY <1>1, <1>4, <2>1, <2>2, Halves DEF Within
<1> QED
  BY <1>1, <1>3, <1>4, BlocksNest

LEMMA Parents ==
  ASSUME NEW p \in Blocks, ~ IsLeaf(p)
  PROVE  /\ Left(p) \in Lefts /\ Right(p) \in Rights /\ Left(p) \notin Rights
         /\ Left(p) \in Blocks /\ Right(p) \in Blocks
         /\ Parent[Left(p)] = p /\ Parent[Right(p)] = p /\ Sibling(Left(p)) = Right(p)
<1>1. /\ Left(p) \in Lefts /\ Right(p) \in Rights
      /\ Left(p) \in Blocks /\ Right(p) \in Blocks /\ p \in Stretches
  BY BlocksNest DEF Lefts, Rights
<1>2. Left(p) \notin Rights
  <2> SUFFICES ASSUME NEW q \in Blocks, ~ IsLeaf(q), Left(p) = Right(q) PROVE FALSE
    BY DEF Rights
  <2>1. p = q
    BY OneParent
  <2> QED
    BY <1>1, <2>1, Halves
<1>3. ASSUME NEW b \in {Left(p), Right(p)} PROVE Parent[b] = p
  <2>1. b \in Lefts \cup Rights
    BY <1>1
  <2>2. Parent[b] = CHOOSE q \in Blocks : ~ IsLeaf(q) /\ b \in {Left(q), Right(q)}
    BY <2>1 DEF Parent
  <2>3. \A q \in Blocks : ~ IsLeaf(q) /\ b \in {Left(q), Right(q)} => q = p
    BY OneParent
  <2> QED
    BY <2>2, <2>3
<1> QED
  BY <1>1, <1>2, <1>3 DEF Sibling

LEMMA RootsHaveNoParent ==
  ASSUME NEW i \in Turns, NEW r \in Roots(i)
  PROVE  r \notin Lefts \cup Rights
<1> SUFFICES ASSUME NEW p \in Blocks, ~ IsLeaf(p), r \in {Left(p), Right(p)} PROVE FALSE
  BY DEF Lefts, Rights
<1>1. p \in Stretches /\ r \in Stretches /\ r[1] = i /\ p[1] = i
  BY BlocksNest, RootsApart, Halves
<1>2. PICK q \in Roots(i) : Within(p, q)
  BY <1>1, BlocksNest
<1>3. q \in Stretches /\ (r = q \/ Apart(r, q))
  BY RootsApart
<1> QED
  BY <1>1, <1>2, <1>3, Halves DEF Within, Apart

-----------------------------------------------------------------------------
(* Positions and parities.                                                 *)

LEMMA FiniteBlocks == IsFiniteSet(Blocks) /\ IsFiniteSet(Positions)
<1> DEFINE Triples == Turns \X (Positions \X Positions)
           f == [b \in Blocks |-> <<b[1], <<b[2], b[3]>>>>]
<1>1. IsFiniteSet(Positions) /\ IsFiniteSet(Turns)
  BY FS_Interval, Constants DEF Positions, Turns
<1>2. IsFiniteSet(Triples)
  BY <1>1, FS_Product
<1>3. \A b \in Blocks : b = <<b[1], b[2], b[3]>> /\ <<b[1], <<b[2], b[3]>>>> \in Triples
  BY BlocksNest, Halves DEF Stretches
<1>4. f \in Injection(Blocks, Triples)
  BY <1>3 DEF Injection, IsInjective
<1> QED
  BY <1>1, <1>2, <1>4, FS_Injection

LEMMA OrderInjective ==
  ASSUME order \in [Turns -> Shuffles], NEW i \in Turns
  PROVE  /\ order[i] \in [Positions -> Positions]
         /\ \A k, l \in Positions : order[i][k] = order[i][l] => k = l
<1>1. order[i] \in [Positions -> Positions] /\ {order[i][k] : k \in Positions} = Positions
  BY ShufflesAssumption
<1>2. order[i] \in Surjection(Positions, Positions)
  BY <1>1 DEF Surjection
<1>3. order[i] \in Injection(Positions, Positions)
  BY <1>2, FiniteBlocks, FS_SurjSameCardinalityImpliesInj
<1> QED
  BY <1>1, <1>3 DEF Injection, IsInjective

\* The positions of a block are those of its halves, each in one of them.
LEMMA MembersOf ==
  ASSUME order \in [Turns -> Shuffles], NEW b \in Stretches
  PROVE  /\ Members(b) \subseteq Positions /\ IsFiniteSet(Members(b))
         /\ IsLeaf(b) => \E x \in Positions : Members(b) = {x}
         /\ ~ IsLeaf(b) => /\ Members(b) = Members(Left(b)) \cup Members(Right(b))
                           /\ Members(Left(b)) \cap Members(Right(b)) = {}
<1>1. \A c \in Stretches : c[2]..(c[2] + c[3] - 1) \subseteq Positions
  BY Halves, Constants DEF Positions
<1>2. Members(b) \subseteq Positions
  BY <1>1, Halves, OrderInjective DEF Members
<1>3. IsFiniteSet(Members(b))
  BY <1>2, FiniteBlocks, FS_Subset
<1>4. ASSUME IsLeaf(b) PROVE \E x \in Positions : Members(b) = {x}
  <2>1. b[2]..(b[2] + b[3] - 1) = {b[2]} /\ b[2] \in Positions
    BY <1>1, <1>4, Halves DEF IsLeaf
  <2>2. Members(b) = {order[b[1]][b[2]]}
    BY <2>1 DEF Members
  <2> QED
    BY <2>1, <2>2, Halves, OrderInjective
<1>5. ASSUME ~ IsLeaf(b)
      PROVE  /\ Members(b) = Members(Left(b)) \cup Members(Right(b))
             /\ Members(Left(b)) \cap Members(Right(b)) = {}
  <2> DEFINE L == Left(b)
             R == Right(b)
             IL == L[2]..(L[2] + L[3] - 1)
             IR == R[2]..(R[2] + R[3] - 1)
  <2>1. /\ b[2]..(b[2] + b[3] - 1) = IL \cup IR /\ IL \cap IR = {}
        /\ L[1] = b[1] /\ R[1] = b[1] /\ L \in Stretches /\ R \in Stretches
    <3>1. L \in Stretches /\ R \in Stretches
      BY <1>5, Halves
    <3>2. L[2] \in Nat /\ L[3] \in Nat /\ R[2] \in Nat /\ R[3] \in Nat /\ b[2] \in Nat /\ b[3] \in Nat
      BY <3>1, Halves
    <3>3. L[2] = b[2] /\ R[2] = b[2] + L[3] /\ L[3] + R[3] = b[3] /\ L[1] = b[1] /\ R[1] = b[1]
      BY <1>5, Halves
    <3> HIDE DEF L, R
    <3> QED
      BY <3>1, <3>2, <3>3
  <2>2. IL \subseteq Positions /\ IR \subseteq Positions
    BY <1>1, <2>1
  <2>3. \A k, l \in Positions : order[b[1]][k] = order[b[1]][l] => k = l
    BY Halves, OrderInjective
  <2>4. /\ Members(b) = {order[b[1]][k] : k \in b[2]..(b[2] + b[3] - 1)}
        /\ Members(L) = {order[b[1]][k] : k \in IL}
        /\ Members(R) = {order[b[1]][k] : k \in IR}
    BY <2>1 DEF Members
  <2> HIDE DEF L, R, IL, IR
  <2> QED
    BY <2>1, <2>2, <2>3, <2>4 DEF L, R
<1> QED
  BY <1>2, <1>3, <1>4, <1>5

LEMMA ApartMembers ==
  ASSUME order \in [Turns -> Shuffles], NEW b \in Stretches, NEW c \in Stretches,
         b[1] = c[1], Apart(b, c)
  PROVE  Members(b) \cap Members(c) = {}
<1>1. /\ b[2]..(b[2] + b[3] - 1) \subseteq Positions /\ c[2]..(c[2] + c[3] - 1) \subseteq Positions
      /\ (b[2]..(b[2] + b[3] - 1)) \cap (c[2]..(c[2] + c[3] - 1)) = {}
  BY Halves, Constants DEF Apart, Positions
<1>2. \A k, l \in Positions : order[b[1]][k] = order[b[1]][l] => k = l
  BY Halves, OrderInjective
<1> QED
  BY <1>1, <1>2 DEF Members

LEMMA DisjointUnion ==
  ASSUME NEW A, NEW B, IsFiniteSet(A), IsFiniteSet(B), A \cap B = {}
  PROVE  /\ Cardinality(A \cup B) = Cardinality(A) + Cardinality(B)
         /\ Cardinality(A \cup B) % 2 = ((Cardinality(A) % 2) + (Cardinality(B) % 2)) % 2
<1>1. PICK m \in Nat, n \in Nat : m = Cardinality(A) /\ n = Cardinality(B)
  BY FS_CardinalityType
<1>2. Cardinality(A \cup B) = m + n
  <2>1. Cardinality(A \cup B) = Cardinality(A) + Cardinality(B) - Cardinality(A \cap B)
    BY FS_Union
  <2>2. Cardinality(A \cap B) = 0
    BY FS_EmptySet
  <2> QED
    BY <1>1, <2>1, <2>2
<1> QED
  BY <1>1, <1>2

LEMMA ParityOfHalves ==
  ASSUME order \in [Turns -> Shuffles], NEW b \in Stretches, NEW bits
  PROVE  /\ ParityOf(bits, b) \in {0, 1}
         /\ ~ IsLeaf(b) =>
              ParityOf(bits, b) = (ParityOf(bits, Left(b)) + ParityOf(bits, Right(b))) % 2
<1>1. \A c \in Stretches : /\ IsFiniteSet(bits \cap Members(c))
                           /\ Cardinality(bits \cap Members(c)) \in Nat
  BY MembersOf, FS_Intersection, FS_CardinalityType
<1>2. ASSUME ~ IsLeaf(b)
      PROVE  ParityOf(bits, b) = (ParityOf(bits, Left(b)) + ParityOf(bits, Right(b))) % 2
  <2> DEFINE A == bits \cap Members(Left(b))
             B == bits \cap Members(Right(b))
  <2>1. bits \cap Members(b) = A \cup B /\ A \cap B = {}
    BY <1>2, MembersOf
  <2>2. IsFiniteSet(A) /\ IsFiniteSet(B)
    BY <1>1, <1>2, Halves
  <2>3. /\ ParityOf(bits, b) = Cardinality(A \cup B) % 2
        /\ ParityOf(bits, Left(b)) = Cardinality(A) % 2
        /\ ParityOf(bits, Right(b)) = Cardinality(B) % 2
    BY <2>1 DEF ParityOf
  <2> HIDE DEF A, B
  <2>4. Cardinality(A \cup B) % 2 = ((Cardinality(A) % 2) + (Cardinality(B) % 2)) % 2
    BY <2>1, <2>2, DisjointUnion
  <2> QED
    BY <2>3, <2>4, Zenon
<1> QED
  BY <1>1, <1>2 DEF ParityOf

\* Sets of the same parity differ in an even number of members.
LEMMA EvenDifference ==
  ASSUME NEW A, NEW B, IsFiniteSet(A), IsFiniteSet(B),
         Cardinality(A) % 2 = Cardinality(B) % 2
  PROVE  Cardinality((A \ B) \cup (B \ A)) % 2 = 0
<1> DEFINE C == A \cap B
           D == A \ B
           E == B \ A
<1>1. IsFiniteSet(C) /\ IsFiniteSet(D) /\ IsFiniteSet(E)
  BY FS_Intersection, FS_Difference
<1>2. A = C \cup D /\ B = C \cup E /\ C \cap D = {} /\ C \cap E = {} /\ D \cap E = {}
  OBVIOUS
<1>3. PICK c \in Nat, d \in Nat, e \in Nat :
        c = Cardinality(C) /\ d = Cardinality(D) /\ e = Cardinality(E)
  BY <1>1, FS_CardinalityType
<1> HIDE DEF C, D, E
<1>4. /\ Cardinality(A) % 2 = ((c % 2) + (d % 2)) % 2
      /\ Cardinality(B) % 2 = ((c % 2) + (e % 2)) % 2
      /\ Cardinality(D \cup E) % 2 = ((d % 2) + (e % 2)) % 2
  BY <1>1, <1>2, <1>3, DisjointUnion
<1>5. ((c % 2) + (d % 2)) % 2 = ((c % 2) + (e % 2)) % 2 => ((d % 2) + (e % 2)) % 2 = 0
  OBVIOUS
<1> QED
  BY <1>4, <1>5 DEF D, E

\* Two keys with the same parity differ in an even number of positions.
LEMMA DifferencesEven ==
  ASSUME order \in [Turns -> Shuffles], NEW b \in Stretches, NEW bits, NEW others,
         ParityOf(bits, b) = ParityOf(others, b)
  PROVE  Cardinality(Differences(bits, others) \cap Members(b)) % 2 = 0
<1> DEFINE A == bits \cap Members(b)
           B == others \cap Members(b)
<1>1. IsFiniteSet(A) /\ IsFiniteSet(B)
  BY MembersOf, FS_Intersection
<1>2. Differences(bits, others) \cap Members(b) = (A \ B) \cup (B \ A)
  BY DEF Differences
<1>3. Cardinality(A) % 2 = Cardinality(B) % 2
  BY DEF ParityOf
<1> HIDE DEF A, B
<1> QED
  BY <1>1, <1>2, <1>3, EvenDifference

\* A leaf has the same parity in two keys exactly if they agree there.
LEMMA LeafParity ==
  ASSUME order \in [Turns -> Shuffles], NEW b \in Stretches, IsLeaf(b), NEW bits, NEW others
  PROVE  ParityOf(bits, b) = ParityOf(others, b) <=> Members(b) \cap Differences(bits, others) = {}
<1>1. PICK x : Members(b) = {x}
  BY MembersOf
<1>2. \A k : ParityOf(k, b) = IF x \in k THEN 1 ELSE 0
  <2> SUFFICES ASSUME NEW k PROVE ParityOf(k, b) = IF x \in k THEN 1 ELSE 0
    OBVIOUS
  <2>1. k \cap Members(b) = IF x \in k THEN {x} ELSE {}
    BY <1>1
  <2>2. Cardinality({x}) = 1 /\ Cardinality({}) = 0
    BY FS_Singleton, FS_EmptySet
  <2> QED
    BY <2>1, <2>2 DEF ParityOf
<1> QED
  BY <1>1, <1>2 DEF Differences

-----------------------------------------------------------------------------
(* The blocks get_unknown_parity_blocks finds.                             *)

LEMMA UnknownOf ==
  ASSUME NEW b \in Blocks
  PROVE  Unknown[b] = IF b \notin DOMAIN correct
                      THEN IF b \in Rights THEN {} ELSE {b}
                      ELSE IF Odd(b) /\ ~IsLeaf(b)
                           THEN Unknown[Left(b)] \cup Unknown[Right(b)]
                           ELSE {}
<1> DEFINE Body(f, c) == IF c \notin DOMAIN correct
                         THEN IF c \in Rights THEN {} ELSE {c}
                         ELSE IF Odd(c) /\ ~IsLeaf(c)
                              THEN f[Left(c)] \cup f[Right(c)]
                              ELSE {}
           Last == {c \in Blocks : ~ (c \in DOMAIN correct /\ Odd(c) /\ ~IsLeaf(c))}
           Own == [c \in Blocks |-> IF c \notin DOMAIN correct /\ c \notin Rights THEN {c} ELSE {}]
           Found == CHOOSE f : f = [c \in Blocks |-> Body(f, c)]
<1>1. \A c \in Blocks : c \in Last \/ (~ IsLeaf(c) /\ Left(c) \in Blocks /\ Right(c) \in Blocks)
  BY BlocksNest
<1>2. PICK f : Descends(f, Blocks, Last, Own)
  <2>1. Blocks \in SUBSET Stretches
    BY BlocksNest
  <2> HIDE DEF Last, Own
  <2> QED
    BY <1>1, <2>1, RecursionOnHalves
<1>3. f = [c \in Blocks |-> Body(f, c)]
  <2>1. \A c \in Blocks : (IF c \in Last THEN Own[c] ELSE Own[c] \cup f[Left(c)] \cup f[Right(c)])
                          = Body(f, c)
    BY Zenon
  <2> HIDE DEF Last, Own, Body
  <2> QED
    BY <1>2, <2>1 DEF Descends
<1>4. Found = [c \in Blocks |-> Body(Found, c)]
  <2> HIDE DEF Body
  <2> QED
    BY <1>3, Zenon
<1>5. Unknown = [c \in Blocks |-> Found[c]]
  BY Zenon DEF Unknown
<1>6. Unknown = Found
  <2> HIDE DEF Body, Found
  <2> QED
    BY <1>4, <1>5
<1>7. Unknown[b] = Body(Unknown, b)
  <2> HIDE DEF Body, Found
  <2> QED
    BY <1>4, <1>6, Zenon
<1> QED
  BY <1>7, Zenon

\* Below a block only blocks of unknown parity are found that cannot be
\* inferred, each with a known parent, and no two of them share anything.
Searched(b) ==
  /\ \A c \in Unknown[b] :
       /\ c \in Blocks /\ c \notin DOMAIN correct /\ c \notin Rights /\ Within(c, b)
       /\ c = b \/ \E p \in DOMAIN correct \cap Blocks : ~ IsLeaf(p) /\ c = Left(p)
  /\ \A c, d \in Unknown[b] : c = d \/ Apart(c, d)

LEMMA SearchedLast ==
  ASSUME NEW b \in Blocks, ~ (b \in DOMAIN correct /\ Odd(b) /\ ~IsLeaf(b))
  PROVE  Searched(b)
<1>1. Unknown[b] = {} \/ (Unknown[b] = {b} /\ b \notin DOMAIN correct /\ b \notin Rights)
  BY UnknownOf
<1>2. Within(b, b)
  BY BlocksNest, Halves DEF Within
<1> QED
  BY <1>1, <1>2 DEF Searched

LEMMA SearchedHalves ==
  ASSUME NEW b \in Blocks, b \in DOMAIN correct, Odd(b), ~IsLeaf(b),
         Searched(Left(b)), Searched(Right(b))
  PROVE  Searched(b)
<1>1. Unknown[b] = Unknown[Left(b)] \cup Unknown[Right(b)]
  BY UnknownOf
<1>2. /\ b \in Stretches /\ Left(b) \in Stretches /\ Right(b) \in Stretches
      /\ Left(b) \in Blocks /\ Right(b) \in Blocks /\ Right(b) \in Rights
  BY BlocksNest, Halves DEF Rights
<1>3. ASSUME NEW c \in Unknown[b]
      PROVE  /\ c \in Blocks /\ c \notin DOMAIN correct /\ c \notin Rights /\ Within(c, b)
             /\ c = b \/ \E p \in DOMAIN correct \cap Blocks : ~ IsLeaf(p) /\ c = Left(p)
  <2>1. c \in Blocks /\ c \notin DOMAIN correct /\ c \notin Rights
    BY <1>1 DEF Searched
  <2>2. Within(c, Left(b)) \/ Within(c, Right(b))
    BY <1>1 DEF Searched
  <2>3. Within(c, b)
    BY <1>2, <2>1, <2>2, BlocksNest, InHalfIsWithin DEF InHalf
  <2>4. \E p \in DOMAIN correct \cap Blocks : ~ IsLeaf(p) /\ c = Left(p)
    BY <1>1, <1>2, <2>1 DEF Searched
  <2> QED
    BY <2>1, <2>3, <2>4
<1>4. \A c, d \in Unknown[b] : c = d \/ Apart(c, d)
  <2>1. ASSUME NEW c \in Unknown[Left(b)], NEW d \in Unknown[Right(b)]
        PROVE  Apart(c, d) /\ Apart(d, c)
    <3>1. /\ Within(c, Left(b)) /\ Within(d, Right(b)) /\ c \in Stretches /\ d \in Stretches
      BY <2>1, BlocksNest DEF Searched
    <3> QED
      BY <1>2, <3>1, Halves DEF Within, Apart
  <2> QED
    BY <1>1, <2>1 DEF Searched
<1> QED
  BY <1>3, <1>4 DEF Searched

LEMMA AllSearched == \A b \in Blocks : Searched(b)
<1> DEFINE Bad == {n \in Nat : \E b \in Blocks : b[3] = n /\ ~ Searched(b)}
<1> SUFFICES ASSUME NEW b \in Blocks, ~ Searched(b) PROVE FALSE
  OBVIOUS
<1>1. Bad # {} /\ Bad \in SUBSET Nat
  BY BlocksNest, Halves
<1>2. PICK n \in Bad : \A k \in Bad : n <= k
  <2> HIDE DEF Bad
  <2> QED
    BY <1>1, LeastNumber
<1>3. PICK c \in Blocks : c[3] = n /\ ~ Searched(c)
  BY <1>2
<1>4. c \in DOMAIN correct /\ Odd(c) /\ ~ IsLeaf(c)
  BY <1>3, SearchedLast
<1>5. /\ Left(c) \in Blocks /\ Right(c) \in Blocks
      /\ Left(c)[3] \in Nat /\ Left(c)[3] < n /\ Right(c)[3] \in Nat /\ Right(c)[3] < n
  <2>1. /\ Left(c) \in Blocks /\ Right(c) \in Blocks /\ c \in Stretches
        /\ Left(c) \in Stretches /\ Right(c) \in Stretches
    BY <1>4, BlocksNest
  <2>2. Left(c)[3] + Right(c)[3] = c[3] /\ Left(c)[3] > 0 /\ Right(c)[3] > 0
    BY <1>4, <2>1, Halves
  <2>3. Left(c)[3] \in Nat /\ Right(c)[3] \in Nat
    BY <2>1, Halves
  <2> QED
    BY <1>3, <2>1, <2>2, <2>3
<1>6. Searched(Left(c)) /\ Searched(Right(c))
  BY <1>2, <1>5
<1> QED
  BY <1>3, <1>4, <1>6, SearchedHalves

-----------------------------------------------------------------------------
(* The inductive invariant.                                                *)

\* Known parities: both halves of a block become known together, after it.
Structure ==
  \A p \in Blocks : ~ IsLeaf(p) =>
    /\ Left(p) \in DOMAIN correct <=> Right(p) \in DOMAIN correct
    /\ Left(p) \in DOMAIN correct => p \in DOMAIN correct

\* A leaf whose parity is known has been corrected, and stays so.
LeavesRight ==
  \A b \in DOMAIN correct : IsLeaf(b) => Members(b) \cap Errors = {}

\* A request is for unknown parities that cannot be inferred, of blocks of
\* one iteration that share nothing; what is asked of a half is asked of
\* the left one, and its block is known.
Request ==
  /\ asked # {} => leaked /\ outcome = "running"
  /\ \A b \in asked :
       /\ b \notin DOMAIN correct /\ b \notin Rights /\ b[1] = iteration
       /\ b \in Lefts => Parent[b] \in DOMAIN correct
  /\ \A b, c \in asked : b = c \/ Apart(b, c)

Settled(i) == \A r \in Roots(i) : r \in DOMAIN correct /\ ~ Odd(r)

\* While nothing is learnt, what lies behind a forward sweep is settled.
Sweeping ==
  /\ iteration <= limit
  /\ heading = "forward" /\ ~leaked => \A i \in Turns : i < iteration => Settled(i)
  /\ outcome = "done" => \A i \in Turns : Settled(i)

IInv == TypeOK /\ ParitiesTrue /\ LeakExact /\ Structure /\ LeavesRight /\ Request /\ Sweeping

\* A known block under which nothing is left to ask has the right parity.
LEMMA NothingFoundMeansEven ==
  ASSUME TypeOK, ParitiesTrue, Structure, LeavesRight
  PROVE  \A b \in Blocks : b \in DOMAIN correct /\ Unknown[b] = {} => ~ Odd(b)
<1> DEFINE Wrong(b) == b \in DOMAIN correct /\ Unknown[b] = {} /\ Odd(b)
           Bad == {n \in Nat : \E b \in Blocks : b[3] = n /\ Wrong(b)}
<1> SUFFICES ASSUME NEW b \in Blocks, Wrong(b) PROVE FALSE
  OBVIOUS
<1>0. order \in [Turns -> Shuffles]
  BY DEF TypeOK
<1>1. Bad # {} /\ Bad \in SUBSET Nat
  <2>1. b[3] \in Nat
    BY BlocksNest, Halves
  <2> HIDE DEF Wrong
  <2> QED
    BY <2>1
<1>2. PICK n \in Bad : \A k \in Bad : n <= k
  <2> HIDE DEF Bad
  <2> QED
    BY <1>1, LeastNumber
<1>3. PICK c \in Blocks : c[3] = n /\ Wrong(c)
  <2> HIDE DEF Wrong
  <2> QED
    BY <1>2
<1>4. c \in Stretches
  BY BlocksNest
<1>5. ~ IsLeaf(c)
  <2> SUFFICES ASSUME IsLeaf(c) PROVE FALSE
    OBVIOUS
  <2>1. Members(c) \cap Differences(key, reference) = {}
    BY <1>3 DEF LeavesRight, Errors
  <2>2. ParityOf(key, c) = ParityOf(reference, c)
    BY <1>0, <1>4, <2>1, LeafParity
  <2> QED
    BY <1>3, <2>2 DEF ParitiesTrue, Odd
<1>6. /\ Left(c) \in Blocks /\ Right(c) \in Blocks
      /\ Left(c) \in Stretches /\ Right(c) \in Stretches
      /\ Left(c)[3] \in Nat /\ Left(c)[3] < n /\ Right(c)[3] \in Nat /\ Right(c)[3] < n
  <2>1. Left(c) \in Blocks /\ Right(c) \in Blocks /\ Left(c) \in Stretches /\ Right(c) \in Stretches
    BY <1>5, BlocksNest
  <2>2. Left(c)[3] + Right(c)[3] = c[3] /\ Left(c)[3] > 0 /\ Right(c)[3] > 0
    BY <1>4, <1>5, Halves
  <2>3. Left(c)[3] \in Nat /\ Right(c)[3] \in Nat
    BY <2>1, Halves
  <2> QED
    BY <1>3, <2>1, <2>2, <2>3
<1>7. Unknown[Left(c)] = {} /\ Unknown[Right(c)] = {}
  BY <1>3, <1>5, UnknownOf
<1>8. Left(c) \in DOMAIN correct /\ Right(c) \in DOMAIN correct
  <2>1. Left(c) \notin Rights
    BY <1>5, Parents
  <2>2. Left(c) \in DOMAIN correct
    BY <1>6, <1>7, <2>1, UnknownOf
  <2> QED
    BY <1>5, <2>2 DEF Structure
<1>9. ~ Odd(Left(c)) /\ ~ Odd(Right(c))
  BY <1>2, <1>6, <1>7, <1>8
<1>10. /\ ParityOf(key, Left(c)) = ParityOf(reference, Left(c))
       /\ ParityOf(key, Right(c)) = ParityOf(reference, Right(c))
  BY <1>8, <1>9 DEF ParitiesTrue, Odd
<1>11. ParityOf(key, c) = ParityOf(reference, c)
  BY <1>0, <1>4, <1>5, <1>10, ParityOfHalves
<1> QED
  BY <1>3, <1>11 DEF ParitiesTrue, Odd

LEMMA NothingLeftMeansSettled ==
  ASSUME TypeOK, ParitiesTrue, Structure, LeavesRight, UnknownParityBlocks = {}
  PROVE  Settled(iteration)
<1> SUFFICES ASSUME NEW r \in Roots(iteration) PROVE r \in DOMAIN correct /\ ~ Odd(r)
  BY DEF Settled
<1>1. iteration \in Turns /\ r \in Blocks /\ r \notin Rights
  BY BlocksNest, RootsHaveNoParent DEF TypeOK
<1>2. Unknown[r] = {}
  BY DEF UnknownParityBlocks
<1>3. r \in DOMAIN correct
  BY <1>1, <1>2, UnknownOf
<1> QED
  BY <1>1, <1>2, <1>3, NothingFoundMeansEven

LEMMA InitInv == Init => IInv
<1> SUFFICES ASSUME Init PROVE IInv
  OBVIOUS
<1> USE DEF Init
<1>1. DOMAIN correct = {}
  OBVIOUS
<1>2. 0 \in Turns
  BY Constants DEF Turns
<1>3. TypeOK
  BY <1>1, <1>2, ReferencesAssumption DEF TypeOK
<1>4. LeakExact
  BY <1>1, FS_EmptySet DEF LeakExact
<1>5. ParitiesTrue /\ Structure /\ LeavesRight
  BY <1>1 DEF ParitiesTrue, Structure, LeavesRight
<1>6. Request /\ Sweeping
  BY Constants DEF Request, Sweeping
<1> QED
  BY <1>3, <1>4, <1>5, <1>6 DEF IInv

LEMMA AskedOf ==
  ASSUME TypeOK, NEW b \in UnknownParityBlocks
  PROVE  /\ b \in Blocks /\ b \notin DOMAIN correct /\ b \notin Rights /\ b[1] = iteration
         /\ b \in Lefts => Parent[b] \in DOMAIN correct
<1>1. iteration \in Turns
  BY DEF TypeOK
<1>2. PICK r \in Roots(iteration) : b \in Unknown[r]
  BY DEF UnknownParityBlocks
<1>3. r \in Blocks /\ r[1] = iteration /\ r \notin Lefts
  BY <1>1, BlocksNest, RootsApart, RootsHaveNoParent
<1>4. /\ b \in Blocks /\ b \notin DOMAIN correct /\ b \notin Rights /\ Within(b, r)
      /\ b = r \/ \E p \in DOMAIN correct \cap Blocks : ~ IsLeaf(p) /\ b = Left(p)
  BY <1>2, <1>3, AllSearched DEF Searched
<1>5. b \in Lefts => Parent[b] \in DOMAIN correct
  BY <1>3, <1>4, Parents
<1> QED
  BY <1>3, <1>4, <1>5 DEF Within

LEMMA AskedApart ==
  ASSUME TypeOK, NEW b \in UnknownParityBlocks, NEW c \in UnknownParityBlocks
  PROVE  b = c \/ Apart(b, c)
<1>1. iteration \in Turns
  BY DEF TypeOK
<1>2. PICK r \in Roots(iteration) : b \in Unknown[r]
  BY DEF UnknownParityBlocks
<1>3. PICK q \in Roots(iteration) : c \in Unknown[q]
  BY DEF UnknownParityBlocks
<1>4. r \in Blocks /\ q \in Blocks /\ r \in Stretches /\ q \in Stretches /\ (r = q \/ Apart(r, q))
  BY <1>1, BlocksNest, RootsApart
<1>5. CASE r = q
  BY <1>2, <1>3, <1>4, <1>5, AllSearched DEF Searched
<1>6. CASE Apart(r, q)
  <2>1. Within(b, r) /\ Within(c, q) /\ b \in Stretches /\ c \in Stretches
    BY <1>2, <1>3, <1>4, AllSearched, BlocksNest DEF Searched
  <2> QED
    BY <1>4, <1>6, <2>1, Halves DEF Within, Apart
<1> QED
  BY <1>4, <1>5, <1>6

LEMMA AskInv == IInv /\ Ask => IInv'
<1> SUFFICES ASSUME IInv, Ask PROVE IInv'
  OBVIOUS
<1> USE DEF IInv
<1>1. /\ asked' = UnknownParityBlocks /\ leaked' = TRUE /\ outcome = "running"
      /\ UNCHANGED <<order, reference, key, correct, iteration, heading, limit,
                     leakedBits, outcome>>
  BY DEF Ask, Looking
<1>2. PICK Q : Q = UnknownParityBlocks
  OBVIOUS
<1>3. \A b \in Q : /\ b \in Blocks /\ b \notin DOMAIN correct /\ b \notin Rights /\ b[1] = iteration
                   /\ b \in Lefts => Parent[b] \in DOMAIN correct
  BY <1>2, AskedOf
<1>4. \A b, c \in Q : b = c \/ Apart(b, c)
  BY <1>2, AskedApart
<1>5. asked' = Q
  BY <1>1, <1>2
<1>6. TypeOK'
  BY <1>1, <1>3, <1>5 DEF TypeOK
<1>7. Request'
  BY <1>1, <1>3, <1>4, <1>5 DEF Request
<1>8. (ParitiesTrue /\ LeakExact /\ Structure)'
  BY <1>1 DEF ParitiesTrue, ParityOf, Members, LeakExact, Structure
<1>9. LeavesRight'
  BY <1>1 DEF LeavesRight, Members, Errors, Differences
<1>10. Sweeping'
  BY <1>1 DEF Sweeping, Settled, Odd, ParityOf, Members
<1> QED
  BY <1>6, <1>7, <1>8, <1>9, <1>10

LEMMA SweepInv == IInv /\ Sweep => IInv'
<1> SUFFICES ASSUME IInv, Sweep PROVE IInv'
  OBVIOUS
<1> USE DEF IInv
<1>1. /\ outcome = "running" /\ asked = {}
      /\ UNCHANGED <<order, reference, key, correct, asked, leakedBits>>
      /\ Backward \/ Finish \/ TurnBack \/ Extend \/ Forward
  BY DEF Sweep, Looking
<1>2. Settled(iteration)
  BY NothingLeftMeansSettled DEF Sweep
<1>3. \A i \in Turns : Settled(i)' <=> Settled(i)
  BY <1>1 DEF Settled, Odd, ParityOf, Members
<1>4. (ParitiesTrue /\ LeakExact /\ Structure)'
  BY <1>1 DEF ParitiesTrue, ParityOf, Members, LeakExact, Structure
<1>5. LeavesRight'
  BY <1>1 DEF LeavesRight, Members, Errors, Differences
<1>6. Request'
  BY <1>1 DEF Request
<1>7. /\ iteration \in Turns /\ limit \in Turns /\ iteration <= limit
      /\ iteration \in Nat /\ limit \in Nat /\ iteration < Iterations /\ limit < Iterations
      /\ Iterations \in Nat /\ leaked \in BOOLEAN /\ heading \in {"forward", "backward"}
      /\ \A i \in Nat : i < Iterations => i \in Turns
  BY Constants DEF TypeOK, Sweeping, Turns
<1>8. heading = "forward" /\ ~leaked => \A i \in Turns : i <= iteration => Settled(i)
  <2> SUFFICES ASSUME heading = "forward", ~leaked, NEW i \in Turns, i <= iteration
               PROVE  Settled(i)
    OBVIOUS
  <2>1. i < iteration \/ i = iteration
    BY <1>7, Constants
  <2> QED
    BY <1>2, <2>1 DEF Sweeping
<1>9. /\ iteration' \in Turns /\ limit' \in Turns /\ iteration' <= limit'
      /\ leaked' \in BOOLEAN /\ heading' \in {"forward", "backward"}
      /\ outcome' \in {"running", "done"}
      /\ heading' = "forward" /\ ~leaked' => \A i \in Turns : i < iteration' => Settled(i)
      /\ outcome' = "done" => \A i \in Turns : Settled(i)
  <2>1. CASE Backward
    <3>1. CASE iteration > 0
      BY <1>1, <1>7, <2>1, <3>1 DEF Backward
    <3>2. CASE ~ (iteration > 0)
      <4>1. iteration = 0
        BY <1>7, <3>2
      <4>2. iteration' = Lesser(1, limit) /\ limit' = limit /\ heading' = "forward"
            /\ leaked' = leaked /\ outcome' = outcome
        BY <2>1, <4>1 DEF Backward
      <4>3. iteration' \in Nat /\ iteration' <= limit /\ iteration' <= 1
        BY <1>7, <4>2 DEF Lesser
      <4>4. \A i \in Turns : i < iteration' => Settled(i)
        BY <1>2, <4>1, <4>3, Constants
      <4> QED
        BY <1>1, <1>7, <4>2, <4>3, <4>4
    <3> QED
      BY <3>1, <3>2
  <2>2. CASE Finish
    <3>1. \A i \in Turns : i <= iteration
      BY <1>7, <2>2, Constants DEF Finish, AtLast
    <3> QED
      BY <1>1, <1>7, <1>8, <2>2, <3>1, Constants DEF Finish
  <2>3. CASE TurnBack
    <3>1. /\ iteration' = IF iteration > 0 THEN iteration - 1 ELSE 0
          /\ heading' = "backward" /\ leaked' = FALSE /\ limit' = limit /\ outcome' = outcome
      BY <2>3 DEF TurnBack
    <3>2. iteration' \in Nat /\ iteration' <= iteration
      BY <1>7, <3>1
    <3>3. iteration' \in Turns /\ limit' \in Turns /\ iteration' <= limit'
      BY <1>7, <3>1, <3>2
    <3>4. outcome' = "running"
      BY <1>1, <3>1
    <3> QED
      BY <3>1, <3>3, <3>4
  <2>4. CASE Extend
    <3>1. /\ iteration = limit /\ iteration + 1 # Iterations /\ ~leaked /\ heading = "forward"
          /\ iteration' = iteration + 1 /\ limit' = Lesser(limit + 1, Iterations)
          /\ heading' = heading /\ leaked' = leaked /\ outcome' = outcome
      BY <2>4 DEF Extend, AtLast
    <3>2. limit' = limit + 1 /\ iteration' \in Turns
      BY <1>7, <3>1 DEF Lesser
    <3>3. \A i \in Turns : i < iteration' => Settled(i)
      BY <1>7, <1>8, <3>1, Constants
    <3> QED
      BY <1>1, <1>7, <3>1, <3>2, <3>3
  <2>5. CASE Forward
    <3>1. /\ iteration # limit /\ iteration' = iteration + 1 /\ limit' = limit
          /\ heading = "forward" /\ heading' = heading /\ leaked' = leaked /\ outcome' = outcome
      BY <2>5 DEF Forward
    <3>2. iteration' \in Turns /\ iteration' <= limit'
      BY <1>7, <3>1
    <3>3. ~leaked => \A i \in Turns : i < iteration' => Settled(i)
      BY <1>7, <1>8, <3>1, Constants
    <3> QED
      BY <1>1, <1>7, <3>1, <3>2, <3>3
  <2> QED
    BY <1>1, <2>1, <2>2, <2>3, <2>4, <2>5
<1>10. TypeOK'
  BY <1>1, <1>9 DEF TypeOK
<1>11. Sweeping'
  BY <1>3, <1>9 DEF Sweeping
<1> QED
  BY <1>4, <1>5, <1>6, <1>10, <1>11

-----------------------------------------------------------------------------
(* An answer.                                                              *)

Siblings == {Sibling(l) : l \in asked \cap Lefts}
Learnt == asked \cup Siblings
Wrongs == {b \in Learnt : IsLeaf(b) /\ ParityOf(reference, b) # ParityOf(key, b)}
Fixed == UNION {Members(b) : b \in Wrongs}

\* The half that is asked and the half that is inferred.
LEMMA AskedHalves ==
  ASSUME TypeOK, Request
  PROVE  /\ \A l \in asked \cap Lefts :
              \E p \in Blocks : /\ ~ IsLeaf(p) /\ p = Parent[l] /\ p \in DOMAIN correct
                                /\ l = Left(p) /\ Sibling(l) = Right(p)
                                /\ Parent[Sibling(l)] = p /\ Sibling(l) \in Blocks \cap Rights
         /\ \A p \in Blocks : ~ IsLeaf(p) => (Left(p) \in Learnt <=> Right(p) \in Learnt)
         /\ \A p \in Blocks : ~ IsLeaf(p) /\ Left(p) \in Learnt => p \in DOMAIN correct
         /\ Learnt \subseteq Blocks /\ Siblings \subseteq Rights
<1>1. ASSUME NEW l \in asked \cap Lefts
      PROVE  \E p \in Blocks : /\ ~ IsLeaf(p) /\ p = Parent[l] /\ p \in DOMAIN correct
                               /\ l = Left(p) /\ Sibling(l) = Right(p)
                               /\ Parent[Sibling(l)] = p /\ Sibling(l) \in Blocks \cap Rights
  <2>1. PICK p \in Blocks : ~ IsLeaf(p) /\ l = Left(p)
    BY DEF Lefts
  <2>2. p = Parent[l] /\ Sibling(l) = Right(p) /\ Parent[Right(p)] = p /\ Right(p) \in Blocks \cap Rights
    BY <2>1, Parents
  <2>3. p \in DOMAIN correct
    BY <2>2 DEF Request
  <2> QED
    BY <2>1, <2>2, <2>3
<1>2. Learnt \subseteq Blocks /\ Siblings \subseteq Rights
  BY <1>1 DEF Learnt, Siblings, TypeOK
<1>3. ASSUME NEW p \in Blocks, ~ IsLeaf(p)
      PROVE  /\ Left(p) \in Learnt => /\ Left(p) \in asked \cap Lefts /\ p \in DOMAIN correct
                                      /\ Right(p) \in Learnt
             /\ Right(p) \in Learnt => Left(p) \in Learnt
  <2>1. /\ Left(p) \in Lefts /\ Right(p) \in Rights /\ Left(p) \notin Rights
        /\ Parent[Left(p)] = p /\ Sibling(Left(p)) = Right(p)
    BY <1>3, Parents
  <2>2. Left(p) \in Learnt => Left(p) \in asked
    BY <1>2, <2>1 DEF Learnt
  <2>3. Left(p) \in asked => p \in DOMAIN correct /\ Right(p) \in Learnt
    <3>1. Left(p) \in asked => Sibling(Left(p)) \in Siblings
      BY <2>1 DEF Siblings
    <3> QED
      BY <2>1, <3>1 DEF Request, Learnt
  <2>4. ASSUME Right(p) \in Learnt PROVE Left(p) \in Learnt
    <3>1. Right(p) \notin asked
      BY <2>1 DEF Request
    <3>2. PICK l \in asked \cap Lefts : Right(p) = Sibling(l)
      BY <2>4, <3>1 DEF Learnt, Siblings
    <3>3. PICK q \in Blocks : ~ IsLeaf(q) /\ l = Left(q) /\ Sibling(l) = Right(q)
      BY <1>1
    <3>4. p = q
      BY <1>3, <3>2, <3>3, OneParent
    <3> QED
      BY <3>3, <3>4 DEF Learnt
  <2> QED
    BY <2>1, <2>2, <2>3, <2>4
<1> QED
  BY <1>1, <1>2, <1>3

\* What update learns is true, whether told or inferred.
LEMMA UpdateLearns ==
  ASSUME TypeOK, ParitiesTrue, Request, Update
  PROVE  /\ correct' = [b \in DOMAIN correct \cup Learnt |-> ParityOf(reference, b)]
         /\ key' = Differences(key, Fixed)
<1> DEFINE learnt == [b \in asked \cup DOMAIN Inferred |->
                        IF b \in asked THEN ParityOf(reference, b) ELSE Inferred[b]]
<1>0. order \in [Turns -> Shuffles]
  BY DEF TypeOK
<1>1. DOMAIN Inferred = Siblings
  <2>1. {l \in asked \cap Lefts : Parent[l] \in DOMAIN correct} = asked \cap Lefts
    BY DEF Request
  <2> QED
    BY <2>1 DEF Inferred, Siblings
<1>2. ASSUME NEW b \in Siblings PROVE Inferred[b] = ParityOf(reference, b)
  <2>1. PICK l \in asked \cap Lefts : b = Sibling(l)
    BY DEF Siblings
  <2>2. PICK p \in Blocks : /\ ~ IsLeaf(p) /\ p \in DOMAIN correct
                            /\ l = Left(p) /\ b = Right(p) /\ Parent[b] = p
    BY <2>1, AskedHalves
  <2>3. Inferred[b] = (correct[Parent[b]] + ParityOf(reference, Left(Parent[b]))) % 2
    BY <1>1 DEF Inferred
  <2>4. correct[p] = ParityOf(reference, p)
    BY <2>2 DEF ParitiesTrue
  <2>5. p \in Stretches /\ Left(p) \in Stretches /\ Right(p) \in Stretches
    BY <2>2, BlocksNest, Halves
  <2>6. /\ ParityOf(reference, p) = (ParityOf(reference, Left(p)) + ParityOf(reference, Right(p))) % 2
        /\ ParityOf(reference, Left(p)) \in {0, 1} /\ ParityOf(reference, Right(p)) \in {0, 1}
    BY <1>0, <2>2, <2>5, ParityOfHalves
  <2>7. \A x, y \in {0, 1} : (((x + y) % 2) + x) % 2 = y
    OBVIOUS
  <2> QED
    BY <2>2, <2>3, <2>4, <2>6, <2>7
<1>3. learnt = [b \in Learnt |-> ParityOf(reference, b)]
  BY <1>1, <1>2 DEF Learnt
<1>4. /\ correct' = [b \in DOMAIN correct \cup DOMAIN learnt |->
                       IF b \in DOMAIN learnt THEN learnt[b] ELSE correct[b]]
      /\ key' = Differences(key, Flipped(learnt))
  BY DEF Update
<1> HIDE DEF learnt
<1>5. Flipped(learnt) = Fixed
  BY <1>3 DEF Flipped, Fixed, Wrongs
<1> QED
  BY <1>3, <1>4, <1>5 DEF ParitiesTrue

\* Update flips only wrong bits, and every wrong leaf it learns of.
LEMMA UpdateCorrects ==
  ASSUME TypeOK, ParitiesTrue, Request, Update
  PROVE  /\ Fixed \subseteq Errors /\ Fixed \subseteq Positions
         /\ Errors' = Errors \ Fixed
         /\ \A b \in Learnt : IsLeaf(b) => Members(b) \cap (Errors \ Fixed) = {}
<1>0. order \in [Turns -> Shuffles] /\ Learnt \subseteq Blocks
  BY AskedHalves DEF TypeOK
<1>1. \A b \in Learnt : IsLeaf(b) =>
        /\ \E x : Members(b) = {x}
        /\ Members(b) \subseteq Positions
        /\ ParityOf(key, b) = ParityOf(reference, b) <=> Members(b) \cap Errors = {}
  BY <1>0, BlocksNest, MembersOf, LeafParity DEF Errors
<1>2. Fixed \subseteq Errors /\ Fixed \subseteq Positions
  BY <1>1 DEF Fixed, Wrongs
<1>3. Errors' = Errors \ Fixed
  <2>1. reference' = reference
    BY DEF Update
  <2>2. key' = Differences(key, Fixed)
    BY UpdateLearns
  <2> QED
    BY <1>2, <2>1, <2>2 DEF Errors, Differences
<1>4. ASSUME NEW b \in Learnt, IsLeaf(b) PROVE Members(b) \cap (Errors \ Fixed) = {}
  <2>1. CASE ParityOf(key, b) = ParityOf(reference, b)
    BY <1>1, <1>4, <2>1
  <2>2. CASE ParityOf(key, b) # ParityOf(reference, b)
    <3>1. b \in Wrongs
      BY <1>4, <2>2 DEF Wrongs
    <3> QED
      BY <3>1 DEF Fixed
  <2> QED
    BY <2>1, <2>2
<1> QED
  BY <1>2, <1>3, <1>4

LEMMA UpdateInv == IInv /\ Update => IInv'
<1> SUFFICES ASSUME IInv, Update PROVE IInv'
  OBVIOUS
<1> USE DEF IInv
<1>1. /\ asked # {} /\ asked' = {}
      /\ leakedBits' = leakedBits + Cardinality(asked)
      /\ UNCHANGED <<order, reference, iteration, heading, limit, leaked, outcome>>
  BY DEF Update
<1>2. /\ correct' = [b \in DOMAIN correct \cup Learnt |-> ParityOf(reference, b)]
      /\ key' = Differences(key, Fixed)
      /\ Fixed \subseteq Positions /\ Errors' = Errors \ Fixed
      /\ \A b \in Learnt : IsLeaf(b) => Members(b) \cap (Errors \ Fixed) = {}
  BY UpdateLearns, UpdateCorrects
<1>3. PICK D : D = DOMAIN correct \cup Learnt
  OBVIOUS
<1>4. /\ DOMAIN correct' = D /\ D \subseteq Blocks
      /\ \A b \in D : correct'[b] = ParityOf(reference, b)
  BY <1>2, <1>3, AskedHalves DEF TypeOK
<1>5. \A b \in Blocks : ParityOf(reference, b) \in {0, 1} /\ ParityOf(reference, b)' = ParityOf(reference, b)
  <2>1. \A b \in Blocks : ParityOf(reference, b) \in {0, 1}
    BY BlocksNest, ParityOfHalves DEF TypeOK
  <2> QED
    BY <1>1, <2>1 DEF ParityOf, Members
<1>6. IsFiniteSet(asked) /\ IsFiniteSet(DOMAIN correct \ Rights)
  <2>1. asked \subseteq Blocks /\ DOMAIN correct \ Rights \subseteq Blocks
    BY DEF TypeOK
  <2> QED
    BY <2>1, FiniteBlocks, FS_Subset
<1>7. TypeOK'
  <2>1. key' \subseteq Positions
    BY <1>2 DEF TypeOK, Differences
  <2>2. leakedBits' \in Nat
    BY <1>1, <1>6, FS_CardinalityType DEF TypeOK
  <2>3. DOMAIN correct' \subseteq Blocks /\ \A b \in DOMAIN correct' : correct'[b] \in {0, 1}
    BY <1>4, <1>5
  <2> QED
    BY <1>1, <2>1, <2>2, <2>3 DEF TypeOK
<1>8. ParitiesTrue'
  BY <1>4, <1>5 DEF ParitiesTrue
<1>9. LeakExact'
  <2>1. DOMAIN correct' \ Rights = (DOMAIN correct \ Rights) \cup asked
    BY <1>3, <1>4, AskedHalves DEF Learnt, Request
  <2>2. (DOMAIN correct \ Rights) \cap asked = {}
    BY DEF Request
  <2>3. PICK m \in Nat, n \in Nat : m = Cardinality(DOMAIN correct \ Rights) /\ n = Cardinality(asked)
    BY <1>6, FS_CardinalityType
  <2>4. Cardinality((DOMAIN correct \ Rights) \cup asked) = m + n
    <3> DEFINE A == DOMAIN correct \ Rights
    <3> HIDE DEF A
    <3>1. IsFiniteSet(A) /\ A \cap asked = {} /\ m = Cardinality(A)
      BY <1>6, <2>2, <2>3 DEF A
    <3>2. Cardinality(A \cup asked) = m + n
      BY <1>6, <2>3, <3>1, DisjointUnion
    <3> QED
      BY <3>2 DEF A
  <2> QED
    BY <1>1, <2>1, <2>3, <2>4 DEF LeakExact
<1>10. Structure'
  <2> SUFFICES ASSUME NEW p \in Blocks, ~ IsLeaf(p)
               PROVE  /\ Left(p) \in D <=> Right(p) \in D
                      /\ Left(p) \in D => p \in D
    BY <1>4 DEF Structure
  <2> QED
    BY <1>3, AskedHalves DEF Structure
<1>11. LeavesRight'
  <2> SUFFICES ASSUME NEW b \in D, IsLeaf(b) PROVE Members(b) \cap (Errors \ Fixed) = {}
    BY <1>1, <1>2, <1>4 DEF LeavesRight, Members
  <2> QED
    BY <1>2, <1>3 DEF LeavesRight
<1>12. Request'
  BY <1>1 DEF Request
<1>13. Sweeping'
  BY <1>1 DEF Sweeping, Request
<1> QED
  BY <1>7, <1>8, <1>9, <1>10, <1>11, <1>12, <1>13

LEMMA NextInv == IInv /\ [Next]_vars => IInv'
<1> SUFFICES ASSUME IInv, [Next]_vars PROVE IInv'
  OBVIOUS
<1>1. CASE Ask
  BY <1>1, AskInv
<1>2. CASE Sweep
  BY <1>2, SweepInv
<1>3. CASE Update
  BY <1>3, UpdateInv
<1>4. CASE UpdateRefused
  <2>1. /\ asked # {} /\ asked' = {} /\ outcome' = "refused"
        /\ UNCHANGED <<order, reference, key, correct, iteration, heading, limit,
                       leaked, leakedBits>>
    BY <1>4 DEF UpdateRefused
  <2>2. (TypeOK /\ Request)'
    BY <2>1 DEF IInv, TypeOK, Request
  <2>3. (ParitiesTrue /\ LeakExact /\ Structure)'
    BY <2>1 DEF IInv, ParitiesTrue, ParityOf, Members, LeakExact, Structure
  <2>4. LeavesRight'
    BY <2>1 DEF IInv, LeavesRight, Members, Errors, Differences
  <2>5. Sweeping'
    BY <2>1 DEF IInv, Sweeping, Request
  <2> QED
    BY <2>2, <2>3, <2>4, <2>5 DEF IInv
<1>5. CASE UNCHANGED vars
  <2> USE <1>5 DEF vars, IInv
  <2>1. (TypeOK /\ Request)'
    BY DEF TypeOK, Request
  <2>2. (ParitiesTrue /\ LeakExact /\ Structure)'
    BY DEF ParitiesTrue, ParityOf, Members, LeakExact, Structure
  <2>3. LeavesRight'
    BY DEF LeavesRight, Members, Errors, Differences
  <2>4. Sweeping'
    <3>1. \A i \in Turns : Settled(i)' <=> Settled(i)
      BY DEF Settled, Odd, ParityOf, Members
    <3> QED
      BY <3>1 DEF Sweeping
  <2> QED
    BY <2>1, <2>2, <2>3, <2>4
<1> QED
  BY <1>1, <1>2, <1>3, <1>4, <1>5 DEF Next

LEMMA AlwaysInv == Spec => []IInv
<1>1. Init => IInv
  BY InitInv
<1>2. IInv /\ [Next]_vars => IInv'
  BY NextInv
<1> QED
  BY <1>1, <1>2, PTL DEF Spec

-----------------------------------------------------------------------------
(* The theorems.                                                           *)

\* Every variable has its type and the sweeps never leave the iterations,
\* whatever the number of iterations.
THEOREM CascadeTypeCorrect == Spec => []TypeOK
<1>1. IInv => TypeOK
  BY DEF IInv
<1> QED
  BY <1>1, AlwaysInv, PTL

\* Every parity update stores, told or inferred from the parent, is that of
\* the follower's key.
THEOREM ParitiesAlwaysTrue == Spec => []ParitiesTrue
<1>1. IInv => ParitiesTrue
  BY DEF IInv
<1> QED
  BY <1>1, AlwaysInv, PTL

\* leaked_bits is the number of parities told that nothing known implied.
THEOREM LeakIsExact == Spec => []LeakExact
<1>1. IInv => LeakExact
  BY DEF IInv
<1> QED
  BY <1>1, AlwaysInv, PTL

\* The blocks get_unknown_parity_blocks collects for a request never share a
\* position.
THEOREM RequestsDisjoint == Spec => []AskedDisjoint
<1>1. IInv => AskedDisjoint
  <2> SUFFICES ASSUME IInv, NEW b \in asked, NEW c \in asked, b # c
               PROVE  Members(b) \cap Members(c) = {}
    BY DEF AskedDisjoint
  <2>1. b \in Stretches /\ c \in Stretches /\ order \in [Turns -> Shuffles]
    BY BlocksNest DEF IInv, TypeOK
  <2>2. b[1] = c[1] /\ Apart(b, c)
    BY DEF IInv, Request
  <2> QED
    BY <2>1, <2>2, ApartMembers
<1> QED
  BY <1>1, AlwaysInv, PTL

\* When step returns that it is finished, every block of every iteration
\* holds an even number of errors.
THEOREM NothingOddRemains == Spec => []ResidualEven
<1>1. IInv => ResidualEven
  <2> SUFFICES ASSUME IInv, outcome = "done", NEW i \in Turns, NEW b \in Roots(i)
               PROVE  Cardinality(Errors \cap Members(b)) % 2 = 0
    BY DEF ResidualEven
  <2>1. b \in Stretches /\ order \in [Turns -> Shuffles]
    BY RootsApart DEF IInv, TypeOK
  <2>2. ParityOf(key, b) = ParityOf(reference, b)
    BY DEF IInv, Sweeping, Settled, Odd, ParitiesTrue
  <2> QED
    BY <2>1, <2>2, DifferencesEven DEF Errors
<1> QED
  BY <1>1, AlwaysInv, PTL

\* No step of step or update makes a right bit wrong.
THEOREM NoNewErrors == Spec => ErrorsOnlyShrink
<1>1. IInv /\ [Next]_vars => [Errors' \subseteq Errors]_vars
  <2> SUFFICES ASSUME IInv, [Next]_vars PROVE Errors' \subseteq Errors
    OBVIOUS
  <2>1. CASE Update
    BY <2>1, UpdateCorrects DEF IInv
  <2>2. CASE key' = key /\ reference' = reference
    BY <2>2 DEF Errors, Differences
  <2> QED
    BY <2>1, <2>2 DEF Next, Ask, Sweep, UpdateRefused, vars
<1> QED
  BY <1>1, AlwaysInv, PTL DEF Spec, ErrorsOnlyShrink

\* What KeySession takes reconciliation for: it starts idle ...
LEMMA StartsIdle == Init => Promise!Init
<1> SUFFICES ASSUME Init PROVE Promise!Init
  OBVIOUS
<1>1. outcome = "running" /\ asked = {} /\ leakedBits = 0
  BY DEF Init
<1>2. Cardinality(asked) = 0
  BY <1>1, FS_EmptySet
<1>3. Cardinality(Errors) \in Nat
  <2>1. TypeOK
    BY InitInv DEF IInv
  <2>2. Errors \subseteq Positions
    BY <2>1 DEF TypeOK, Errors, Differences
  <2> QED
    BY <2>2, FiniteBlocks, FS_Subset, FS_CardinalityType
<1> QED
  BY <1>1, <1>2, <1>3 DEF Promise!Init

\* ... and every step is one of its steps, or none.
LEMMA StepsOfReconciliation == IInv /\ [Next]_vars => [Promise!Next]_(Promise!vars)
<1> SUFFICES ASSUME IInv, [Next]_vars PROVE [Promise!Next]_(Promise!vars)
  OBVIOUS
<1>1. /\ Errors' \subseteq Errors /\ IsFiniteSet(Errors) /\ IsFiniteSet(Errors')
      /\ IsFiniteSet(asked)
  <2>1. IInv'
    BY NextInv
  <2>2. Errors' \subseteq Errors
    <3>1. CASE Update
      BY <3>1, UpdateCorrects DEF IInv
    <3>2. CASE key' = key /\ reference' = reference
      BY <3>2 DEF Errors, Differences
    <3> QED
      BY <3>1, <3>2 DEF Next, Ask, Sweep, UpdateRefused, vars
  <2>3. Errors \subseteq Positions /\ asked \subseteq Blocks
    BY DEF IInv, TypeOK, Errors, Differences
  <2> QED
    BY <2>2, <2>3, FiniteBlocks, FS_Subset
<1>2. \A S : IsFiniteSet(S) => /\ Cardinality(S) \in Nat
                               /\ Cardinality(S) = 0 <=> S = {}
  BY FS_CardinalityType, FS_EmptySet
<1>3. CASE Ask
  <2>1. /\ outcome = "running" /\ outcome' = "running" /\ asked = {} /\ asked' # {}
        /\ leakedBits' = leakedBits /\ Errors' = Errors
    BY <1>3 DEF Ask, Looking, Errors, Differences
  <2>2. IsFiniteSet(asked')
    <3>1. asked' \subseteq Blocks
      BY <1>3, AskInv DEF IInv, TypeOK
    <3> QED
      BY <3>1, FiniteBlocks, FS_Subset
  <2>3. Cardinality(asked') \in Nat \ {0}
    BY <1>2, <2>1, <2>2
  <2>4. Promise!Ask
    BY <2>1, <2>3 DEF Promise!Ask
  <2> QED
    BY <2>4 DEF Promise!Next
<1>4. CASE Sweep
  <2>1. /\ outcome = "running" /\ asked = {} /\ asked' = {} /\ leakedBits' = leakedBits
        /\ Errors' = Errors
    BY <1>4 DEF Sweep, Looking, Errors, Differences
  <2>2. outcome' = "done" \/ outcome' = outcome
    BY <1>4 DEF Sweep, Backward, Finish, TurnBack, Extend, Forward
  <2>3. CASE outcome' = "done"
    <3>1. Promise!End
      BY <2>1, <2>3 DEF Promise!End
    <3> QED
      BY <3>1 DEF Promise!Next
  <2>4. CASE outcome' = outcome
    BY <2>1, <2>4 DEF Promise!vars
  <2> QED
    BY <2>2, <2>3, <2>4
<1>5. CASE Update
  <2>1. /\ asked # {} /\ asked' = {} /\ outcome = "running" /\ outcome' = "running"
        /\ leakedBits' = leakedBits + Cardinality(asked)
    BY <1>5 DEF Update, IInv, Request
  <2>2. Cardinality(asked') = 0
    BY <2>1, FS_EmptySet
  <2>3. Cardinality(Errors') \in 0..Cardinality(Errors)
    <3>1. Cardinality(Errors') <= Cardinality(Errors)
      BY <1>1, FS_Subset
    <3> QED
      BY <1>1, <1>2, <3>1
  <2>4. Promise!Learn
    BY <2>1, <2>2, <2>3 DEF Promise!Learn
  <2> QED
    BY <2>4 DEF Promise!Next
<1>6. CASE UpdateRefused
  <2>1. /\ asked # {} /\ asked' = {} /\ outcome = "running" /\ outcome' = "refused"
        /\ leakedBits' = leakedBits /\ Errors' = Errors
    BY <1>6 DEF UpdateRefused, IInv, Request, Errors, Differences
  <2>2. Cardinality(asked') = 0
    BY <2>1, FS_EmptySet
  <2>3. Promise!Refuse
    BY <2>1, <2>2 DEF Promise!Refuse
  <2> QED
    BY <2>3 DEF Promise!Next
<1>7. CASE UNCHANGED vars
  BY <1>7 DEF vars, Promise!vars, Errors, Differences
<1> QED
  BY <1>3, <1>4, <1>5, <1>6, <1>7 DEF Next

\* Cascade implements Reconciliation, but for its promise to end.
THEOREM CascadeReconciles == Spec => Promise!SafeSpec
<1>1. Init => Promise!Init
  BY StartsIdle
<1>2. IInv /\ [Next]_vars => [Promise!Next]_(Promise!vars)
  BY StepsOfReconciliation
<1> QED
  BY <1>1, <1>2, AlwaysInv, PTL DEF Spec, Promise!SafeSpec

-----------------------------------------------------------------------------
(* Cascade ends.  Its liveness, Promise!Spec, stays with TLC; proved here  *)
(* is what it rests on: every step lowers a rank, and until Cascade has    *)
(* ended there is a step to take.                                          *)

\* The blocks whose parity has been neither told nor asked for.
Unasked == Blocks \ (DOMAIN correct \cup asked)

\* The turns of the loop until a parity must be asked for or the sweep ends:
\* forward to the last iteration and, after a request, back to the first.
TurnsLeft ==
  (IF leaked THEN 2 * Iterations ELSE 0)
    + (IF heading = "forward" THEN Iterations - iteration
                              ELSE Iterations + 1 + iteration)

StepsLeft ==
  IF outcome = "running"
  THEN 1 + (2 * Iterations + 2) * Cardinality(Unasked) + TurnsLeft
         + (IF asked = {} THEN 0 ELSE 1)
  ELSE 0

StepsBound == 1 + (2 * Iterations + 2) * Cardinality(Blocks) + Iterations

\* What is left to ask is a finite number of blocks.
LEMMA UnaskedFinite ==
  /\ IsFiniteSet(Unasked) /\ Cardinality(Unasked) \in Nat
  /\ Cardinality(Blocks) \in Nat
  /\ Cardinality(Unasked) <= Cardinality(Blocks)
<1>1. Unasked \subseteq Blocks
  BY DEF Unasked
<1> QED
  BY <1>1, FiniteBlocks, FS_Subset, FS_CardinalityType

\* One block less to ask pays for a whole round of the sweep.
LEMMA OneBlockLess ==
  ASSUME NEW u \in Nat, NEW v \in Nat, v < u, NEW k \in Nat
  PROVE  k * v + k <= k * u
<1>1. k * (v + 1) <= k * u
  <2>1. v + 1 <= u
    OBVIOUS
  <2> QED
    BY <2>1
<1>2. k * (v + 1) = k * v + k
  OBVIOUS
<1> QED
  BY <1>1, <1>2

\* The two ranks, case by case.
LEMMA TurnsValue ==
  TypeOK =>
    /\ TurnsLeft \in Nat
    /\ heading = "forward" /\ ~ leaked => TurnsLeft = Iterations - iteration
    /\ heading = "forward" /\ leaked => TurnsLeft = 3 * Iterations - iteration
    /\ heading = "backward" /\ ~ leaked => TurnsLeft = Iterations + 1 + iteration
    /\ heading = "backward" /\ leaked => TurnsLeft = 3 * Iterations + 1 + iteration
<1> SUFFICES ASSUME TypeOK
             PROVE  /\ TurnsLeft \in Nat
                    /\ heading = "forward" /\ ~ leaked => TurnsLeft = Iterations - iteration
                    /\ heading = "forward" /\ leaked => TurnsLeft = 3 * Iterations - iteration
                    /\ heading = "backward" /\ ~ leaked => TurnsLeft = Iterations + 1 + iteration
                    /\ heading = "backward" /\ leaked => TurnsLeft = 3 * Iterations + 1 + iteration
  OBVIOUS
<1>1. /\ Iterations \in Nat /\ iteration \in Nat /\ iteration < Iterations
      /\ heading \in {"forward", "backward"} /\ leaked \in BOOLEAN
  BY Constants DEF TypeOK
<1>2. CASE leaked
  <2>1. CASE heading = "forward"
    BY <1>1, <1>2, <2>1 DEF TurnsLeft
  <2>2. CASE heading = "backward"
    BY <1>1, <1>2, <2>2 DEF TurnsLeft
  <2> QED
    BY <1>1, <1>2, <2>1, <2>2
<1>3. CASE ~ leaked
  <2>1. CASE heading = "forward"
    BY <1>1, <1>3, <2>1 DEF TurnsLeft
  <2>2. CASE heading = "backward"
    BY <1>1, <1>3, <2>2 DEF TurnsLeft
  <2> QED
    BY <1>1, <1>3, <2>1, <2>2
<1> QED
  BY <1>2, <1>3

LEMMA TurnsValueNext ==
  TypeOK' =>
    (/\ TurnsLeft \in Nat
     /\ heading = "forward" /\ ~ leaked => TurnsLeft = Iterations - iteration
     /\ heading = "forward" /\ leaked => TurnsLeft = 3 * Iterations - iteration
     /\ heading = "backward" /\ ~ leaked => TurnsLeft = Iterations + 1 + iteration
     /\ heading = "backward" /\ leaked => TurnsLeft = 3 * Iterations + 1 + iteration)'
  BY TurnsValue, PTL

BlocksLeft == (2 * Iterations + 2) * Cardinality(Unasked)

LEMMA StepsValue ==
  TypeOK =>
    /\ BlocksLeft \in Nat /\ StepsLeft \in Nat
    /\ outcome # "running" => StepsLeft = 0
    /\ outcome = "running" /\ asked = {} => StepsLeft = 1 + BlocksLeft + TurnsLeft
    /\ outcome = "running" /\ asked # {} => StepsLeft = 2 + BlocksLeft + TurnsLeft
<1> SUFFICES ASSUME TypeOK
             PROVE  /\ BlocksLeft \in Nat /\ StepsLeft \in Nat
                    /\ outcome # "running" => StepsLeft = 0
                    /\ outcome = "running" /\ asked = {} => StepsLeft = 1 + BlocksLeft + TurnsLeft
                    /\ outcome = "running" /\ asked # {} => StepsLeft = 2 + BlocksLeft + TurnsLeft
  OBVIOUS
<1>1. BlocksLeft \in Nat
  BY UnaskedFinite, Constants DEF BlocksLeft
<1>2. TurnsLeft \in Nat
  BY TurnsValue
<1>3. CASE outcome # "running"
  BY <1>1, <1>3 DEF StepsLeft
<1>4. CASE outcome = "running"
  <2>1. StepsLeft = 1 + BlocksLeft + TurnsLeft + (IF asked = {} THEN 0 ELSE 1)
    BY <1>4 DEF StepsLeft, BlocksLeft
  <2>2. CASE asked = {}
    BY <1>1, <1>2, <1>4, <2>1, <2>2
  <2>3. CASE asked # {}
    BY <1>1, <1>2, <1>4, <2>1, <2>3
  <2> QED
    BY <2>2, <2>3
<1> QED
  BY <1>3, <1>4

LEMMA StepsValueNext ==
  TypeOK' =>
    (/\ BlocksLeft \in Nat /\ StepsLeft \in Nat
     /\ outcome # "running" => StepsLeft = 0
     /\ outcome = "running" /\ asked = {} => StepsLeft = 1 + BlocksLeft + TurnsLeft
     /\ outcome = "running" /\ asked # {} => StepsLeft = 2 + BlocksLeft + TurnsLeft)'
  BY StepsValue, PTL

\* An open request leaves fewer blocks to ask.
LEMMA AskLowers ==
  ASSUME IInv, IInv', Ask
  PROVE  StepsLeft' < StepsLeft
<1>1. /\ outcome = "running" /\ outcome' = "running" /\ asked = {}
      /\ asked' = UnknownParityBlocks /\ asked' # {} /\ leaked' = TRUE
      /\ UNCHANGED <<correct, iteration, heading>>
  BY DEF Ask, Looking
<1>2. TypeOK /\ TypeOK'
  BY DEF IInv
<1>3. PICK b \in asked' : b \in Blocks /\ b \notin DOMAIN correct
  BY <1>1, <1>2, AskedOf
<1>4. /\ Cardinality(Unasked') \in Nat
      /\ Cardinality(Unasked') < Cardinality(Unasked)
  <2>1. Unasked' \subseteq Unasked /\ Unasked' # Unasked
    BY <1>1, <1>3 DEF Unasked
  <2> QED
    BY <2>1, UnaskedFinite, FS_Subset, FS_CardinalityType
<1>5. BlocksLeft' + (2 * Iterations + 2) <= BlocksLeft
  <2> DEFINE k == 2 * Iterations + 2
             u == Cardinality(Unasked)
             v == Cardinality(Unasked')
  <2>1. k \in Nat /\ u \in Nat /\ v \in Nat /\ v < u /\ Iterations \in Nat
    BY <1>4, UnaskedFinite, Constants
  <2>2. k * v + k <= k * u /\ k * v \in Nat
    <3> HIDE DEF k, u, v
    <3> QED
      BY <2>1, OneBlockLess
  <2>3. BlocksLeft' = k * v /\ BlocksLeft = k * u
    BY DEF BlocksLeft
  <2>4. k = 2 * Iterations + 2
    OBVIOUS
  <2> HIDE DEF k, u, v
  <2> QED
    BY <2>1, <2>2, <2>3, <2>4
<1>6. TurnsLeft' <= TurnsLeft + 2 * Iterations /\ TurnsLeft \in Nat /\ TurnsLeft' \in Nat
  BY <1>1, <1>2, TurnsValue, TurnsValueNext, Constants DEF TypeOK
<1>7. StepsLeft = 1 + BlocksLeft + TurnsLeft /\ BlocksLeft \in Nat
  BY <1>1, <1>2, StepsValue
<1>8. 2 + BlocksLeft' + TurnsLeft' = StepsLeft' /\ BlocksLeft' \in Nat
  BY <1>1, <1>2, StepsValueNext
<1>9. 2 * Iterations \in Nat
  BY Constants
<1> QED
  BY <1>5, <1>6, <1>7, <1>8, <1>9

\* A turn of the loop that asks for nothing brings the sweep nearer its end.
LEMMA SweepLowers ==
  ASSUME IInv, IInv', Sweep
  PROVE  StepsLeft' < StepsLeft
<1>1. /\ outcome = "running" /\ asked = {} /\ asked' = {}
      /\ correct' = correct
      /\ Backward \/ Finish \/ TurnBack \/ Extend \/ Forward
  BY DEF Sweep, Looking
<1>2. TypeOK /\ TypeOK'
  BY DEF IInv
<1>3. BlocksLeft' = BlocksLeft
  BY <1>1 DEF BlocksLeft, Unasked
<1>4. StepsLeft = 1 + BlocksLeft + TurnsLeft /\ BlocksLeft \in Nat /\ TurnsLeft \in Nat
  BY <1>1, <1>2, StepsValue, TurnsValue
<1>5. CASE Finish
  <2>1. StepsLeft' = 0
    BY <1>2, <1>5, StepsValueNext DEF Finish
  <2> QED
    BY <1>4, <2>1
<1>6. CASE Backward \/ TurnBack \/ Extend \/ Forward
  <2>1. outcome' = "running"
    BY <1>1, <1>6 DEF Backward, TurnBack, Extend, Forward
  <2>2. 1 + BlocksLeft' + TurnsLeft' = StepsLeft' /\ TurnsLeft' \in Nat
    BY <1>1, <1>2, <2>1, StepsValueNext, TurnsValueNext
  <2>3. TurnsLeft' < TurnsLeft
    <3>1. /\ Iterations \in Nat /\ iteration \in Nat /\ iteration < Iterations
          /\ iteration' \in Nat /\ iteration' < Iterations /\ limit \in Nat
          /\ leaked \in BOOLEAN
      BY <1>2, Constants DEF TypeOK
    <3>2. CASE Backward
      BY <1>2, <3>1, <3>2, TurnsValue, TurnsValueNext DEF Backward
    <3>3. CASE TurnBack
      <4>1. iteration' <= iteration
        BY <3>1, <3>3 DEF TurnBack
      <4>2. TurnsLeft = 3 * Iterations - iteration
        BY <1>2, <3>3, TurnsValue DEF TurnBack
      <4>3. Iterations + 1 + iteration' = TurnsLeft'
        BY <1>2, <3>3, TurnsValueNext DEF TurnBack
      <4> QED
        BY <3>1, <4>1, <4>2, <4>3
    <3>4. CASE Extend \/ Forward
      BY <1>2, <3>1, <3>4, TurnsValue, TurnsValueNext DEF Extend, Forward
    <3> QED
      BY <1>6, <3>2, <3>3, <3>4
  <2> QED
    BY <1>3, <1>4, <2>2, <2>3
<1> QED
  BY <1>1, <1>5, <1>6

\* An answer that fits closes the request, and what was asked for or inferred
\* need not be asked for again.
LEMMA UpdateLowers ==
  ASSUME IInv, IInv', Update
  PROVE  StepsLeft' < StepsLeft
<1>1. /\ asked # {} /\ asked' = {} /\ outcome = "running" /\ outcome' = "running"
      /\ UNCHANGED <<iteration, heading, leaked>>
  BY DEF IInv, Update, Request
<1>2. TypeOK /\ TypeOK'
  BY DEF IInv
<1>3. DOMAIN correct' = DOMAIN correct \cup Learnt /\ asked \subseteq Learnt
  BY UpdateLearns DEF IInv, Learnt
<1>4. Unasked' \subseteq Unasked
  BY <1>1, <1>3 DEF Unasked
<1>5. BlocksLeft' <= BlocksLeft
  <2> DEFINE k == 2 * Iterations + 2
             u == Cardinality(Unasked)
             v == Cardinality(Unasked')
  <2>1. k \in Nat /\ u \in Nat /\ v \in Nat /\ v <= u
    BY <1>4, UnaskedFinite, FS_Subset, FS_CardinalityType, Constants
  <2>2. k * v <= k * u
    <3> HIDE DEF k, u, v
    <3> QED
      BY <2>1
  <2> QED
    BY <2>2 DEF BlocksLeft
<1>6. TurnsLeft' = TurnsLeft /\ TurnsLeft \in Nat
  BY <1>1, <1>2, TurnsValue DEF TurnsLeft
<1>7. StepsLeft = 2 + BlocksLeft + TurnsLeft /\ BlocksLeft \in Nat
  BY <1>1, <1>2, StepsValue
<1>8. 1 + BlocksLeft' + TurnsLeft' = StepsLeft' /\ BlocksLeft' \in Nat
  BY <1>1, <1>2, StepsValueNext
<1> QED
  BY <1>5, <1>6, <1>7, <1>8

\* Whatever step or update does lowers the rank.
LEMMA EveryStepLowers == IInv /\ IInv' /\ Next => StepsLeft' < StepsLeft
<1> SUFFICES ASSUME IInv, IInv', Next PROVE StepsLeft' < StepsLeft
  OBVIOUS
<1>1. CASE UpdateRefused
  <2>1. outcome = "running" /\ outcome' = "refused" /\ asked # {} /\ TypeOK /\ TypeOK'
    BY <1>1 DEF UpdateRefused, IInv, Request
  <2>2. StepsLeft' = 0
    BY <2>1, StepsValueNext
  <2>3. StepsLeft = 2 + BlocksLeft + TurnsLeft /\ BlocksLeft \in Nat /\ TurnsLeft \in Nat
    BY <2>1, StepsValue, TurnsValue
  <2> QED
    BY <2>2, <2>3
<1> QED
  BY <1>1, AskLowers, SweepLowers, UpdateLowers DEF Next

\* The number of blocks, and with it the work that may be needed, is bounded.
LEMMA StartsBounded == Init => StepsLeft <= StepsBound
<1> SUFFICES ASSUME Init PROVE StepsLeft <= StepsBound
  OBVIOUS
<1>1. Unasked = Blocks /\ asked = {} /\ outcome = "running"
  BY DEF Init, Unasked
<1>2. TurnsLeft = Iterations
  BY Constants DEF Init, TurnsLeft
<1> DEFINE w == (2 * Iterations + 2) * Cardinality(Blocks)
<1>3. w \in Nat /\ Iterations \in Nat
  BY UnaskedFinite, Constants
<1>4. StepsLeft = 1 + w + Iterations /\ StepsBound = 1 + w + Iterations
  BY <1>1, <1>2, <1>3 DEF StepsLeft, StepsBound
<1> HIDE DEF w
<1> QED
  BY <1>3, <1>4

\* Cascade ends after a bounded number of steps, however the errors lie and
\* whatever the shuffles are: the sweeps backward and forward are paid for by
\* the blocks they have asked for, and a block is asked for once.
THEOREM CascadeEnds ==
  Spec => /\ [](StepsLeft \in 0..StepsBound)
          /\ [][StepsLeft' < StepsLeft]_vars
<1> DEFINE Bounded == StepsLeft \in 0..StepsBound
<1>1. StepsBound \in Nat
  <2>1. (2 * Iterations + 2) * Cardinality(Blocks) \in Nat
    BY UnaskedFinite, Constants
  <2> QED
    BY <2>1, Constants DEF StepsBound
<1>2. Init => Bounded
  <2> HIDE DEF StepsBound, StepsLeft
  <2> QED
    BY <1>1, StartsBounded, InitInv, StepsValue DEF IInv
<1>3. IInv => StepsLeft \in Nat
  BY StepsValue DEF IInv
<1>4. IInv' => (StepsLeft \in Nat)'
  BY <1>3, PTL
<1>5. ASSUME IInv, IInv', [Next]_vars, Bounded
      PROVE  Bounded'
  <2>1. CASE UNCHANGED vars
    BY <1>5, <2>1 DEF vars, StepsLeft, StepsBound, TurnsLeft, Unasked
  <2>2. CASE Next
    <3>1. StepsLeft' < StepsLeft /\ StepsLeft' \in Nat
      BY <1>4, <1>5, <2>2, EveryStepLowers
    <3>2. StepsBound' = StepsBound
      BY DEF StepsBound
    <3> HIDE DEF StepsLeft, StepsBound
    <3> QED
      BY <1>1, <1>5, <3>1, <3>2
  <2> QED
    BY <1>5, <2>1, <2>2
<1>6. ASSUME IInv, IInv', [Next]_vars
      PROVE  StepsLeft' < StepsLeft \/ UNCHANGED vars
  BY <1>6, EveryStepLowers
<1> QED
  BY <1>2, <1>5, <1>6, AlwaysInv, PTL DEF Spec

-----------------------------------------------------------------------------
(* How much Cascade may leak.                                              *)

\* A block is a root or a half of another block.
LEMMA RootOrHalf ==
  ASSUME NEW b \in Blocks, b \notin Roots(b[1])
  PROVE  b \in Lefts \cup Rights
<1> DEFINE Around == {c \in Blocks : InHalf(b, c)}
           Sizes == {c[3] : c \in Around}
<1>1. b \in Stretches /\ b[1] \in Turns
  BY BlocksNest, Halves
<1>2. PICK r \in Roots(b[1]) : Within(b, r)
  BY BlocksNest
<1>3. r \in Blocks /\ r \in Stretches
  BY <1>1, BlocksNest
<1>4. InHalf(b, r)
  <2>1. ~ Apart(b, r)
    BY <1>1, <1>2, <1>3, Halves DEF Within, Apart
  <2>2. ~ InHalf(r, b)
    <3> SUFFICES ASSUME InHalf(r, b) PROVE FALSE
      OBVIOUS
    <3>1. ~ IsLeaf(b) /\ \E h \in {Left(b), Right(b)} : Within(r, h) /\ h[3] < b[3] /\ h[3] \in Nat
      BY <1>1, Halves DEF InHalf
    <3> QED
      BY <1>1, <1>2, <1>3, <3>1, Halves DEF Within
  <2> QED
    BY <1>2, <1>3, <2>1, <2>2, BlocksNest
<1>5. PICK m \in Sizes : \A k \in Sizes : m <= k
  <2>1. Sizes \in SUBSET Nat /\ Sizes # {}
    BY <1>3, <1>4, BlocksNest, Halves
  <2> HIDE DEF Sizes
  <2> QED
    BY <2>1, LeastNumber
<1>6. PICK c \in Blocks : InHalf(b, c) /\ c[3] = m
  BY <1>5
<1>7. c \in Stretches /\ ~ IsLeaf(c)
  BY <1>6, BlocksNest DEF InHalf
<1>8. PICK h \in {Left(c), Right(c)} : Within(b, h)
  BY <1>6 DEF InHalf
<1>9. h \in Blocks /\ h \in Stretches /\ h[3] < c[3]
  BY <1>6, <1>7, BlocksNest, Halves
<1>10. ~ Apart(b, h)
  BY <1>1, <1>8, <1>9, Halves DEF Within, Apart
<1>11. ~ InHalf(b, h)
  <2> SUFFICES ASSUME InHalf(b, h) PROVE FALSE
    OBVIOUS
  <2>1. h[3] \in Sizes
    BY <1>9
  <2> HIDE DEF Sizes
  <2> QED
    BY <1>5, <1>6, <1>7, <1>9, <2>1, Halves
<1>12. ~ InHalf(h, b)
  <2> SUFFICES ASSUME InHalf(h, b) PROVE FALSE
    OBVIOUS
  <2>1. Within(h, b) /\ ~ Within(b, h)
    BY <1>1, <1>9, InHalfIsWithin
  <2> QED
    BY <1>8, <2>1
<1>13. b = h
  BY <1>9, <1>10, <1>11, <1>12, BlocksNest
<1> QED
  BY <1>6, <1>7, <1>13, Parents

\* The last place of a block.
Last(b) == b[2] + b[3] - 1

\* No two blocks that are asked for end at the same place of an iteration.
LEMMA EndsDiffer ==
  ASSUME NEW c \in Blocks, NEW d \in Blocks, c \notin Rights, d \notin Rights,
         c[1] = d[1], Last(c) = Last(d)
  PROVE  c = d
<1>1. c \in Stretches /\ d \in Stretches
  BY BlocksNest
<1>2. ASSUME NEW e \in Blocks, NEW f \in Blocks, e \notin Rights, InHalf(e, f),
             e[1] = f[1], Last(e) = Last(f)
      PROVE  FALSE
  <2>1. e \in Stretches /\ f \in Stretches
    BY BlocksNest
  <2>2. PICK h \in {Left(f), Right(f)} : Within(e, h) /\ h[3] < f[3] /\ h \in Stretches /\ Within(h, f)
    BY <1>2, <2>1, Halves DEF InHalf, Within
  <2>3. e[3] < f[3] /\ e[2] >= f[2]
    BY <2>1, <2>2, Halves DEF Within
  <2>4. CASE e \in Roots(e[1])
    <3>1. PICK q \in Roots(e[1]) : Within(f, q)
      BY <1>2, BlocksNest
    <3>2. q \in Stretches /\ (e = q \/ Apart(e, q))
      BY <2>1, <2>4, RootsApart, Halves
    <3>3. PICK b2 \in Nat \ {0}, b3 \in Nat \ {0}, f2 \in Nat \ {0}, f3 \in Nat \ {0},
               q2 \in Nat \ {0}, q3 \in Nat \ {0} :
            b2 = e[2] /\ b3 = e[3] /\ f2 = f[2] /\ f3 = f[3] /\ q2 = q[2] /\ q3 = q[3]
      BY <2>1, <3>2, Halves
    <3>4. f2 >= q2 /\ f2 + f3 <= q2 + q3 /\ e[1] = q[1]
      BY <1>2, <3>1, <3>3 DEF Within
    <3>5. b2 + b3 = f2 + f3 /\ b3 < f3
      BY <1>2, <2>3, <3>3 DEF Last
    <3>6. CASE e = q
      BY <3>3, <3>4, <3>5, <3>6
    <3>7. CASE Apart(e, q)
      BY <3>3, <3>4, <3>5, <3>7 DEF Apart
    <3> QED
      BY <3>2, <3>6, <3>7
  <2>5. CASE e \in Lefts
    <3>1. PICK p \in Blocks : ~ IsLeaf(p) /\ e = Left(p)
      BY <2>5 DEF Lefts
    <3>2. p \in Stretches /\ p[1] = e[1] /\ e[2] = p[2] /\ e[3] < p[3] /\ Right(p)[2] = p[2] + e[3]
      BY <3>1, BlocksNest, Halves
    <3>3. p # f
      BY <1>2, <2>1, <3>2, Halves DEF Last
    <3>4. ~ Apart(p, f)
      BY <1>2, <2>1, <2>3, <3>2, Halves DEF Apart, Last
    <3>5. ~ InHalf(p, f)
      <4>1. InHalf(p, f) => Within(p, f)
        BY <2>1, <3>2, InHalfIsWithin
      <4> QED
        BY <1>2, <2>1, <3>2, <4>1, Halves DEF Within, Last
    <3>6. ~ InHalf(f, p)
      <4>1. InHalf(f, p) => Within(f, e) \/ Within(f, Right(p))
        BY <3>1 DEF InHalf
      <4> QED
        BY <1>2, <2>1, <2>3, <3>2, <4>1, Halves DEF Within, Last
    <3> QED
      BY <3>3, <3>4, <3>5, <3>6, BlocksNest
  <2> QED
    BY <1>2, <2>4, <2>5, RootOrHalf
<1>3. ~ Apart(c, d)
  BY <1>1, Halves DEF Apart, Last
<1> QED
  BY <1>2, <1>3, BlocksNest

\* Each iteration has at most as many parities to ask for as the key has bits.
LEMMA AskableBlocks ==
  /\ IsFiniteSet(Blocks \ Rights)
  /\ Cardinality(Blocks \ Rights) <= Iterations * Length
<1> DEFINE B == Blocks \ Rights
           Places == Turns \X Positions
           f == [b \in B |-> <<b[1], Last(b)>>]
<1>1. /\ IsFiniteSet(Turns) /\ Cardinality(Turns) = Iterations
      /\ IsFiniteSet(Positions) /\ Cardinality(Positions) = Length
  BY FS_Interval, Constants DEF Turns, Positions
<1>2. IsFiniteSet(Places) /\ Cardinality(Places) = Iterations * Length
  BY <1>1, FS_Product
<1>3. \A b \in B : <<b[1], Last(b)>> \in Places
  <2> TAKE b \in B
  <2>1. b \in Stretches
    BY BlocksNest
  <2> QED
    BY <2>1, Halves, Constants DEF Positions, Last
<1>4. \A b, c \in B : <<b[1], Last(b)>> = <<c[1], Last(c)>> => b = c
  BY EndsDiffer
<1>5. f \in Injection(B, Places)
  BY <1>3, <1>4 DEF Injection, IsInjective
<1> HIDE DEF B, Places, f
<1>6. IsFiniteSet(B) /\ Cardinality(B) <= Cardinality(Places)
  BY <1>2, <1>5, FS_Injection
<1> QED
  BY <1>2, <1>6 DEF B

\* The follower never tells more than one parity for each bit of the key and
\* each iteration, whatever the errors and however often the sweeps turn back:
\* leaked_bits is at most num_iterations times the length of the key.
THEOREM LeakBounded == Spec => [](leakedBits <= Iterations * Length)
<1>1. IInv => leakedBits <= Iterations * Length
  <2> SUFFICES ASSUME IInv PROVE leakedBits <= Iterations * Length
    OBVIOUS
  <2>1. leakedBits = Cardinality(DOMAIN correct \ Rights)
    BY DEF IInv, LeakExact
  <2>2. DOMAIN correct \ Rights \subseteq Blocks \ Rights
    BY DEF IInv, TypeOK
  <2>3. /\ Cardinality(DOMAIN correct \ Rights) <= Cardinality(Blocks \ Rights)
        /\ Cardinality(DOMAIN correct \ Rights) \in Nat
        /\ Cardinality(Blocks \ Rights) \in Nat
    BY <2>2, AskableBlocks, FS_Subset, FS_CardinalityType
  <2>4. Iterations * Length \in Nat
    BY Constants
  <2> QED
    BY <2>1, <2>3, <2>4, AskableBlocks
<1> QED
  BY <1>1, AlwaysInv, PTL

=============================================================================

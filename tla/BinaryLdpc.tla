----------------------------- MODULE BinaryLdpc -----------------------------
(* The binary LDPC code as a stage of the pipeline: setup reads the parity *)
(* matrix, step asks the follower for the syndrome of its key, update      *)
(* keeps it, the next step propagates beliefs until the syndrome fits      *)
(* (error-correction-binary-ldpc).                                         *)
(*                                                                         *)
(* The code computes with logarithms of odds in f64. Here the odds are an  *)
(* exact pair <<w0, w1>>, the weights of bit 0 and bit 1, up to a common   *)
(* factor: a sum of logarithms is a product of pairs, tanh(llr / 2) is     *)
(* (w0 - w1) / (w0 + w1), an infinite logarithm is a pair with one zero    *)
(* and NaN is <<0, 0>>.                                                    *)
EXTENDS Integers, Sequences, FiniteSetsExt, Functions, TLC

CONSTANTS
  Length,    \* of the key
  Files,     \* alist files, see below
  Rates,     \* records [error, scale]: error_estimate is error / scale, below 1
  MaxIter

(* A file: what its header declares and its lines, columns before rows,    *)
(* each as the set of the numbers on it, less one.                         *)
FilesAssumption == \A f \in Files :
  /\ {f.variables, f.factors} \subseteq Nat \ {0}
  /\ \A i \in DOMAIN f.lines : f.lines[i] \subseteq Nat
RatesAssumption == \A r \in Rates : r.error \in 0 .. r.scale - 1

VARIABLES
  phase,      \* "setup", "ask", "asked", "answered", "propagating", "converged",
              \* "reconciled", "aborted" or "panic"
  file, rate, \* the arguments of the stage
  key,        \* the leader's key
  other,      \* the follower's key
  matrix,     \* the ParityMatrix: factors and variables
  syndrome,   \* the follower's answer
  v2f, f2v,   \* variable_to_factor[m][v], factor_to_variable[v][m]
  llr,        \* current_llr
  estimate,   \* current_estimate
  passes,     \* iterations made
  leaked      \* what the follower counts and what the leader hands on

vars == <<phase, file, rate, key, other, matrix, syndrome, v2f, f2v, llr,
          estimate, passes, leaked>>
arguments == <<file, rate, key, other>>
beliefs == <<v2f, f2v, llr, estimate, passes>>

Positions == 0 .. Length - 1
Bits == {0, 1}

-----------------------------------------------------------------------------
(* The parity matrix                                                       *)

Columns(f) == SubSeq(f.lines, 1, f.variables)
Rows(f) == SubSeq(f.lines, f.variables + 1, f.variables + f.factors)
Longest(lines) == Max({Cardinality(lines[i]) : i \in DOMAIN lines})

\* The refusals of from_alist. Nothing compares the columns with the rows.
Refused(f) ==
  \/ Len(f.lines) # f.variables + f.factors
  \/ Longest(Columns(f)) # f.maxVariable
  \/ Longest(Rows(f)) # f.maxFactor

FromAlist(f) ==
  [factors   |-> [m \in 0 .. f.factors - 1 |-> Rows(f)[m + 1]],
   variables |-> [v \in 0 .. f.variables - 1 |-> Columns(f)[v + 1]]]

Parity(word, positions) == MapThenSumSet(LAMBDA v : word[v], positions) % 2

CalculateSyndrome(word) ==
  [m \in DOMAIN matrix.factors |-> Parity(word, matrix.factors[m])]

-----------------------------------------------------------------------------
(* Odds                                                                    *)

Gcd[a \in Nat, b \in Nat] == IF b = 0 THEN a ELSE Gcd[b, a % b]

Odds(w0, w1) ==
  LET g == Gcd[w0, w1] IN IF g = 0 THEN <<0, 0>> ELSE <<w0 \div g, w1 \div g>>

Times(a, b) == Odds(a[1] * b[1], a[2] * b[2])
Even == <<1, 1>>

InitialLlr(v) ==
  IF key[v] = 1 THEN Odds(rate.error, rate.scale - rate.error)
  ELSE Odds(rate.scale - rate.error, rate.error)

\* Variant: the sign of a check whose parity is odd is forgotten.
FactorToVariableUnsigned(m, v) ==
  LET rest == matrix.factors[m] \ {v}
      num  == FoldSet(LAMBDA u, acc : (v2f[m][u][1] - v2f[m][u][2]) * acc, 1, rest)
      den  == FoldSet(LAMBDA u, acc : (v2f[m][u][1] + v2f[m][u][2]) * acc, 1, rest)
  IN Odds(den + num, den - num)

\* 2 atanh of the product of the tanh of the others, with the check's sign.
FactorToVariable(m, v) ==
  LET rest == matrix.factors[m] \ {v}
      num  == FoldSet(LAMBDA u, acc : (v2f[m][u][1] - v2f[m][u][2]) * acc, 1, rest)
      den  == FoldSet(LAMBDA u, acc : (v2f[m][u][1] + v2f[m][u][2]) * acc, 1, rest)
  IN IF syndrome[m] = 1 THEN Odds(den - num, den + num) ELSE Odds(den + num, den - num)

\* Variant: the evidence of the variable's own bit is left out.
SumOfMessages(messages, v, checks) ==
  FoldSet(LAMBDA m, acc : Times(messages[v][m], acc), Even, checks)

\* The sum over some of the checks of a variable, plus its initial value.
Sum(messages, v, checks) ==
  FoldSet(LAMBDA m, acc : Times(messages[v][m], acc), InitialLlr(v), checks)

-----------------------------------------------------------------------------
Init ==
  /\ phase = "setup"
  /\ file \in Files /\ rate \in Rates
  /\ key \in [Positions -> Bits] /\ other \in [Positions -> Bits]
  /\ matrix = [factors |-> << >>, variables |-> << >>]
  /\ syndrome = << >> /\ v2f = << >> /\ f2v = << >> /\ llr = << >>
  /\ estimate = << >> /\ passes = 0
  /\ leaked = [follower |-> 0, leader |-> 0]

\* SetupBinaryLDPC::setup unwraps what from_alist answers.
Setup ==
  /\ phase = "setup"
  /\ IF Refused(file) THEN phase' = "panic" /\ UNCHANGED matrix
     ELSE phase' = "ask" /\ matrix' = FromAlist(file)
  /\ UNCHANGED <<arguments, syndrome, beliefs, leaked>>

\* step without a syndrome asks for all the checks.
Ask ==
  /\ phase = "ask" /\ phase' = "asked"
  /\ UNCHANGED <<arguments, matrix, syndrome, beliefs, leaked>>

\* The follower counts one bit for each check; a position outside its key
\* panics in calc_syndrome, and the leader loses the stream.
FollowerAnswers ==
  /\ phase = "asked"
  /\ IF UNION {matrix.factors[m] : m \in DOMAIN matrix.factors} \subseteq Positions
     THEN /\ phase' = "answered"
          /\ syndrome' = CalculateSyndrome(other)
          /\ leaked' = [leaked EXCEPT !.follower = Cardinality(DOMAIN matrix.factors)]
     ELSE phase' = "aborted" /\ UNCHANGED <<syndrome, leaked>>
  /\ UNCHANGED <<arguments, matrix, beliefs>>

\* The next step enters propagate.
Begin ==
  /\ phase = "answered" /\ phase' = "propagating"
  /\ v2f' = [m \in DOMAIN matrix.factors |-> [v \in Positions |-> InitialLlr(v)]]
  /\ f2v' = [v \in Positions |-> [m \in DOMAIN matrix.factors |-> Even]]
  /\ llr' = [v \in Positions |-> Even]
  /\ estimate' = [v \in Positions |-> 0]
  /\ passes' = 0
  /\ UNCHANGED <<arguments, matrix, syndrome, leaked>>

\* A column beyond the key, or one that names a check beyond the rows, is
\* outside the message tables.
Oversized ==
  \/ ~ (DOMAIN matrix.variables \subseteq Positions)
  \/ \E v \in DOMAIN matrix.variables :
       ~ (matrix.variables[v] \subseteq DOMAIN matrix.factors)

(* One turn of the loop of propagate. Positions beyond the matrix keep the *)
(* zero current_llr was created with, so their bit is 0.                   *)
Pass ==
  /\ phase = "propagating" /\ passes < MaxIter /\ ~Oversized
  /\ f2v' = [v \in Positions |-> [m \in DOMAIN matrix.factors |->
              IF v \in matrix.factors[m] THEN FactorToVariable(m, v) ELSE f2v[v][m]]]
  /\ llr' = [v \in Positions |->
              IF v \in DOMAIN matrix.variables
              THEN Sum(f2v', v, matrix.variables[v]) ELSE llr[v]]
  /\ estimate' = [v \in Positions |-> IF llr'[v][1] < llr'[v][2] THEN 1 ELSE 0]
  /\ passes' = passes + 1
  /\ IF CalculateSyndrome(estimate') = syndrome
     THEN phase' = "converged" /\ UNCHANGED v2f
     ELSE /\ UNCHANGED phase
          /\ v2f' = [m \in DOMAIN matrix.factors |-> [v \in Positions |->
               IF v \in DOMAIN matrix.variables /\ m \in matrix.variables[v]
               THEN Sum(f2v', v, matrix.variables[v] \ {m}) ELSE v2f[m][v]]]
  /\ UNCHANGED <<arguments, matrix, syndrome, leaked>>

PassPanics ==
  /\ phase = "propagating" /\ passes < MaxIter /\ Oversized
  /\ phase' = "panic"
  /\ UNCHANGED <<arguments, matrix, syndrome, beliefs, leaked>>

GivesUp ==
  /\ phase = "propagating" /\ passes = MaxIter
  /\ phase' = "aborted"
  /\ UNCHANGED <<arguments, matrix, syndrome, beliefs, leaked>>

\* finalize: the estimate is the reconciled key.
Finalize ==
  /\ phase = "converged" /\ phase' = "reconciled"
  /\ leaked' = [leaked EXCEPT !.leader = Cardinality(DOMAIN syndrome)]
  /\ UNCHANGED <<arguments, matrix, syndrome, beliefs>>

Next ==
  \/ Setup \/ Ask \/ FollowerAnswers \/ Begin \/ Pass \/ PassPanics
  \/ GivesUp \/ Finalize

Spec == Init /\ [][Next]_vars

-----------------------------------------------------------------------------
\* Columns and rows are of the key's length and describe the same matrix.
Fits ==
  /\ UNION {matrix.factors[m] : m \in DOMAIN matrix.factors} \subseteq Positions
  /\ DOMAIN matrix.variables = Positions
  /\ \A v \in Positions :
       matrix.variables[v] = {m \in DOMAIN matrix.factors : v \in matrix.factors[m]}

CycleFree ==
  \A m \in DOMAIN matrix.factors :
    Cardinality(matrix.factors[m]
                \cap UNION {matrix.factors[k] : k \in 0 .. m - 1}) <= 1

\* How likely v is b, by all the keys that have the syndrome.
Likelihood(v, b) ==
  MapThenSumSet(
    LAMBDA w : FoldSet(LAMBDA u, acc : InitialLlr(u)[w[u] + 1] * acc, 1, Positions),
    {w \in [Positions -> Bits] : w[v] = b /\ CalculateSyndrome(w) = syndrome})

(* In a matrix that fits the key and has no cycle, the odds of every bit   *)
(* are exact once as many passes are made as there are checks, bits in no  *)
(* check included (belief_propagation.rs 54-95).                           *)
BinaryBeliefsExact ==
  (passes > 0 /\ Fits /\ CycleFree /\ passes >= Cardinality(DOMAIN matrix.factors)) =>
    \A v \in Positions :
      LET l == <<Likelihood(v, 0), Likelihood(v, 1)>>
      IN l # <<0, 0>> => llr[v] = Odds(l[1], l[2])

\* All bits are tied to one another, so that the syndrome leaves two keys.
Tied ==
  Cardinality({k \in [Positions -> Bits] :
                 CalculateSyndrome(k) = CalculateSyndrome(other)}) = 2

(* Between keys that differ in at most one bit, with a code that tells     *)
(* them apart and an estimate of the error below a half, the stage ends    *)
(* with the follower's key: it neither aborts nor settles on another key   *)
(* with the same syndrome. Both sides account for the same leak            *)
(* (lib.rs 32-75, 78-90).                                                  *)
OneErrorCorrected ==
  /\ ( /\ phase \in {"aborted", "converged", "reconciled"}
       /\ Fits /\ CycleFree /\ Tied /\ rate.error > 0 /\ 2 * rate.error < rate.scale
       /\ MaxIter >= Cardinality(DOMAIN matrix.factors)
       /\ Cardinality({v \in Positions : key[v] # other[v]}) <= 1 )
     => phase # "aborted" /\ estimate = other
  /\ phase = "reconciled" => leaked.leader = leaked.follower
=============================================================================

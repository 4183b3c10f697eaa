------------------------------- MODULE MCLdpc -------------------------------
(* The two LDPC codes and the arithmetic below the second, each on a small *)
(* instance. They share no state: a behaviour exercises the part that its  *)
(* first state names, and the variables of the others stay empty.          *)
EXTENDS Arithmetic

VARIABLES
  part,        \* "algebra", "nonbinary" or "binary"
  phase, file, rate, key, other, matrix, answer, v2f, f2v, llr, estimate, passes,
  leaked       \* of BinaryLdpc

Table(p, poly, lines) == [format |-> "table", p |-> p, poly |-> poly, lines |-> lines]
Alist(order, variables, rows, lines) ==
  [format |-> "alist", order |-> order, variables |-> variables, factors |-> rows,
   lines |-> lines]
XPlus1 == 0 :> 1 @@ 1 :> 1
X2Plus1 == 0 :> 1 @@ 2 :> 1
X2PlusXPlus1 == 0 :> 1 @@ 1 :> 1 @@ 2 :> 1
MCCodes ==
  UNION {{Table(F[1], F[2], << <<1, 2, 1>> >>),                   \* one check
          Table(F[1], F[2], << <<1, 1, -1>>, <<1, 2, -1>> >>),    \* a cycle, and 2 unchecked
          Table(F[1], F[2], << <<1, -1, 2>> >>)} :                \* 1 unchecked
         F \in {<<3, XPlus1>>, <<2, X2PlusXPlus1>>}}
  \cup {Alist(order, 3, 2, << << <<1, 1>> >>, << <<1, 2>>, <<2, 1>> >>, << <<2, 2>> >>,
                              << <<1, 1>>, <<2, 2>> >>, << <<2, 1>>, <<3, 2>> >> >>) :
          order \in {3, 4}}                                       \* a chain
  \cup {Table(2, X2Plus1, << <<1, 1, 1>> >>),                     \* ReduciblePolynomial
        Table(4, XPlus1, << <<1, 1, 1>> >>),                      \* NotPrime
        Alist(6, 1, 1, << << <<1, 1>> >>, << <<1, 1>> >> >>),     \* BadFieldSize
        Alist(3, 1, 2, << << <<1, 1>> >>, << <<1, 1>> >> >>)}     \* FileTooShort
MCChannels == {[error |-> 1, scale |-> 2], [error |-> 0, scale |-> 1]}

File(variables, rows, maxVariable, maxFactor, lines) ==
  [variables |-> variables, factors |-> rows, maxVariable |-> maxVariable,
   maxFactor |-> maxFactor, lines |-> lines]
Chain == << {0}, {0, 1}, {1, 2}, {2}, {0, 1}, {1, 2}, {2, 3} >>
MCFiles ==
  { File(4, 3, 2, 2, Chain),
    File(4, 3, 2, 3, Chain),                                     \* BadAListFile
    File(4, 3, 2, 2, Tail(Chain)),                               \* FileTooShort
    File(4, 2, 2, 3, << {0, 1}, {0, 1}, {0}, {1}, {0, 1, 2}, {0, 1, 3} >>),
    File(4, 2, 2, 2, << {0}, {0, 1}, {1}, {}, {0, 1}, {1, 2} >>),
    File(3, 2, 2, 2, << {0}, {0, 1}, {1}, {0, 1}, {1, 2} >>),    \* narrower than the key
    File(5, 2, 2, 2, << {0}, {0, 1}, {1}, {}, {}, {0, 1}, {1, 2} >>),
    File(4, 2, 2, 2, << {0}, {0, 1}, {1}, {1}, {0, 1}, {1, 4} >>),  \* names a bit the key lacks
    File(4, 2, 2, 2, << {0}, {0, 1}, {1}, {2}, {0, 1}, {1, 2} >>) }  \* and one a check it lacks
MCRates == {[error |-> 1, scale |-> 4], [error |-> 0, scale |-> 1]}

binaryVars ==
  <<phase, file, rate, key, other, matrix, answer, v2f, f2v, llr, estimate, passes, leaked>>

B == INSTANCE BinaryLdpc WITH
       Length <- 4, Files <- MCFiles, Rates <- MCRates, MaxIter <- 3, syndrome <- answer

ASSUME BinaryAssumption == B!FilesAssumption /\ B!RatesAssumption

-----------------------------------------------------------------------------
Pairs ==
  {[kind |-> "pair", p |-> 2, f |-> f, g |-> g] :
     f \in Polynomials(2, 4), g \in Polynomials(2, 4)}
  \cup {[kind |-> "pair", p |-> 3, f |-> f, g |-> g] :
          f \in UNION {Monic(3, n) : n \in 0 .. 2}, g \in Polynomials(3, 3)}
Candidates ==
  UNION {{[kind |-> "candidate", p |-> s[1], n |-> s[2], f |-> f] : f \in Monic(s[1], s[2])} :
         s \in {<<2, 1>>, <<2, 2>>, <<2, 3>>, <<2, 4>>, <<3, 1>>, <<3, 2>>, <<3, 3>>, <<5, 2>>}}
SmallFields ==
  {[kind |-> "field", p |-> id[1], n |-> id[2], field |-> WithSize(id[1], id[2])] :
     id \in {<<2, 1>>, <<3, 1>>, <<2, 2>>, <<5, 1>>, <<2, 3>>, <<3, 2>>}}
Triples ==
  UNION {LET F == WithSize(id[1], id[2])
         IN {[kind |-> "triple", p |-> id[1], n |-> id[2], field |-> F, abc |-> abc] :
               abc \in [1 .. 3 -> 0 .. F.size - 1]} :
         id \in {<<3, 1>>, <<2, 2>>, <<5, 1>>}}
MCSubjects ==
  Pairs \cup Candidates \cup SmallFields \cup Triples
  \cup {[kind |-> "file", file |-> f, field |-> FieldOf(f)] :
          f \in {g \in Files : ReadError(g) = "none"}}

NonBinaryIdle ==
  /\ code = << >> /\ field = << >> /\ tables = << >> /\ factors = << >> /\ channel = << >>
  /\ received = << >> /\ syndrome = << >> /\ qmn = << >> /\ rmn = << >> /\ score = << >>
  /\ iter = 0 /\ result = "idle"

BinaryIdle ==
  /\ phase = "idle" /\ file = << >> /\ rate = << >> /\ key = << >> /\ other = << >>
  /\ matrix = << >> /\ answer = << >> /\ v2f = << >> /\ f2v = << >> /\ llr = << >>
  /\ estimate = << >> /\ passes = 0 /\ leaked = << >>

MCInit ==
  \/ /\ part = "algebra" /\ NonBinaryIdle /\ BinaryIdle
     /\ subject \in Subjects
  \/ part = "nonbinary" /\ subject = [kind |-> "none"] /\ Init /\ BinaryIdle
  \/ part = "binary" /\ subject = [kind |-> "none"] /\ NonBinaryIdle /\ B!Init

NonBinaryNext == part = "nonbinary" /\ Next /\ UNCHANGED <<binaryVars, part, subject>>
BinaryNext == part = "binary" /\ B!Next /\ UNCHANGED <<vars, part, subject>>
MCNext == NonBinaryNext \/ BinaryNext

MCSpec == MCInit /\ [][MCNext]_<<vars, binaryVars, part, subject>>

-----------------------------------------------------------------------------
\* The scores of the non-binary decoder are exact on matrices without cycles.
NonBinaryBeliefsExact == part = "nonbinary" => BeliefsExact

\* The odds of the binary code are exact on matrices without cycles.
BinaryBeliefsExact == part = "binary" => B!BinaryBeliefsExact

\* One error is corrected by a code that can, and both sides count its leak.
OneErrorCorrected == part = "binary" => B!OneErrorCorrected
=============================================================================

---------------------------- MODULE NonBinaryLdpc ----------------------------
(* Decoder::decode of the non-binary LDPC code (decoder.rs): from the      *)
(* symbols received and the syndrome of the symbols sent, belief           *)
(* propagation between checks ("factors") and symbols ("variables").       *)
(*                                                                         *)
(* A symbol is the number of a field element. The code's f32 likelihoods   *)
(* are exact here: a column of likelihoods is a vector of naturals that    *)
(* matter up to a common factor, and "divide by the sum" takes the vector  *)
(* to its lowest terms. A column of zeros divides zero by zero.            *)
EXTENDS FiniteField

CONSTANTS
  Files,         \* matrix files, see FiniteField
  Length,        \* x.len()
  Channels,      \* records [error, scale]: the error rate is error / scale
  MaxIteration

(* In GF(2) mult_idx asks for pow(0), which does not return, and so does   *)
(* an exponent of 0 in a file.                                             *)
ASSUME FilesAssumption ==
  \A f \in Files :
    /\ IF f.format = "alist" THEN f.order \in Nat /\ f.order > 2 /\ f.factors \in Nat
       ELSE /\ f.format = "table" /\ f.p \in Nat /\ IsPoly(f.p, f.poly)
            /\ Raise(f.p, Degree(f.poly)) > 2 /\ f.lines \in Seq(Seq(Int))
    /\ ~FileTooShort(f) =>
         \A m \in RowsOf(f) : \A e \in PairsOf(f, m) :
           e[1] \in 1 .. Length /\ e[2] \in Nat \ {0}
ASSUME LengthAssumption == Length \in Nat
ASSUME ChannelsAssumption ==
  \A c \in Channels : c.scale \in Nat /\ c.error \in 0 .. c.scale

VARIABLES
  code, field, tables,       \* the file; the decoder's field and its tables
  factors, channel,          \* the parity matrix, the error rate
  received, syndrome,        \* the symbols received, the sender's syndrome
  qmn,                       \* qmn[m][n]: what variable n tells check m
  rmn,                       \* rmn[m][n]: what check m tells variable n
  score,                     \* score[n]: the likelihoods of variable n
  iter,                      \* passes made
  result                     \* "refused", "running", "decoded", "failed" or "panic"

arguments == <<code, field, tables, factors, channel, received, syndrome>>
vars == <<arguments, qmn, rmn, score, iter, result>>

-----------------------------------------------------------------------------
(* The arithmetic                                                          *)

Variables == 0 .. Length - 1
SymbolsOf(F) == 0 .. F.size - 1

\* mult_idx: the symbol e with h * e = e1 - e2, for which h is inverted as
\* its power of order q - 2.
MultIdx(F, h) ==
  LET hinv == Power(F, Element(F, h), F.size - 2)
  IN [e \in SymbolsOf(F) \X SymbolsOf(F) |->
       CHOOSE i \in SymbolsOf(F) :
         Element(F, i) = Times(F, hinv, Minus(F, Element(F, e[1]), Element(F, e[2])))]

\* sum_idx: z - h * a - b.
SumIdx(F, z, h) ==
  LET El(a) == Element(F, a)
  IN [e \in SymbolsOf(F) \X SymbolsOf(F) |->
       AsInt(F, Minus(F, Minus(F, El(z), Times(F, El(h), El(e[1]))), El(e[2])))]

\* The step of calculate_syndrome: current += x * v.
AddProduct(F, current, v, xk) ==
  AsInt(F, PlusAssign(F, Element(F, current), Times(F, Element(F, xk), Element(F, v))))

(* The decoder keeps the two tables of a field between calls and fills     *)
(* them when an entry is first used; here they are complete from the start,*)
(* and AddProduct is tabulated with them.                                  *)
Tables(F) ==
  LET Entries == SymbolsOf(F) \ {0}
  IN [mult |-> [h \in Entries |-> MultIdx(F, h)],
      sum  |-> [e \in SymbolsOf(F) \X Entries |-> SumIdx(F, e[1], e[2])],
      add  |-> [e \in SymbolsOf(F) \X Entries \X SymbolsOf(F) |->
                AddProduct(F, e[1], e[2], e[3])]]

\* Sum[k] takes in the variables below k.
SyndromeOf(check, word) ==
  LET Sum[k \in 0 .. Length] ==
        IF k = 0 THEN 0
        ELSE LET before == Sum[k - 1]
                 n      == k - 1
             IN IF n \in DOMAIN check
                THEN tables.add[<<before, check[n], word[n]>>] ELSE before
  IN Sum[Length]

CalculateSyndrome(word) ==
  [m \in DOMAIN factors |-> SyndromeOf(factors[m], word)]

-----------------------------------------------------------------------------
(* One pass                                                                *)

ProductFunction(w) == FoldFunction(LAMBDA u, v : u * v, 1, w)

Symbols == SymbolsOf(field)

\* Symmetric::distribution, times scale * (field size - 1).
Distribution(symbol) ==
  [a \in Symbols |->
    IF a = symbol THEN (field.size - 1) * (channel.scale - channel.error)
    ELSE channel.error]

Prior(n) == Distribution(received[n])

First == [a \in Symbols |-> IF a = 0 THEN 1 ELSE 0]

\* One step of calculate_intermediate: the partial sum of the check takes
\* in the variable n, if it is one of the check's.
Absorb(m, n, prev) ==
  IF n \notin DOMAIN factors[m] THEN prev
  ELSE [i \in Symbols |-> SumFunction([j \in Symbols |->
         prev[j] * qmn[m][n][tables.mult[factors[m][n]][<<i, j>>]]])]

\* The distribution of the sum over the variables below k, and from k on.
Sigma(m) ==
  LET Below[k \in 0 .. Length] ==
        IF k = 0 THEN First ELSE LET prev == Below[k - 1] IN Absorb(m, k - 1, prev)
  IN Below

Rho(m) ==
  LET From[k \in 0 .. Length] ==
        IF k = Length THEN First ELSE LET prev == From[k + 1] IN Absorb(m, k, prev)
  IN From

\* Variant: the sum before n is read at n itself.
CheckMessageAtN(m, n) ==
  LET sigma == Sigma(m)[n + 1]
      rho   == Rho(m)[n + 1]
  IN [a \in Symbols |-> SumFunction([b \in Symbols |->
       rho[tables.sum[<<syndrome[m], factors[m][n]>>][<<a, b>>]] * sigma[b]])]

\* r_amn
CheckMessage(m, n) ==
  LET sigma == Sigma(m)[n]
      rho   == Rho(m)[n + 1]
  IN [a \in Symbols |-> SumFunction([b \in Symbols |->
       rho[tables.sum[<<syndrome[m], factors[m][n]>>][<<a, b>>]] * sigma[b]])]

\* factor_neighbours has no entry beyond the last variable of a check.
Neighbours(n) == {m \in DOMAIN factors : n \in DOMAIN factors[m]}
Reached == UNION {0 .. n : n \in {v \in Variables : Neighbours(v) # {}}}

\* f_an times the messages of the given checks.
Product(messages, n, checks) ==
  [a \in Symbols |-> Prior(n)[a] * ProductFunction([m \in checks |-> messages[m][n][a]])]

Gcd[e \in Nat \X Nat] == IF e[2] = 0 THEN e[1] ELSE Gcd[<<e[2], e[1] % e[2]>>]

LowestTerms(col) ==
  LET g == FoldFunction(LAMBDA a, b : Gcd[<<a, b>>], 0, col)
  IN [a \in DOMAIN col |-> IF g = 0 THEN 0 ELSE col[a] \div g]

\* max_by keeps the last of equal maxima.
ArgMax(col) ==
  CHOOSE a \in DOMAIN col : \A b \in DOMAIN col :
    col[b] < col[a] \/ (col[b] = col[a] /\ b <= a)

Estimate(cols) == [n \in Variables |-> ArgMax(cols[n])]

\* A column that is not a number spoils the messages of its check to the
\* check's other variables, and then partial_cmp().unwrap() panics.
NotANumber ==
  \E m \in DOMAIN factors : \E n \in DOMAIN factors[m] :
    /\ \A a \in Symbols : qmn[m][n][a] = 0
    /\ DOMAIN factors[m] # {n}

\* Variant: a variable tells a check what it has heard from that check.
VariableMessageEcho(messages, m, n) == LowestTerms(Product(messages, n, Neighbours(n)))

\* q_amn; the columns of variables beyond the last check's keep the prior.
VariableMessage(messages, m, n) ==
  LowestTerms(IF n \in Reached THEN Product(messages, n, Neighbours(n) \ {m}) ELSE qmn[m][n])

Pass ==
  /\ result = "running" /\ iter < MaxIteration /\ ~NotANumber
  /\ rmn' = [m \in DOMAIN factors |->
            [n \in DOMAIN factors[m] |-> CheckMessage(m, n)]]
  /\ score' = [n \in Variables |->
                IF n \in Reached THEN Product(rmn', n, Neighbours(n)) ELSE score[n]]
  /\ qmn' = [m \in DOMAIN factors |-> [n \in Variables |-> VariableMessage(rmn', m, n)]]
  /\ iter' = iter + 1
  /\ result' = IF CalculateSyndrome(Estimate(score')) = syndrome
               THEN "decoded" ELSE "running"
  /\ UNCHANGED arguments

PassPanics ==
  /\ result = "running" /\ iter < MaxIteration /\ NotANumber
  /\ result' = "panic"
  /\ UNCHANGED <<arguments, qmn, rmn, score, iter>>

GivesUp ==
  /\ result = "running" /\ iter = MaxIteration
  /\ result' = "failed"
  /\ UNCHANGED <<arguments, qmn, rmn, score, iter>>

-----------------------------------------------------------------------------
(* The word received and the one sent are any two words.                   *)

Refuse ==
  /\ result = "refused"
  /\ field = << >> /\ tables = << >> /\ factors = << >> /\ channel = << >>
  /\ received = << >> /\ syndrome = << >> /\ qmn = << >> /\ rmn = << >> /\ score = << >>

Decode ==
  /\ field = FieldOf(code)
  /\ tables = Tables(field)
  /\ factors = ReadFactors(field, code)
  /\ channel \in Channels
  /\ received \in [Variables -> Symbols]
  /\ \E sent \in [Variables -> Symbols] :
       syndrome = CalculateSyndrome(sent)
  /\ qmn = [m \in DOMAIN factors |-> [n \in Variables |-> Prior(n)]]
  /\ rmn = [m \in DOMAIN factors |->
           [n \in DOMAIN factors[m] |-> [a \in Symbols |-> 0]]]
  /\ score = [n \in Variables |-> [a \in Symbols |-> 0]]
  /\ result = "running"

Init ==
  /\ code \in Files
  /\ iter = 0
  /\ IF ReadError(code) = "none" THEN Decode ELSE Refuse

Next == Pass \/ PassPanics \/ GivesUp

Spec == Init /\ [][Next]_vars

-----------------------------------------------------------------------------
(* What the messages and the scores should be                              *)

Weight(cols, word) == ProductFunction([n \in DOMAIN word |-> cols[n][word[n]]])

\* The sum of the weights of the given words in which n is a.
Marginal(words, cols, n) ==
  [a \in Symbols |->
    SumFunction([w \in {v \in words : v[n] = a} |-> Weight(cols, w)])]

(* The arithmetic of the symbols, by that of their elements.               *)
PlusOf(F, a, b)  == AsInt(F, Plus(F, Element(F, a), Element(F, b)))
MinusOf(F, a, b) == AsInt(F, Minus(F, Element(F, a), Element(F, b)))
TimesOf(F, a, b) == AsInt(F, Times(F, Element(F, a), Element(F, b)))

SymbolsAdd(F) ==
  LET S == SymbolsOf(F)
  IN /\ F.size \in Nat \ {0, 1}
     /\ \A a, b \in S :
          /\ {PlusOf(F, a, b), MinusOf(F, a, b), TimesOf(F, a, b)} \subseteq S
          /\ PlusOf(F, a, b) = PlusOf(F, b, a) /\ PlusOf(F, a, 0) = a
     /\ \A a, b, c \in S :
          /\ PlusOf(F, PlusOf(F, a, b), c) = PlusOf(F, a, PlusOf(F, b, c))
          /\ PlusOf(F, b, c) = a <=> c = MinusOf(F, a, b)

(* What the tables are for. The decoder adds up h * e for the variables of *)
(* a check; mult gives the one e that takes a sum from j to i, and sum the *)
(* one value that is missing from a check with h * a and b to make z.      *)
TablesSolve(F) ==
  LET S == SymbolsOf(F)
      t == Tables(F)
  IN /\ \A h \in S \ {0}, a, b \in S :
          t.add[<<b, h, a>>] = PlusOf(F, b, TimesOf(F, h, a))
     /\ \A h \in S \ {0}, a, b \in S :
          /\ t.mult[h][<<a, b>>] \in S
          /\ PlusOf(F, b, TimesOf(F, h, t.mult[h][<<a, b>>])) = a
          /\ t.mult[h][<<PlusOf(F, b, TimesOf(F, h, a)), b>>] = a
     /\ \A h \in S \ {0}, a, b, z \in S :
          t.sum[<<z, h>>][<<a, b>>] = MinusOf(F, MinusOf(F, z, TimesOf(F, h, a)), b)

\* The entries of a file are elements other than zero.
EntriesInvert(F, f) ==
  \A m \in RowsOf(f) : \A e \in PairsOf(f, m) :
    AsInt(F, Entry(F, e[2])) \in 1 .. F.size - 1

\* The fields of the files compute as fields do.
FieldsSolve ==
  \A f \in Files : ReadError(f) = "none" =>
    LET F == FieldOf(f) IN SymbolsAdd(F) /\ TablesSolve(F) /\ EntriesInvert(F, f)

(* A check tells each of its variables how likely each symbol makes the    *)
(* check true, by all the assignments to its other variables: the forward  *)
(* and backward sums of calculate_intermediate, through the tables of      *)
(* mult_idx and sum_idx, lose and double none (decoder.rs 76-143, 222-246).*)
MessagesExact ==
  [][ rmn' # rmn =>
      \A m \in DOMAIN factors : \A n \in DOMAIN factors[m] :
        LET Check == DOMAIN factors[m]
            true  == {w \in [Check -> Symbols] :
                        SyndromeOf(factors[m], w) = syndrome[m]}
            cols  == [l \in Check |->
                        IF l = n THEN [a \in Symbols |-> 1] ELSE qmn[m][l]]
        IN rmn'[m][n] = Marginal(true, cols, n) ]_vars

\* Each check shares at most one variable with those before it.
CycleFree ==
  \A m \in DOMAIN factors :
    Cardinality(DOMAIN factors[m]
                \cap UNION {DOMAIN factors[k] : k \in 1 .. m - 1}) <= 1

\* u and v are the same distribution, if v is one.
SameOdds(u, v) ==
  (\E a \in DOMAIN v : v[a] # 0) =>
    /\ \E a \in DOMAIN u : u[a] # 0
    /\ \A a, b \in DOMAIN u : u[a] * v[b] = u[b] * v[a]

(* In a matrix without cycles the scores become the exact likelihoods of   *)
(* the symbols given what was received and the syndrome, once as many      *)
(* passes are made as there are checks. Variables after the last one that  *)
(* a check names are left at zero (decoder.rs 145-159, 247-259).           *)
BeliefsExact ==
  (CycleFree /\ iter >= Len(factors)) =>
    LET words == {w \in [Variables -> Symbols] :
                    CalculateSyndrome(w) = syndrome}
        priors == [n \in Variables |-> Prior(n)]
    IN \A n \in Reached : SameOdds(score[n], Marginal(words, priors, n))
=============================================================================

------------------------------ MODULE Cascade ------------------------------
(***************************************************************************)
(* Error correction by Cascade, on the leader.  Every iteration shuffles   *)
(* the positions of the key and cuts them into blocks, each the root of a  *)
(* binary tree of halves.  The follower is asked for the parities of roots *)
(* and of left halves; a right half follows from its parent.  A wrong leaf *)
(* is flipped, which may make blocks of other iterations odd, so the       *)
(* iterations are swept backward and forward until nothing is learnt.      *)
(*                                                                         *)
(* A block is <<iteration, first, length>>: a stretch of the shuffled      *)
(* positions.  A key is the set of its positions whose bit is 1.           *)
(***************************************************************************)
EXTENDS Integers, FiniteSets

CONSTANTS
  Length,      \* of the key
  BlockSize,   \* of the first iteration: ceil(0.73 / estimated_error)
  Iterations,  \* num_iterations
  Shuffles,    \* orders of the positions an iteration may draw
  References,  \* keys the follower may have
  MaxErrors    \* bound: wrong bits in the leader's key

Positions == 1..Length
Turns == 0..(Iterations - 1)

ASSUME LengthAssumption == Length \in Nat
ASSUME BlockSizeAssumption == BlockSize \in Nat \ {0}
ASSUME IterationsAssumption == Iterations \in Nat \ {0}
ASSUME ShufflesAssumption ==
  \A s \in Shuffles : s \in [Positions -> Positions] /\ {s[k] : k \in Positions} = Positions
ASSUME ReferencesAssumption == References \subseteq SUBSET Positions
ASSUME MaxErrorsAssumption == MaxErrors \in Nat

VARIABLES
  order,      \* iteration -> the shuffled positions
  reference,  \* the follower's key
  key,        \* the working key all iterations share
  correct,    \* block whose parity is known -> correct_parity
  asked,      \* parity_blocks: the blocks of the open request
  iteration,  \* index of the iteration looked at
  heading,    \* CascadeState: "forward" or "backward" ...
  limit,      \* ... its max_iter ...
  leaked,     \* ... and whether this sweep has asked for a parity
  leakedBits, \* leaked_bits
  outcome     \* "running", "done", or "refused" after an unfit answer

vars == <<order, reference, key, correct, asked, iteration, heading, limit,
          leaked, leakedBits, outcome>>

-----------------------------------------------------------------------------
(* Blocks: CascadeIteration::new and CascadeBlock::new.                    *)

Lesser(a, b) == IF a < b THEN a ELSE b

\* chunks(block_size), the size doubling with every iteration.
SizeOf[i \in Turns] == IF i = 0 THEN BlockSize ELSE 2 * SizeOf[i - 1]
Roots(i) ==
  {<<i, k * SizeOf[i] + 1, Lesser(SizeOf[i], Length - k * SizeOf[i])>> :
     k \in {k \in 0..Length : k * SizeOf[i] < Length}}

\* split_at(length / 2)
Left(b) == <<b[1], b[2], b[3] \div 2>>
Right(b) == <<b[1], b[2] + b[3] \div 2, b[3] - b[3] \div 2>>
IsLeaf(b) == b[3] = 1

Stretches == {b \in Turns \X Positions \X Positions : b[2] + b[3] - 1 <= Length}
Tree[b \in Stretches] ==
  IF IsLeaf(b) THEN {b} ELSE {b} \cup Tree[Left(b)] \cup Tree[Right(b)]

Blocks == UNION {Tree[b] : b \in UNION {Roots(i) : i \in Turns}}
Lefts == {Left(b) : b \in {b \in Blocks : ~IsLeaf(b)}}
Rights == {Right(b) : b \in {b \in Blocks : ~IsLeaf(b)}}

\* parent, and the right_sibling of a left half.
Parent == [b \in Lefts \cup Rights |->
             CHOOSE p \in Blocks : ~IsLeaf(p) /\ b \in {Left(p), Right(p)}]
Sibling(b) == Right(Parent[b])

Members(b) == {order[b[1]][k] : k \in b[2]..(b[2] + b[3] - 1)}
Differences(bits, others) == (bits \ others) \cup (others \ bits)
ParityOf(bits, b) == Cardinality(bits \cap Members(b)) % 2

-----------------------------------------------------------------------------
(* get_unknown_parity_blocks: roots, and below the known blocks of wrong   *)
(* parity the left halves, whose parity is unknown.                        *)

Odd(b) == correct[b] # ParityOf(key, b)

\* Variant: both halves are asked for.
UnknownHalves ==
  [b \in Blocks |->
     LET Found[c \in Blocks] ==
           IF c \notin DOMAIN correct THEN {c}
           ELSE IF Odd(c) /\ ~IsLeaf(c)
                THEN Found[Left(c)] \cup Found[Right(c)]
                ELSE {}
     IN Found[b]]

\* Variant: every left half below an unknown block is asked for with it.
UnknownNested ==
  [b \in Blocks |->
     LET Found[c \in Blocks] ==
           IF c \notin DOMAIN correct /\ c \notin Rights
           THEN {c} \cup (IF IsLeaf(c) THEN {} ELSE {Left(c)})
           ELSE IF c \in DOMAIN correct /\ Odd(c) /\ ~IsLeaf(c)
                THEN Found[Left(c)] \cup Found[Right(c)]
                ELSE {}
     IN Found[b]]

Unknown ==
  [b \in Blocks |->
     LET Found[c \in Blocks] ==
           IF c \notin DOMAIN correct
           THEN IF c \in Rights THEN {} ELSE {c}
           ELSE IF Odd(c) /\ ~IsLeaf(c)
                THEN Found[Left(c)] \cup Found[Right(c)]
                ELSE {}
     IN Found[b]]

UnknownParityBlocks == UNION {Unknown[b] : b \in Roots(iteration)}

-----------------------------------------------------------------------------
(* Cascade::step, one action per turn of its loop.                         *)

Looking == outcome = "running" /\ asked = {}

Ask ==
  /\ Looking
  /\ UnknownParityBlocks # {}
  /\ asked' = UnknownParityBlocks
  /\ leaked' = TRUE
  /\ UNCHANGED <<order, reference, key, correct, iteration, heading, limit,
                 leakedBits, outcome>>

Backward ==
  /\ heading = "backward"
  /\ IF iteration > 0
     THEN /\ iteration' = iteration - 1
          /\ UNCHANGED heading
     ELSE /\ iteration' = Lesser(iteration + 1, limit)
          /\ heading' = "forward"
  /\ UNCHANGED <<limit, leaked, outcome>>

\* Variant: the last iteration is left like any other.
AtLastOffByOne == iteration = Iterations
AtLast == iteration + 1 = Iterations

\* Variant: the last iteration ends the sweep whatever it has learnt.
FinishEagerly ==
  /\ heading = "forward" /\ iteration + 1 = Iterations
  /\ outcome' = "done"
  /\ UNCHANGED <<iteration, heading, limit, leaked>>

Finish ==
  /\ heading = "forward" /\ AtLast /\ ~leaked
  /\ outcome' = "done"
  /\ UNCHANGED <<iteration, heading, limit, leaked>>

\* Variant: the new sweep starts with the flag of the old one.
TurnBackLeaked ==
  /\ heading = "forward" /\ iteration = limit /\ leaked
  /\ iteration' = IF iteration > 0 THEN iteration - 1 ELSE 0
  /\ heading' = "backward"
  /\ UNCHANGED <<limit, leaked, outcome>>

TurnBack ==
  /\ heading = "forward" /\ iteration = limit /\ leaked
  /\ iteration' = IF iteration > 0 THEN iteration - 1 ELSE 0
  /\ heading' = "backward"
  /\ leaked' = FALSE
  /\ UNCHANGED <<limit, outcome>>

Extend ==
  /\ heading = "forward" /\ iteration = limit /\ ~leaked /\ ~AtLast
  /\ iteration' = iteration + 1
  /\ limit' = Lesser(limit + 1, Iterations)
  /\ UNCHANGED <<heading, leaked, outcome>>

Forward ==
  /\ heading = "forward" /\ iteration # limit
  /\ leaked \/ ~AtLast
  /\ iteration' = iteration + 1
  /\ UNCHANGED <<heading, limit, leaked, outcome>>

Sweep ==
  /\ Looking
  /\ UnknownParityBlocks = {}
  /\ Backward \/ Finish \/ TurnBack \/ Extend \/ Forward
  /\ UNCHANGED <<order, reference, key, correct, asked, leakedBits>>

-----------------------------------------------------------------------------
(* Cascade::update                                                         *)

\* Variant: a right half gets the parity of its left sibling.
InferredCopied == [b \in {Sibling(l) : l \in asked \cap Lefts} |->
                     ParityOf(reference, Left(Parent[b]))]
\* The right siblings of the left halves told, whose parents are known.
Inferred ==
  [b \in {Sibling(l) : l \in {l \in asked \cap Lefts : Parent[l] \in DOMAIN correct}} |->
     (correct[Parent[b]] + ParityOf(reference, Left(Parent[b]))) % 2]

\* Variant: every leaf that is told is flipped.
FlippedBlindly(learnt) == UNION {Members(b) : b \in {b \in DOMAIN learnt : IsLeaf(b)}}
\* The leaves among them whose bit has the other parity.
Flipped(learnt) ==
  UNION {Members(b) : b \in {b \in DOMAIN learnt :
                               IsLeaf(b) /\ learnt[b] # ParityOf(key, b)}}

\* set_block_parities works through the blocks one by one; they share no
\* position, so they do not see each other's flips.
Update ==
  /\ asked # {}
  /\ LET learnt == [b \in asked \cup DOMAIN Inferred |->
                      IF b \in asked THEN ParityOf(reference, b) ELSE Inferred[b]]
     IN /\ correct' = [b \in DOMAIN correct \cup DOMAIN learnt |->
                         IF b \in DOMAIN learnt THEN learnt[b] ELSE correct[b]]
        /\ key' = Differences(key, Flipped(learnt))
  /\ leakedBits' = leakedBits + Cardinality(asked)
  /\ asked' = {}
  /\ UNCHANGED <<order, reference, iteration, heading, limit, leaked, outcome>>

\* Another number of parities, or another response: the blocks are gone.
UpdateRefused ==
  /\ asked # {}
  /\ asked' = {}
  /\ outcome' = "refused"
  /\ UNCHANGED <<order, reference, key, correct, iteration, heading, limit,
                 leaked, leakedBits>>

\* SetupCascade::setup
Init ==
  /\ order \in [Turns -> Shuffles]
  /\ reference \in References
  /\ key \in {bits \in SUBSET Positions :
               Cardinality(Differences(bits, reference)) <= MaxErrors}
  /\ correct = <<>>
  /\ asked = {}
  /\ iteration = 0 /\ heading = "forward" /\ limit = 0 /\ leaked = FALSE
  /\ leakedBits = 0
  /\ outcome = "running"

Next == Ask \/ Sweep \/ Update \/ UpdateRefused

\* The leader's run_step keeps stepping while the follower answers.
Spec == Init /\ [][Next]_vars /\ WF_vars(Next)
-----------------------------------------------------------------------------
(* Properties.                                                             *)

\* Every variable has its type; the sweeps never leave the iterations.
TypeOK ==
  /\ order \in [Turns -> Shuffles]
  /\ reference \subseteq Positions /\ key \subseteq Positions
  /\ DOMAIN correct \subseteq Blocks
  /\ \A b \in DOMAIN correct : correct[b] \in {0, 1}
  /\ asked \subseteq Blocks
  /\ iteration \in Turns /\ limit \in Turns
  /\ heading \in {"forward", "backward"}
  /\ leaked \in BOOLEAN
  /\ leakedBits \in Nat
  /\ outcome \in {"running", "done", "refused"}

\* A parity that was inferred is as good as one that was told: every
\* correct_parity is the parity of the follower's key, at any time.
ParitiesTrue == \A b \in DOMAIN correct : correct[b] = ParityOf(reference, b)

Errors == Differences(key, reference)

\* A bit is flipped only if it is wrong, also when several iterations have
\* corrected bits of the block it was found in.
ErrorsOnlyShrink == [][Errors' \subseteq Errors]_vars

\* Cascade ends only when no block of any iteration holds an odd number of
\* errors, so that an undetected error has company in each of its blocks.
ResidualEven ==
  outcome = "done" =>
    \A i \in Turns : \A b \in Roots(i) : Cardinality(Errors \cap Members(b)) % 2 = 0

\* leaked_bits counts each parity the follower has told, and a parity that
\* could be inferred is never asked for, nor is one asked for twice.
LeakExact == leakedBits = Cardinality(DOMAIN correct \ Rights)

\* The blocks of one request share no position: the parities are independent
\* and the order in which they are applied does not matter.
AskedDisjoint ==
  \A b, c \in asked : b # c => Members(b) \cap Members(c) = {}

\* Cascade reconciles as KeySession takes it to.
Promise == INSTANCE Reconciliation WITH
  state <- IF outcome = "done" THEN "done"
           ELSE IF outcome = "refused" THEN "failed"
           ELSE IF asked # {} THEN "waiting" ELSE "idle",
  open <- Cardinality(asked),
  leak <- leakedBits,
  wrong <- Cardinality(Errors)

ImplementsReconciliation == Promise!Spec
=============================================================================

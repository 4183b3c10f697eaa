# A TLA+ model of aegle

aegle runs the classical post processing of quantum key distribution (QKD)
between pairs of modules: two modules receive the sifted keys of a QKD device,
agree over QUIC which of them leads, estimate the error of each key, correct it
with Cascade and hash it down to a secret key. This directory holds a model of
that system: TLA+ modules translated from the Rust source, TLC configurations
that check them on small instances, and TLAPS proofs of what holds for every
instance. Paths and line numbers below are relative to `src/`.

## 1. The system

| Part | State it keeps | Operations | Interacts with |
|---|---|---|---|
| Module (`app/src/main.rs`, `subsystems.rs`) | one `TaskManager`, the panic hook | `start_subsystems`, `wait_for_panic` | starts the four subsystems below |
| Task manager (`core/src/sync/tasks`) | `JoinSet` of subsystems, a channel whose senders count the tasks, a cancellation token | `spawn_subsystem!`, `Monitor::run`, `monitor`, `timed_monitor` | every program, and once more inside each follower |
| Peer manager (`peer_communication.rs`) | `Peers`: per peer and device `Connected` or `Disconnected` | `handle_peer_update`, 15 s dial timer, `launch_peer_communication` | listener, dials and sessions through one channel of `PeerUpdate`s |
| Listener (`listen_for_peer_connections`) | none | accept a connection, read the peer's id | peer manager |
| Communication task | stream, role | handshake, ask for the key channel, start leader or follower, report the end | peer manager, QKD manager, task manager |
| QKD manager (`qkd_communication.rs`) | device -> channel of its session | accept devices, forward keys, register sessions | devices, leader and follower through channels of 64 keys |
| Leader (`role/leader.rs`) | per key: the pipeline | `handle_new_key`, `process_key`, `run_step` | follower over one stream per key |
| Follower (`role/follower.rs`) | `keys_working`: per key a one-shot channel; per session key and leak count | `handle_new_key`, `listen_for_new_stream`, `process_key` | leader, its own task manager |
| Pipeline (`core/src/traits.rs`, `app/src/models`) | current stage and its key | `step`, `update`, `finalize` of `BEREstimation`, `BERLimit`, `Cascade`, `PrivacyAmplification` | asks the follower through the leader |
| Cascade (`error-correction-cascade`) | working key, block trees, known parities, the sweep | `step`, `update`, `finalize` | pipeline |
| Binary LDPC (`error-correction-binary-ldpc`) | parity matrix, messages and odds of every bit, leak | `from_alist`, `step`, `update`, `finalize`, `belief_propagation` | a stage like Cascade; no binary of the workspace uses it |
| Non-binary LDPC (`error-correction-nonbinary-ldpc`) | field, tables, matrix, messages and scores of every symbol | `Decoder::decode`, polynomial and field arithmetic, two file formats | nothing in the workspace uses it |
| Emulator (`emulator/src`) | two connections | `handle_link`, `send_keys`, reconnects | stands in for a QKD device |

What is hard here, and what makes it correct:

* **Key session.** Two tasks on two machines alternate over one stream with no
  timeout but one; either can end at any point. Their keys must keep the same
  length after positions are removed, everything disclosed must come off the
  secret, an answer must belong to the request, and neither may be left
  waiting. At the end both should have the secret or neither.
* **Cascade.** Parities learnt in one iteration are compared with a key that
  other iterations change. Inferred parities must be true, only wrong bits may
  be flipped, the leak must be exact, and the sweeps must stop, but not before
  every block is even.
* **Task manager and shutdown.** Waiting for the last sender of a channel is
  right only if every sender is dropped. Managers are nested, panics arrive by a
  hook, and a task may start another during the shutdown.
* **Peers.** Both modules dial, listen, accept and reject concurrently while
  connections die; a stale report must not disconnect a newer session.
* **LDPC.** Messages of one pass are built from those of the pass before, each
  leaving out what it answers to; sums run forward and backward through tables
  of field products. One index off still decodes most words. Division of
  polynomials and powers end only if leading terms cancel.
* **QKD distribution.** Keys arrive at the two modules at different times,
  before and after the session is registered, through bounded channels.

`PROJECT.json` lists every hazard at its line with the properties that cover it.

## 2. The modules

| Module | Models | Based on |
|---|---|---|
| `KeyAgreement` | what a key session promises: abstract specification | leader and follower outcomes |
| `KeySession` | both `process_key`s, the pipeline, the stream | `leader.rs`, `follower.rs`, `traits.rs`, `ber_estimation.rs`, `privacy_amplification.rs`, `models.rs` |
| `KeySessionProofs` | TLAPS proofs about `KeySession` | |
| `Reconciliation` | what Cascade promises the pipeline: abstract specification | `Cascade::step`, `update` |
| `Cascade` | Cascade on real bits | `cascade.rs` |
| `CascadeProofs` | TLAPS proofs about `Cascade` | |
| `TaskManager` | `monitor`, `timed_monitor`, `Monitor::run` | `task_manager.rs`, `task_monitor.rs` |
| `TaskManagerProofs` | TLAPS proofs about `TaskManager` | |
| `Shutdown` | two instances of `TaskManager` composed as in a running module | `subsystems.rs`, `follower.rs` |
| `ShutdownProofs` | TLAPS proofs about `Shutdown` | |
| `PeerManagement` | two modules' dials, listeners, managers and handshakes | `peer_communication.rs`, `peer.rs` |
| `PeerManagementProofs` | TLAPS proofs about `PeerManagement` | |
| `QkdManager` | the emulator, `handle_qkd`, `qkd_manager` | `emulator.rs`, `qkd_communication.rs` |
| `KeyUse` | what the delivery of keys promises the sessions: abstract specification | the two `handle_new_key`s, `process_key` of the follower |
| `KeyDelivery` | composes `QkdManager` with the sessions: both `handle_new_key`s, the listener, the wait for a key | `leader.rs`, `follower.rs`, `peer_communication.rs` |
| `KeyDeliveryProofs` | TLAPS proofs about `KeyDelivery` with `QkdManager` | |
| `Polynomial` | polynomials over the integers modulo p | `polynomial.rs` |
| `FiniteField` | Rabin's irreducibility test, fields, their numbering, primitive elements, matrix files | `polynomial.rs`, `finite_field.rs`, `utils.rs` |
| `NonBinaryLdpc` | `Decoder::decode` with exact likelihoods | `decoder.rs` |
| `Arithmetic` | what the arithmetic is to compute, stated by plain definitions: products of smaller polynomials, common divisors, the laws of a field | |
| `PolynomialProofs` | TLAPS proofs about `Polynomial` | |
| `BinaryLdpc` | the binary stage and the follower's answer, belief propagation with exact odds | `lib.rs`, `parity_matrix.rs`, `belief_propagation.rs` |
| `LdpcProofs` | TLAPS proofs about `FiniteField`, `Arithmetic`, `NonBinaryLdpc` and an instance of `BinaryLdpc` | |
| `MCLdpc` | one instance of each LDPC part, the subjects the arithmetic is tried on, and the statements about belief propagation | |
| `MCKeySession`, `MCCascade`, `MCPeerManagement`, `MCKeyDelivery` | constants for TLC | |

Definitions named "Variant: ..." in a comment are plausible bugs of the
definition below them. No specification uses them; they are put in its place
to see that the property in question can fail.

### KeySession and KeyAgreement

One action per step of a `process_key`: `LeaderRegister` opens the stream and
writes `RegisterKey`, `LeaderReply` reads the answer, `DrawSample`, `Abort`,
`SetupPanics`, `CascadeAsks`, `CascadeEnds` and `LeaderHashes` are one
`run_step` each with the request it leads to, `LeaderUpdate` reads an answer
and calls `update` on the stage that asked. On the follower `FollowerAccepts`,
`FollowerTimeout` (30 s), `FollowerFindsKey`, `FollowerServes` and
`FollowerAmplifies` follow the match arms. `lpc` and `fpc` are the places where
the two functions wait; `stage` is the state of the pipeline.

A key is abstracted to its length, and the pair of keys to the number of
positions in which they differ: no guard of the code looks at more.
`SampleSize` is the statistical formula with its constants as fractions, so the
lengths 20, 40 and 60 of the run give samples of 20, 37 and 53 bits. Which of
the differences are sampled is a choice. In a Cascade round the leader asks for
1..MaxParities parities and any number of differences goes away; `Cascade`
shows that the real algorithm does no more than that.

A message on a live connection is read unless the reader has returned. A write
to a reader that has returned may succeed or fail. `ConnectionLost` keeps some
prefix of what is under way in each direction. An operation that panics (hash
size underflow, empty key, block size overflow: `make build` builds a debug
binary, in which these overflows panic) ends the task, and its end of the
stream closes. So does a Syndrome request longer than the follower's buffer of
1 MiB, which `read_message` slices without a check (`FollowerOverflows`,
`parse.rs:26`): `BufferedLength` is the longest key all of whose requests fit.

`KeyAgreement` is the promise: the follower commits only after it was asked,
the leader only after the follower has committed, both decide. The refinement
maps `lout` and `fout` to "working", "secret" or "none". It is the strongest
agreement the protocol gives: "both or neither" is false, because the follower
saves its secret although the confirmation may be lost (`follower.rs:271`);
`OnlyLossSplits` states exactly when that can be.

### Cascade and Reconciliation

A block is a stretch `<<iteration, first, length>>` of the shuffled positions;
`Tree` is `CascadeBlock::new`, `Unknown` is `impl_get_unknown_parity_blocks`,
`correct` holds the `correct_parity` of the blocks that have one. `Ask` and the
disjuncts of `Sweep` are the turns of the loop in `step`; `Update` is `update`
with `set_block_parities`, which the model applies to all blocks at once: the
invariant `AskedDisjoint` is what makes that the same. `Reconciliation` is what
`KeySession` takes from it: at least one parity per request, all counted,
differences only shrink, and it ends.

### TaskManager and Shutdown

`Senders` lists who holds a clone of the channel's sender: the manager itself
until it drops them, each running subsystem, each running job. `Returns` is the
`recv()` that answers when there is none. `Join` of a panicked subsystem returns
through `?` before cancellation, and dropping the `JoinSet` aborts the other
subsystems but no job. `Shutdown` instantiates the module twice, as `Outer` for
`start_subsystems` and as `Inner` for `start_follower`, and adds what connects
them: `wait_for_cancel`, the panic hook, `process_key` as a job of the inner
manager.

### PeerManagement

Per connection the model keeps where its client and its server end are
(`connecting`, `status`, `incoming`, `queued`, `launch`, `role`, `handshake`,
`session`), the unread messages and the roles; per node the status entry and
the queue of `PeerUpdate`s. `Dial` is the timer branch, `Establish` to
`ReadStatus` are `try_connect_to_peer`, `ListenerReads` and `ListenerFails` the
listener, `ManagerHandlesNew`, `ManagerHandlesGone` and `ManagerFails` one turn
of the manager (status change, answer and start of the task together, for the
branch has no other writer in between), the rest
`launch_peer_communication`. A subsystem that returns an error stops its module
(`Stopped`); a restart begins with every peer disconnected.

### QkdManager and KeyDelivery

A key is a number. `QkdManager` follows it from `handle_link` (`MakeKey`,
`SendKey`, `Reconnect`) over the device's connections (`wire`, one queue per
connection, because a `handle_qkd` may still read from the old one when the new
one is up) and `handle_qkd` (`ReadKey`, `HandlerEnds`) into the manager's inbox.
`TakeKey` is the manager's branch for keys; if the channel is full the key sits
in `holding` and every other branch waits, as `tx.send(key).await` inside the
`select!` does (`SendResumes`). `Register` replaces the channel.

`KeyDelivery` adds the two modules' sessions. That they come one after the other
is what `PeerManagement` shows. `LeaderTakes` and `LeaderRegisters` are the
leader's intake; `FollowerTakes` and `FollowerStarts` are the two branches of
the follower's `handle_new_key`: an entry of `keys_working` is represented by
what was taken out of it, the sender (`deposited`) and the receiver (`ftask` no
longer "none"). The old session's role may still read its channel when the new
one has registered. What happens after the key is found is `KeySession`.

`KeyUse` is the promise: a module uses its copy of a key in one session and
never again, and copies meet only in the session in which both are used, which
is where a `KeySession` begins. The refinement maps `use` to the session that
has taken a module's copy in (`Taken`) and `met` to the session whose follower
has found it. A promise to meet is not part of it: the modules change from one
session to the next at different times, and a copy that comes in between is
lost. When copies do meet is `KeysMeet`.

### Polynomial and FiniteField

Pure algorithms. A polynomial is a function from the exponents of its terms to
their coefficients, as the map of the code; `DivMod`, `Egcd`, `PolyGcd`, `Pow`
and `IsIrreducible` are the functions of `polynomial.rs`. A `while` loop is
`Loop`, which takes the condition on which the loop ends, what a turn does, and a
number of turns that is enough (that it is enough is part of what is proved).
`WithSize` searches `IterPoly` for an irreducible polynomial as
`FiniteField::with_size` does and reports its errors; `AsInt` and `Element` are
the two directions between elements and numbers; `Entry` is the power of the
first primitive element a matrix file names. `Raise` is `u32::pow`. The only
`RECURSIVE` operator of the project is one of `MCLdpc`; everything else can be
proved about.

`Arithmetic` says what all this is to compute. Its constant `Subjects` holds what
the statements are about: pairs of polynomials, candidates for Rabin's test,
fields, triples of elements, matrix files. `IsSubject` admits any prime, degree
and polynomial; `MCLdpc` gives TLC small ones, and the proofs take them all.

### NonBinaryLdpc and BinaryLdpc

Both are belief propagation, one action per pass. The floats of the code are
replaced by exact numbers: likelihoods (f32) by integers that are
taken to their lowest terms, because only their ratios decide, and the logarithmic odds (f64) by
pairs of integers. `NonBinaryLdpc` keeps the tables of `mult_idx` and `sum_idx`,
the forward and backward sums of `calculate_intermediate`, and the panics: a
division of a column of zeros ends in `PassPanics`. `BinaryLdpc` has the phases
of the stage (`Setup`, `Ask`, `FollowerAnswers`, `Begin`, `Pass`, `GivesUp`,
`Finalize`), and the refusals of `from_alist`; a file that names a position or a
check that does not exist panics where the code does (`Oversized`,
`PassPanics`).

## 3. The runs

| Run | Instance | Shows |
|---|---|---|
| `KeySession` | lengths {0, 20, 40, 60} for each side independently, up to 5 differences, 2 parities per request, 3 requests, a buffer that the longer keys may exceed | invariants, refinement of `KeyAgreement`, termination |
| `KeySessionFound` (violation) | the same | the pipeline starts after `LengthMismatch` |
| `Cascade` | 9 positions, blocks of 2, 4 and 8 with a last block of 1, three shuffles per iteration, every pattern of up to 4 errors against 2 follower keys | invariants, refinement of `Reconciliation` with termination |
| `TaskManager` | 3 subsystems, 3 jobs | clean shutdown, completion |
| `TaskManagerTimed` (violation) | the same with `timed_monitor` | it never returns |
| `Shutdown` | 2 sessions of the follower | panic and cancellation stop the module; orphans only after a panic |
| `ShutdownPanic` (violation) | the same | a session outlives the module's monitor |
| `KeyDelivery` | 2 keys, 2 sessions, channels of 1 key, 1 lost device connection | a key is used in one session at most and reaches it once; refinement of `KeyUse` |
| `KeyDeliveryTimed` | 2 keys, 1 session that may end, 1 lost device connection | a waiting manager resumes; the copies of a key meet |
| `PeerManagement` | 2 nodes that both dial, 3 connections, 1 loss anywhere, 1 restart | one communication per node, opposite roles, no dial ends a session, no handshake stops a module while nothing is lost |
| `PeerEstablish` | one node dials, no loss | a session comes about and stays |
| `Ldpc` | `Polynomial`, `FiniteField`, `NonBinaryLdpc` and `BinaryLdpc`, each on its own | `IrreducibleExact`, `DivisionExact`, `FieldsAreFields`, `MessagesExact`, `NonBinaryBeliefsExact`, `BinaryBeliefsExact`, `OneErrorCorrected` |

Why the bounds are enough. *KeySession*: 20 is a key the sample uses up, 40
leaves fewer bits than can leak (the hash size underflows), 60 leaves enough;
two unequal lengths give the mismatch, three requests give a first, a middle and
a last one. The proofs do not depend on the bounds at all. *Cascade*: with three
iterations the sweep goes backward past the first, turns, extends and ends; the
run contains behaviours in which a flip makes a block of an earlier iteration
odd, in which an even pattern of errors stays undetected, and in which more
parities leak than the key has bits. *TaskManager*: one subsystem to join, one
to abort, one left; a job that starts another, and a third afterwards.
*PeerManagement*: three connections let a session coexist with a doubled dial
and one in the other direction; slots are reused, so the number of dials over
time is not bounded. Connections are interchangeable, hence the symmetry; that
run checks no liveness.

*KeyDelivery*: with one place per channel a second key makes the manager wait, and
a second session has to register around it; one cut already gives two
connections with unread keys on both. The run without fairness takes the two
nodes as interchangeable; the one with fairness does not, and needs only one
session because what may stop a manager is the end of the session it serves.

*Ldpc*: the parts share no state, so a behaviour picks one. The algebra is tried
on every pair of polynomials over Z_2 up to degree 3 and every monic one over
Z_3 up to degree 2 with every divisor up to degree 2; Rabin's test on every monic
polynomial of the degrees 1 to 4 over Z_2, 1 to 3 over Z_3 and 2 over Z_5
(degree 4 is the first with a proper divisor that is not 1); fields up to 9
elements, with both prime fields and extensions. The non-binary decoder gets
three symbols over GF(3) and GF(4), received with or without errors, with one
check, a chain of two (a variable between two checks has to leave one out), a
cycle, and variables in no check, in both file formats, and files refused for
four reasons; two passes are as many as the chain has checks. The binary
stage gets four bits, a chain of three checks and three passes, files with a
column in no check, narrower and wider than the key, that name what does not
exist, and both refusals. Beliefs are compared with a sum over all words, in
matrices without cycles: with cycles belief propagation is an approximation and
has no exact value to state.

Deadlock is not checked in these runs: every one of these systems may
legitimately stop (a session that is over, a module that has shut down, two
peers between timers).

### Fairness

* `KeySession`: weak fairness of each side's next step, because tokio polls
  every ready task and its timer fires. The arrival of a key and the loss of the
  connection are never owed.
* `Cascade`: the leader keeps stepping (`run_step` in a loop).
* `TaskManager`: the manager's own step; a subsystem or a job owes its end only
  once the token is cancelled, which is when the code makes it select the
  `cancelled()` branch. A `process_key` has no such branch; it ends because the
  key session does (`SessionEnds`).
* `Shutdown`: the same for both managers; signals, errors, panics and sessions
  are not owed.
* `KeyDelivery`: the emulator, each `handle_qkd`, each manager, each branch of the
  roles and each `process_key`; a session whose connection is up gets its roles.
  Connections owe no loss, and the module no further session.
* `PeerManagement`: the timer of a disconnected node, the manager and the tasks
  of a connection. Losses, stops and restarts are not owed. The listener is
  taken to finish the reads it has begun.

### Disagreements found

1. `leader.rs:157`: `LengthMismatch` falls through to the pipeline, while
   `README.md:663` says the leader verifies "a key with the same ID and size
   exists on the follower". The session then ends with a failed write or read.
2. `task_manager.rs:102`: `timed_monitor` keeps `self.monitor`, hence a sender,
   while it waits for all senders to go. It would never return; nothing calls it
   at this commit.
3. `task_manager.rs:67`: a panic in the follower's `handle_new_key`
   (`todo!`, `follower.rs:146`) makes the inner manager leave without cancelling
   or waiting, so the module's `monitor()` returns while sessions run, although
   `subsystems.rs:24` promises a clean shutdown if any panic is raised.

Two behaviours contradict no document but are worth knowing. When both nodes
dial at the same moment, each manager connects its own dial and rejects the
other's, both handshakes fail without a report (`peer_communication.rs:72`), and
both nodes stay `Connected` without a session: `PeerEstablish` with
`Dialers = {alice, bob}` shows it. And a sample without errors makes the block
size overflow (`cascade.rs:213`), a panic in a debug build.

## 4. Proofs

TLC checks small instances. The theorems below hold for every value of the
constants; they assume what the modules assume of them (lengths, bounds and
capacities are natural numbers, shuffles are permutations, there are exactly two
nodes) and nothing else.

### Key session

`KeySessionProofs`, for every set of lengths and all bounds:

| Theorem | States |
|---|---|
| `Invariance` | `Spec => []IInv` |
| `TypeCorrect` | `Spec => []TypeOK` |
| `Alignment` | `Spec => []KeysStayAligned` |
| `AnswersFit` | `Spec => []AnswersFitRequests` |
| `SecretAgreement` | `Spec => []SecretsAgree` |
| `Leakage` | `Spec => []LeakageCovered` |
| `LossSplits` | `Spec => []OnlyLossSplits` |
| `BoundedSession` | `StepsLeft`, at most `4 * MaxRounds + 22`, falls with every step |
| `NoDeadlock` | until both have returned, one of the two can take its next step |
| `ReadyStays` | no step of one side takes from the other the step it could take |
| `Refinement` | `Spec => Agreement!SafeSpec` |

None of the properties is inductive. `SecretsAgree` needs to know that a
confirmation under way comes from a follower that has hashed, with the length
the leader asked for; that needs the lengths and leaks of both sides related at
the moment a request is read; and that depends on whether a request, an answer
or neither is under way. `IInv` says so in three parts. `ChannelInv`: at most
one message is under way, it is `OpenRequest` or one of `OpenAnswers`.
`FollowerInv` with `Aligned`: how `flen` and `fleak` follow `llen` and `lleak`
in each stage, before and after the answer. `LeaderInv`: which stages go with
which places. The proof has one lemma per action, and under it one step per part
that the action touches. Two lemmas carry the arithmetic: the sample is never
larger than the key, and what was revealed plus what leaked is what the key and
the count have lost.

The last three but one are the safety part of the liveness property
`SessionEnds`, without the fairness: a session makes a bounded number of steps,
somebody can always make one, and nobody loses the one he has. They need
`TurnInv`: a leader that waits has a follower that listens with a request in
front of it, or an answer under way. The bound holds given the bound `MaxRounds`
on the rounds of Cascade; that Cascade itself makes finitely many is
`CascadeEnds`. `NoDeadlock` assumes that a round is possible at all
(`MaxRounds > 0`, `MaxParities > 0`): without one the model, not the code, stops.

`FollowerOverflows` is one more way for the follower to end and changes none of
this: what was disclosed to it before stays counted.

### Cascade

`CascadeProofs`, for every length, block size, number of iterations, shuffle and
pattern of errors:

| Theorem | States |
|---|---|
| `CascadeTypeCorrect` | `Spec => []TypeOK` |
| `ParitiesAlwaysTrue` | `Spec => []ParitiesTrue` |
| `NothingOddRemains` | `Spec => []ResidualEven` |
| `LeakIsExact` | `Spec => []LeakExact` |
| `RequestsDisjoint` | `Spec => []AskedDisjoint` |
| `NoNewErrors` | `Spec => ErrorsOnlyShrink` |
| `CascadeEnds` | `StepsLeft`, at most `StepsBound`, falls with every step |
| `LeakBounded` | `leakedBits <= Iterations * Length` |
| `CascadeReconciles` | `Spec => Promise!SafeSpec`: Cascade implements `Reconciliation` but for its end |

Two things make this hard. The trees and the search through them are recursive.
Induction rules have an operator as a parameter, which the provers cannot take,
so each induction is a least counterexample: `LeastNumber` gives the shortest
block for which a statement fails, and its two halves are shorter.
`RecursionOnHalves` shows that a recursion down the halves defines a function,
which unfolds `Tree` and the `Found` of `Unknown`. From that follow
`BlocksNest` (two blocks are equal, apart, or one lies in a half of the other),
`Parents` (no block has two), `ParityOfHalves`, and `AllSearched` (what a search
finds is unknown, cannot be inferred, has a known parent, and is pairwise apart).

The second is the state. The invariant adds to the properties `Structure` (the
halves of a block become known together, after it: without it a known odd block
might hide an unknown right half that nothing ever asks for), `LeavesRight` (a
leaf once known holds no error, whatever other iterations flip), `Request` (what
is under way is still unknown and shares nothing) and `Sweeping` (while nothing
is learnt, what lies behind a forward sweep has even roots).
`NothingFoundMeansEven` is the heart of `NothingOddRemains`: a shortest known odd
block with nothing left to ask would have two known even halves.

The sweeps go forward and backward over the iterations, so nothing that is easy
to see gets smaller. The rank of `CascadeEnds` counts the blocks not yet asked
for, each worth more steps than two whole sweeps: a sweep turns back only when
something was learnt. `LeakBounded` counts the blocks that are no right half, the
only ones the leak pays for, by their right ends: no two of an iteration share
theirs.

### Key delivery

`KeyDeliveryProofs`, for any number of keys, sessions, lost connections and
places in a channel: `DeliveryTypeCorrect` (`TypeOK`, with the capacity of every
channel), `KeysUsedOnce` (`UsedOnce`), `NothingComesTwice` (`NoneTwice`),
`DeliveryImplementsKeyUse` (`ImplementsKeyUse`). They are theorems of
`SafetySpec`, the specification without its fairness.

`UsedOnce` speaks of sessions only, but a key is on its way through five places
before it is in one. The invariant is about all of them: `At` says where a
module's copy of a key is, `OnePlace` that it is in one place, `Distinct` that
no queue holds it twice, `OnlyMade` that it was made. `Requests` relates what
the follower has been asked to what the leader has registered, and `DeviceInv`
counts the connections against the losses. Each step moves one copy, so the
proof of a step says which place it leaves and which it enters.

The refinement needs one fact more, `FoundHasKey`: a key that was found is the
one its session took in. `StepIsKind` sorts the steps into those the promise
does not see, a key made, a key taken in and copies that meet;
`KindIsPromised` shows each kind to be a step of `KeyUse`. The sessions behind
`use` and `met` are chosen, so `UseIs` and `MetIs` first show that there is
nothing to choose: by `OnePlace` there is one.

### Peers

`PeerManagementProofs`, for any number of connections, losses and restarts:

| Theorem | States |
|---|---|
| `PeersTypeCorrect` | `Spec => []TypeOK` |
| `OneCommunicationAtATime` | `Spec => []OneCommunication` |
| `RolesAgree` | `Spec => []RolesOpposite` |
| `SessionsEndByFaults` | `Spec => OnlyFaultsEndSessions` |
| `DialsStopNobody` | `Spec => []ModulesStayUp` |

`TalkInv` says that a node talks over one connection or has one report of an
ended talk in its queue, never both, and that it is connected meanwhile; that is
why a stale report cannot meet a newer session. `QueueInv` ties each queued
connection to its one entry, `DownInv` leaves a stopped module without tasks,
`HandshakeInv` lists what the two ends have sent each other, from which the
roles follow. `DialsStopNobody` has an invariant of its own, `QuietInv`: while
nothing is lost and nobody is stopped, whoever waits for a message has an other
end that is going to send it or has sent it.

### Task manager and shutdown

`TaskManagerProofs`: `ManagerTypeCorrect` (`TypeOK`) and `ShutdownIsClean`
(`CleanShutdown`), for any sets of subsystems and jobs. The property is
inductive with the types: a job is started by something that runs, so what is
quiet when `monitor()` returns stays so.

`ShutdownProofs`: `ModuleTypeCorrect` (`TypeOK`) and `OrphansNeedPanic`
(`OrphansOnlyAfterPanic`), for any number of sessions. `Nested` relates the two
managers (the inner one runs while the job of the outer one does, and each has
waited for what it monitors), `OnlyKeysPanic` says which panic the inner manager
can see at all. The types of `Shutdown` are not checked by a run: they are those
of its two `TaskManager`s, with the fact that the outer one never sees a panic.

### Binary LDPC

`LdpcProofs`, of its instance `Binary` of `BinaryLdpc`, for every length, matrix
file, error rate, pair of keys and number of passes:

| Theorem | States |
|---|---|
| `ReconciledKeysAgreeOnChecks` | `Binary!Spec => []ErrorsCancel` |
| `LeaksAgree` | `Binary!Spec => []SameLeak` |
| `TroubleHasACause` | `Binary!Spec => []TroubleExplained` |
| `StageEnds` | `StepsLeft`, at most `MaxIter + 6`, falls with every step, and until the stage has ended it can take one |

`ErrorsCancel` is what the stage really promises: an accepted key differs from
the follower's in an even number of the positions of each check, and is the
follower's if no other key has its syndrome. The heart is `ParityOfDifference`:
two parities are equal exactly if the positions in which the words differ are
even in number; the sums are taken apart one position at a time, with a least
counterexample in the place of an induction over sets. The three properties are
stated in `LdpcProofs` and no run repeats them. Nothing is claimed of what
belief propagation finds: which errors it corrects stays with TLC.

### Polynomials and the non-binary LDPC decoder

`PolynomialProofs`, for every prime p and all polynomials:

| Theorem | States |
|---|---|
| `EgcdExact` | `Egcd(a, b)` is a combination of a and b that divides both |
| `DivModExact` | `DivMod(p, f, g) = <<q, r>>` with `q*g + r = f` and r zero or of a smaller degree |
| `PolynomialRing` | `Add`, `Sub` and `Mul` have the laws of a commutative ring |
| `PolyGcdExact` | `PolyGcd` is monic, divides both, and every common divisor divides it |
| `PowExact` | `Pow(p, f, 1) = f` and `Pow(p, f, n + 1) = f * Pow(p, f, n)` |
| `DivisionIsExact` (in `LdpcProofs`) | `subject \in Subjects => DivisionExact` |

Each loop has its invariant: the combinations of `egcd`, `q*g + r = f` in `divmod`, the common
divisors of both in `poly_gcd`; and each has a number that falls with a turn (the
remainder, the degree), which is why `Loop` is given turns enough. That the
degree falls in `divmod` is the point of the whole: the leading terms cancel
because p is prime, so that `egcd` gives the inverse of the leading coefficient
(`EgcdInverts`); `NoZeroDivisors` says the same of products.

A coefficient of a product is a sum over the terms of one factor, reduced at the
end, and that of a product of three a sum of reduced sums. The laws are proved of
integers that agree modulo p: sums are linear (`TotalsLinear`), may be taken
over any set that holds the terms, and exchanged; `SamePoly` then makes two
polynomials equal whose coefficients agree. `pow` halves its exponent, so
`PowerByPower` shows first that powers multiply by adding exponents.

`LdpcProofs`, of the fields, for every prime and every degree:

| Theorem | States |
|---|---|
| `RabinExact` | Rabin's test accepts f exactly if f is no product of two of smaller degree |
| `IterPolyExact` | `IterPoly(p, n)` lists the monic polynomials of degree n, each once |
| `IrreducibleIsExact` | `subject \in Subjects => IrreducibleExact` |
| `IrreducibleFound` | `FindIrreducible(p, n)` is irreducible, monic and of degree n: there is one to find |
| `WithSizeExact` | `WithSize(p, n)` reports no error, has `p^n` elements and no zero divisors |
| `NumbersAdd` | `SymbolsAdd`: the symbols add up as a group does |
| `TablesAreExact` | `TablesSolve`: the tables solve the equations they are for |
| `UnitsAreCyclic` | some element has all the others but zero among its powers |
| `EntriesExact` | `PrimitiveElement` is such an element, and no entry of a file is zero |
| `FieldsAreExact` | `subject \in Subjects => FieldsAreFields` |
| `FieldsCompute` | `FieldsSolve`: the field of every file that is read is one the decoder can use |

The argument, in the order of the module; what it needs of numbers, their digits and
polynomials is proved in `PolynomialProofs`:

* *Numbers and elements.* `AsInt` and `Element` are inverse to each other because
  the digits of a number in base p are the coefficients (`DigitOfSum`,
  `ElementsAre`). So a field has `p^n` elements (`HowMany`).
* *Quotients.* `Rem` picks one polynomial of each class of those that differ by
  multiples of the modulus (`RemSame`), so the elements are a commutative ring
  (`TimesLaws`). If the modulus is irreducible no product of two elements other
  than zero is zero (`IrreducibleDomain`), for `poly_gcd` writes 1 as a
  combination. From there on only this is used: `Domain(F)`.
* *Orders.* Some power of every element but zero is one (`PowerReturns`), and the
  exponents with that property are the multiples of the order (`GapsRepeat`). Two
  orders that do not divide each other give an element of a larger one
  (`OrdersJoin`), so all divide the highest, m. Then all `size - 1` elements
  are roots of `x^m - 1`, which has m at most (`FewRoots`, by taking out one root
  with Horner's rule): m is `size - 1`, and `UnitsAreCyclic`.
* *Inverses.* `h^(size-1) = 1`, so `h^(size-2)` inverts h (`PowerInverts`), which
  is what `mult_idx` needs for `TablesAreExact`. The loop of `is_primitive`
  counts up to the order (`PowersCounted`).
* *Rabin's test.* The n for which `x^(p^n) = x` modulo an irreducible g are the
  multiples of its degree: `AllFixed` gives one direction, the other needs
  `(a + b)^p = a^p + b^p`. The binomial coefficients are not at hand as numbers;
  `Expands` describes the terms of `(a + b)^m` row by row, and `Absorbs`, which
  multiplies a term by its index, makes the inner ones vanish for m = p. What
  fixes x then fixes everything (`FixesAll`), and a cyclic group has no room for
  that below the degree (`FixedDegree`).
* *Existence.* `x^(p^n) - x` has no square factor (`NoSquareDivides`). Were no
  polynomial of degree n irreducible, all its factors would divide the product of
  the `x^(p^e) - x` with e below n, whose degree is too small (`FixingProduct`).
* *Search.* A turn of the odometer adds one to a number written in base p
  (`TurnCounts`), so it goes through all of them; the loop of `IterPoly` ends
  with the last (`OdometerLists`). The sieve of `prime_factorization` finds every
  prime (`SieveIs`), so an order has the factors the reader of a file looks for.

And of the decoder, for all matrix files, lengths, channels, words received and
sent, and numbers of passes:

| Theorem | States |
|---|---|
| `MessagesAreExact` | `Spec => MessagesExact` |

A check has exponentially many assignments to its variables, and the code reaches
the sum over those that make it true with two sweeps, one from either end
(`calculate_intermediate`), and three tables of the field. `MessagesExact` says
that this is that sum, and nothing is lost or counted twice. The argument:

* `Chance(g, q, D)[i]` is what the assignments to the variables D that add up to
  i are worth together. `ChanceOfOneMore`: one more variable n turns it into the
  sum over j of `Chance(g, q, D)[j] * q[n][e]`, where e is the one symbol of n
  that takes the sum from j to i. The assignments are parted by what they sum up
  to over D (`TotalByClass`) and each part is renamed one to one to assignments
  to D (`TotalRenamed`).
* So the forward sums are the chances of the variables below (`ForwardIs`), the
  backward sums those of the variables above (`BackwardIs`); a variable that a
  check does not name leaves them as they are.
* `ChanceAround` puts the two sides and n together: the assignments with n = a
  that make the check true are parted by their sum b below n, and then their sum
  above n is what `sum_idx` gives for a and b (`SumCompletes`).
* Of the field only `Laws` is used: that a variable's symbol is determined by the
  sums before and after it, that variables are taken in in any order, and that
  two sums are added by `plus`. `LawsHold` derives them from `SymbolsAdd` and
  `TablesSolve`.
* `DecodingInv` is the inductive invariant: the tables are those of the file's
  field, the entries are not zero, and every column is one of natural numbers.
  The last is needed because a sum over columns that are no numbers is not
  defined; it goes through the common divisor of a column (`GcdType`,
  `LowestTermsType`).

What a check needs of its field is `FieldsSolve`, a statement about the constant
`Files` alone, and a theorem above (`FieldsCompute`): nothing is assumed of
the files but their form, `FilesAssumption` (fields of more than two elements,
exponents above 0, positions within the word).

### Only model-checked

Liveness (`SessionEnds` and the `Decides` of `KeyAgreement`,
`ShutdownCompletes`, `PanicStops`, `CancellationStops`, `Established`,
`ManagerResumes`, `KeysMeet`, the end of Cascade under fairness), which is
outside the prover. Of the `Ldpc` run the statements about belief propagation
(`NonBinaryBeliefsExact`, `BinaryBeliefsExact`, `OneErrorCorrected`), which are
about particular matrices: the first two would need an induction along a matrix
without cycles, the third holds of particular matrices only.

## 5. Not modelled

* Floating point. The estimate of the error is compared as a fraction, and
  belief propagation computes with exact ratios: rounding, and the underflow of
  long products of f32 likelihoods to zero, are not in the model.
* The text of matrix files: a file is the numbers it holds. An exponent of 0 in a
  file, or GF(2) in the non-binary decoder, calls `pow(0)`, which halves 0 for
  ever (`polynomial.rs:97`); `FilesAssumption` leaves both out, for nothing
  happens after such a call.
* The width of numbers in the fields: `u32::pow` (`Raise`) and the products of
  coefficients are exact, so a field of 2^32 elements or more, whose size
  overflows in the code, is not covered.
* Cryptography and randomness: QUIC/TLS, certificates, the hash as a function.
* Configuration, logging, command lines, the benchmark.
* The length prefix and short writes of `write_message` (`quic.rs:53`): a message
  is written and read whole.
* `UnknownPeer`, and a `None` from the QKD manager: they need two parts of one
  configuration that contradict each other.
* In `QkdManager` and `KeyDelivery`: a device connection that fails in its
  handshake (`conn.await` then ends the QKD manager), a stream of keys that
  cannot be read (it disables the `get_key` branch until the connection closes),
  a malformed `RegisterKey` (it ends the listener and the follower), keys of
  unequal length (`KeySession` has them), the inbox of 1024 keys at its limit.

## 6. Plan

Done: every module of the table in section 2, with proofs of all safety
properties of `KeySession`, `Cascade`, `KeyDelivery`, `PeerManagement`,
`TaskManager` and `Shutdown`, of the binary LDPC stage, of the arithmetic of
polynomials and fields and of the messages of the non-binary decoder.

Left, in this order:

1. `KeyDelivery`: the listener that ends on a bad stream, the `get_key` branch
   that is disabled by one, the QKD manager that ends on a failed handshake.
2. `Framing`: length prefix, short writes, buffers; the reliable stream that
   `KeySession` assumes as its abstract specification.
3. The Toeplitz hash, checked against a reference definition over small inputs.
4. `NonBinaryBeliefsExact` for every matrix without cycles: the messages of a
   check are exact (`MessagesAreExact`); what is left is an induction along the
   matrix.

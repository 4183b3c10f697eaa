----------------------------- MODULE KeySession -----------------------------
(***************************************************************************)
(* The post processing of one sifted key: the leader's process_key drives  *)
(* the pipeline BEREstimation | BERLimit | Cascade | PrivacyAmplification  *)
(* and the follower's process_key answers it, over one QUIC stream of the  *)
(* connection between the two modules.                                     *)
(*                                                                         *)
(* A key is abstracted to its length, the number of parities leaked about  *)
(* it and, for the pair of keys, the number of positions that differ.  The *)
(* blocks Cascade asks for are the subject of module Cascade: here a round *)
(* asks for some parities and corrects some of the differences.            *)
(***************************************************************************)
EXTENDS Integers, Sequences

CONSTANTS
  SiftedLengths,  \* lengths a sifted key may have
  BufferedLength, \* longest key all of whose Syndrome requests fit the
                  \* follower's buffer: 8 bytes a position, 1 MiB in all
  MaxErrors,      \* bound: differences between the two sifted keys
  MaxParities,    \* bound: parities in one Syndrome request
  MaxRounds       \* bound: Syndrome requests of one session

ASSUME SiftedLengthsAssumption == SiftedLengths \subseteq Nat
ASSUME BufferAssumption == BufferedLength \in Nat
ASSUME BoundsAssumption ==
  MaxErrors \in Nat /\ MaxParities \in Nat /\ MaxRounds \in Nat

VARIABLES
  lpc,        \* leader: where process_key is
  stage,      \* leader: state of the pipeline
  llen,       \* leader: length of its key
  lleak,      \* leader: parities Cascade has been told
  pending,    \* leader: sample size, then parities of the open request
  errs,       \* leader: sampled bits that differ
  rounds,     \* leader: Syndrome requests made
  lout,       \* leader: how process_key ended, "running" before
  lsecret,    \* leader: length of its secret key
  fpc,        \* follower: where the handling of this stream is
  arrived,    \* follower: the key has reached the oneshot channel
  expected,   \* follower: length announced in RegisterKey
  flen,       \* follower: length of its key
  fleak,      \* follower: parities it has computed
  fout,       \* follower: how process_key ended, "running" before
  fsecret,    \* follower: length of its secret key
  saved,      \* nodes whose csv file holds a line for this key
  l2f, f2l,   \* messages under way in each direction of the stream
  conn,       \* the connection is up
  diff,       \* positions in which the two keys differ
  disclosed   \* history: key bits and parities the follower has written

leaderVars == <<lpc, stage, llen, lleak, pending, errs, rounds, lout, lsecret>>
followerVars == <<fpc, arrived, expected, flen, fleak, fout, fsecret>>
vars == <<leaderVars, followerVars, saved, l2f, f2l, conn, diff, disclosed>>

-----------------------------------------------------------------------------
(* The arithmetic of the estimation.                                       *)

CeilDiv(a, b) == (a + b - 1) \div b

\* calculate_sample_size(n, 0.95, 0.05): z^2/4 = 0.960365 and 0.05^2 = 0.0025.
SampleSize(n) == CeilDiv(960365 * n, 2500 * (n - 1) + 960365)

\* error_count / sample > 0.09
AboveLimit(count, sample) == 100 * count > 9 * sample

\* The key bits left after the sample may hold from none to all differences.
SampledErrors == {e \in 0..diff : e <= pending /\ diff - e <= llen - pending}

-----------------------------------------------------------------------------
(* The stream.  A message written on a live connection is lost only if the *)
(* peer has dropped its end; the writer may or may not learn of that.      *)

Message(type, n, m) == [type |-> type, n |-> n, m |-> m]

\* One request of the leader fills the wire while the follower holds its end.
ToFollower(msg) == IF fpc # "done" THEN Append(l2f, msg) ELSE l2f
\* Variant: the answer is written a second time.
ToLeaderTwice(msg) == f2l \o <<msg, msg>>
ToLeader(msg) == IF lpc # "done" THEN Append(f2l, msg) ELSE f2l

LeaderWriteFails == ~conn \/ fpc = "done"
FollowerWriteFails == ~conn \/ lpc = "done"

\* Nothing is left to read and nothing more will come.
LeaderReadFails == f2l = <<>> /\ (~conn \/ fpc = "done")
\* Variant: the end of the stream goes unnoticed while the connection is up.
FollowerReadFailsLate == l2f = <<>> /\ ~conn
FollowerReadFails == l2f = <<>> /\ (~conn \/ lpc = "done")

LeaderReturns(outcome) == lpc' = "done" /\ lout' = outcome
FollowerReturns(outcome) == fpc' = "done" /\ fout' = outcome

\* The leader's end of a PPStep::GetUpdate: it writes and awaits the answer.
Request(msg) ==
  \/ /\ conn
     /\ l2f' = ToFollower(msg)
     /\ lpc' = "response"
     /\ UNCHANGED lout
  \/ /\ LeaderWriteFails
     /\ LeaderReturns("lost")
     /\ UNCHANGED l2f

-----------------------------------------------------------------------------
(* The leader.                                                             *)

\* open_bi().await.unwrap(): the connection may have closed while the key
\* won the select in handle_new_key.  A failed RegisterKey is only logged.
LeaderRegister ==
  /\ lpc = "connect"
  /\ IF conn
     THEN /\ lpc' = "reply"
          /\ l2f' = ToFollower(Message("register", llen, 0))
          /\ UNCHANGED lout
     ELSE /\ LeaderReturns("panic")
          /\ UNCHANGED l2f
  /\ UNCHANGED <<stage, llen, lleak, pending, errs, rounds, lsecret,
                 followerVars, saved, f2l, conn, diff, disclosed>>

\* Any reply but KeyNotFound starts the pipeline, LengthMismatch included.
LeaderReply ==
  /\ lpc = "reply"
  /\ f2l # <<>>
  /\ f2l' = Tail(f2l)
  /\ IF Head(f2l).type = "notfound"
     THEN LeaderReturns("notfound")
     ELSE lpc' = "step" /\ UNCHANGED lout
  /\ UNCHANGED <<stage, llen, lleak, pending, errs, rounds, lsecret,
                 followerVars, saved, l2f, conn, diff, disclosed>>

LeaderLost ==
  /\ lpc \in {"reply", "response"}
  /\ LeaderReadFails
  /\ LeaderReturns("lost")
  /\ UNCHANGED <<stage, llen, lleak, pending, errs, rounds, lsecret,
                 followerVars, saved, l2f, f2l, conn, diff, disclosed>>

\* BEREstimation::step without a sample; key_size - 1 underflows at 0.
DrawSample ==
  /\ lpc = "step"
  /\ stage = "draw"
  /\ IF llen = 0
     THEN /\ LeaderReturns("panic")
          /\ UNCHANGED <<stage, pending, l2f>>
     ELSE /\ stage' = "drawn"
          /\ pending' = SampleSize(llen)
          /\ Request(Message("reveal", SampleSize(llen), llen))
  /\ UNCHANGED <<llen, lleak, errs, rounds, lsecret, followerVars, saved,
                 f2l, conn, diff, disclosed>>

\* BERLimit::step with the estimate.
Abort ==
  /\ lpc = "step"
  /\ stage = "estimated"
  /\ AboveLimit(errs, pending)
  /\ LeaderReturns("abort")
  /\ UNCHANGED <<stage, llen, lleak, pending, errs, rounds, lsecret,
                 followerVars, saved, l2f, f2l, conn, diff, disclosed>>

\* SetupCascade::setup: no sampled error makes the block size usize::MAX,
\* which block_size *= 2 overflows.
SetupPanics ==
  /\ lpc = "step"
  /\ stage = "estimated"
  /\ errs = 0
  /\ LeaderReturns("panic")
  /\ UNCHANGED <<stage, llen, lleak, pending, errs, rounds, lsecret,
                 followerVars, saved, l2f, f2l, conn, diff, disclosed>>

CascadeRuns ==
  \/ stage = "cascade"
  \/ stage = "estimated" /\ errs # 0 /\ ~AboveLimit(errs, pending)

\* Cascade::step finds blocks whose parity it does not know.
CascadeAsks ==
  /\ lpc = "step"
  /\ CascadeRuns
  /\ llen > 0
  /\ rounds < MaxRounds
  /\ rounds' = rounds + 1
  /\ stage' = "cascade"
  /\ \E n \in 1..MaxParities :
       /\ pending' = n
       /\ Request(Message("syndrome", n, llen))
  /\ UNCHANGED <<llen, lleak, errs, lsecret, followerVars, saved, f2l, conn,
                 diff, disclosed>>

\* The hash sizes: subtracting the leak underflows, and so does
\* n_input + n_output - 1 for an empty key.
\* Variant: the subtraction wraps, as in a release build.
HashWraps == llen = 0
HashUnderflows == lleak > llen \/ llen = 0

\* Cascade::step has no block left and SetupPrivacyAmplification::setup runs.
CascadeEnds ==
  /\ lpc = "step"
  /\ CascadeRuns
  /\ rounds > 0 \/ llen = 0
  /\ IF HashUnderflows
     THEN /\ LeaderReturns("panic")
          /\ UNCHANGED <<stage, l2f>>
     ELSE /\ stage' = "amplify"
          /\ Request(Message("amplify", llen, llen - lleak))
  /\ UNCHANGED <<llen, lleak, pending, errs, rounds, lsecret, followerVars,
                 saved, f2l, conn, diff, disclosed>>

\* Pipe::update hands the answer to the step that asked.
EstimateUpdate ==
  /\ stage = "drawn"
  /\ IF Head(f2l).type = "reveal"
     THEN /\ stage' = "estimated"
          /\ llen' = llen - pending
          /\ errs' \in SampledErrors
          /\ diff' = diff - errs'
          /\ lpc' = "step"
          /\ UNCHANGED lout
     ELSE LeaderReturns("error") /\ UNCHANGED <<stage, llen, errs, diff>>
  /\ UNCHANGED lleak

\* Variant: the leak counts requests instead of parities.
CascadeUpdateCountsRequests ==
  /\ stage = "cascade"
  /\ lleak' = lleak + 1
  /\ diff' \in 0..diff
  /\ lpc' = "step"
  /\ UNCHANGED <<stage, llen, errs, lout>>

\* A leaf whose parity is wrong is flipped, so differences only disappear.
CascadeUpdate ==
  /\ stage = "cascade"
  /\ IF Head(f2l).type = "syndrome" /\ Head(f2l).n = pending
     THEN /\ lleak' = lleak + pending
          /\ diff' \in 0..diff
          /\ lpc' = "step"
          /\ UNCHANGED lout
     ELSE LeaderReturns("error") /\ UNCHANGED <<lleak, diff>>
  /\ UNCHANGED <<stage, llen, errs>>

\* Variant: the answer is checked against the wrong variant.
AmplificationUpdateRejects ==
  /\ stage = "amplify"
  /\ LeaderReturns("error")
  /\ UNCHANGED <<stage, llen, lleak, errs, diff>>

\* The pattern of the matches! is a binding: any answer confirms.
AmplificationUpdate ==
  /\ stage = "amplify"
  /\ stage' = "confirmed"
  /\ lpc' = "step"
  /\ UNCHANGED <<llen, lleak, errs, diff, lout>>

LeaderUpdate ==
  /\ lpc = "response"
  /\ f2l # <<>>
  /\ f2l' = Tail(f2l)
  /\ \/ EstimateUpdate
     \/ CascadeUpdate
     \/ AmplificationUpdate
  /\ UNCHANGED <<pending, rounds, lsecret, followerVars, saved, l2f, conn,
                 disclosed>>

\* Variant: the leader does not wait for the confirmation.
LeaderHashesEarly ==
  /\ lpc = "response"
  /\ stage = "amplify"
  /\ lsecret' = llen - lleak
  /\ lpc' = "persist"
  /\ lout' = "secret"
  /\ UNCHANGED <<stage, llen, lleak, pending, errs, rounds, followerVars,
                 saved, l2f, f2l, conn, diff, disclosed>>

\* PrivacyAmplification::step after the confirmation, then finalize.
LeaderHashes ==
  /\ lpc = "step"
  /\ stage = "confirmed"
  /\ lsecret' = llen - lleak
  /\ lpc' = "persist"
  /\ lout' = "secret"
  /\ UNCHANGED <<stage, llen, lleak, pending, errs, rounds, followerVars,
                 saved, l2f, f2l, conn, diff, disclosed>>

\* The file may not open (unwrap) or not take the line (ignored).
LeaderPersists ==
  /\ lpc = "persist"
  /\ lpc' = "done"
  /\ saved' \in {saved, saved \cup {"leader"}}
  /\ UNCHANGED <<stage, llen, lleak, pending, errs, rounds, lout, lsecret,
                 followerVars, l2f, f2l, conn, diff, disclosed>>

-----------------------------------------------------------------------------
(* The follower.                                                           *)

\* The key comes from the QKD device and is sent into the oneshot channel.
KeyArrives ==
  /\ ~arrived
  /\ fpc # "done"
  /\ arrived' = TRUE
  /\ UNCHANGED <<leaderVars, fpc, expected, flen, fleak, fout, fsecret,
                 saved, l2f, f2l, conn, diff, disclosed>>

\* listen_for_new_stream reads the RegisterKey and spawns process_key.
FollowerAccepts ==
  /\ fpc = "listen"
  /\ l2f # <<>>
  /\ expected' = Head(l2f).n
  /\ l2f' = Tail(l2f)
  /\ fpc' = "wait"
  /\ UNCHANGED <<leaderVars, arrived, flen, fleak, fout, fsecret, saved, f2l,
                 conn, diff, disclosed>>

\* connection.closed() wins the select of the listener.
FollowerStopsListening ==
  /\ fpc = "listen"
  /\ ~conn
  /\ FollowerReturns("lost")
  /\ UNCHANGED <<leaderVars, arrived, expected, flen, fleak, fsecret, saved,
                 l2f, f2l, conn, diff, disclosed>>

\* The answer to a RegisterKey; send_message's result is ignored.
Answer(type) == f2l' = IF conn THEN ToLeader(Message(type, 0, 0)) ELSE f2l

\* The 30 s timeout, or handle_new_key ended and dropped the sender.
FollowerTimeout ==
  /\ fpc = "wait"
  /\ ~arrived
  /\ Answer("notfound")
  /\ FollowerReturns("notfound")
  /\ UNCHANGED <<leaderVars, arrived, expected, flen, fleak, fsecret, saved,
                 l2f, conn, diff, disclosed>>

FollowerFindsKey ==
  /\ fpc = "wait"
  /\ arrived
  /\ IF flen # expected
     THEN Answer("mismatch") /\ FollowerReturns("mismatch")
     ELSE Answer("found") /\ fpc' = "serve" /\ UNCHANGED fout
  /\ UNCHANGED <<leaderVars, arrived, expected, flen, fleak, fsecret, saved,
                 l2f, conn, diff, disclosed>>

FollowerLost ==
  /\ fpc = "serve"
  /\ FollowerReadFails
  /\ FollowerReturns("lost")
  /\ UNCHANGED <<leaderVars, arrived, expected, flen, fleak, fsecret, saved,
                 l2f, f2l, conn, diff, disclosed>>

\* read_message slices its buffer to the announced length and panics. How
\* much of a longer key one request names depends on the blocks still asked
\* for, so such a request may also fit.
FollowerOverflows ==
  /\ fpc = "serve"
  /\ l2f # <<>>
  /\ Head(l2f).type = "syndrome"
  /\ Head(l2f).m > BufferedLength
  /\ l2f' = Tail(l2f)
  /\ FollowerReturns("overflow")
  /\ UNCHANGED <<leaderVars, arrived, expected, flen, fleak, fsecret, saved,
                 f2l, conn, diff, disclosed>>

\* The answer to a request; a failed write ends process_key.
Respond(msg) ==
  \/ /\ conn
     /\ f2l' = ToLeader(msg)
     /\ disclosed' = disclosed + msg.n
     /\ UNCHANGED <<fpc, fout>>
  \/ /\ FollowerWriteFails
     /\ FollowerReturns("lost")
     /\ UNCHANGED <<f2l, disclosed>>

FollowerPanics == FollowerReturns("panic") /\ UNCHANGED <<f2l, disclosed>>

\* Variant: the revealed positions stay in the follower's key.
RemoveNothing(n) == flen' = flen
\* The positions are removed only once the bits have been written.
RemoveRevealed(n) == flen' = IF fpc' = "done" THEN flen ELSE flen - n

\* key.reveal(i).unwrap() for every index, then remove_revealed.
FollowerReveals(req) ==
  /\ req.type = "reveal"
  /\ IF req.m > flen
     THEN FollowerPanics
     ELSE Respond(Message("reveal", req.n, 0))
  /\ RemoveRevealed(req.n)
  /\ UNCHANGED fleak

\* calc_syndrome indexes the key without a check.
FollowerSyndrome(req) ==
  /\ req.type = "syndrome"
  /\ fleak' = fleak + req.n
  /\ IF req.m > flen
     THEN FollowerPanics
     ELSE Respond(Message("syndrome", req.n, 0))
  /\ UNCHANGED flen

FollowerServes ==
  /\ fpc = "serve"
  /\ l2f # <<>>
  /\ l2f' = Tail(l2f)
  /\ FollowerReveals(Head(l2f)) \/ FollowerSyndrome(Head(l2f))
  /\ UNCHANGED <<leaderVars, arrived, expected, fsecret, saved, conn, diff>>

\* hash_data refuses a key that is not n_input long.
\* Variant: an off-by-one in that comparison.
HashRefusedOffByOne(req) == req.n >= flen
HashRefused(req) == req.n # flen

\* The file is written
\* whether or not the confirmation could be sent.
FollowerAmplifies ==
  /\ fpc = "serve"
  /\ l2f # <<>>
  /\ Head(l2f).type = "amplify"
  /\ l2f' = Tail(l2f)
  /\ IF HashRefused(Head(l2f))
     THEN /\ Answer("error")
          /\ FollowerReturns("paerror")
          /\ UNCHANGED fsecret
     ELSE /\ Answer("confirmed")
          /\ fsecret' = Head(l2f).m
          /\ fpc' = "persist"
          /\ fout' = "secret"
  /\ UNCHANGED <<leaderVars, arrived, expected, flen, fleak, saved, conn, diff,
                 disclosed>>

FollowerPersists ==
  /\ fpc = "persist"
  /\ fpc' = "done"
  /\ saved' \in {saved, saved \cup {"follower"}}
  /\ UNCHANGED <<leaderVars, arrived, expected, flen, fleak, fout, fsecret,
                 l2f, f2l, conn, diff, disclosed>>

-----------------------------------------------------------------------------
(* The connection is lost: of what was under way a prefix arrives.         *)
ConnectionLost ==
  /\ conn
  /\ conn' = FALSE
  /\ \E i \in 0..Len(l2f) : l2f' = SubSeq(l2f, 1, i)
  /\ \E i \in 0..Len(f2l) : f2l' = SubSeq(f2l, 1, i)
  /\ UNCHANGED <<leaderVars, followerVars, saved, diff, disclosed>>

Init ==
  /\ lpc = "connect"
  /\ stage = "draw"
  /\ llen \in SiftedLengths
  /\ flen \in SiftedLengths
  /\ diff \in {d \in 0..MaxErrors : d <= llen}
  /\ lleak = 0 /\ fleak = 0
  /\ pending = 0 /\ errs = 0 /\ rounds = 0
  /\ lout = "running" /\ fout = "running"
  /\ lsecret = 0 /\ fsecret = 0
  /\ fpc = "listen"
  /\ arrived \in BOOLEAN
  /\ expected = 0
  /\ saved = {}
  /\ l2f = <<>> /\ f2l = <<>>
  /\ conn = TRUE
  /\ disclosed = 0

LeaderNext ==
  \/ LeaderRegister
  \/ LeaderReply
  \/ LeaderLost
  \/ DrawSample
  \/ Abort
  \/ SetupPanics
  \/ CascadeAsks
  \/ CascadeEnds
  \/ LeaderUpdate
  \/ LeaderHashes
  \/ LeaderPersists

FollowerNext ==
  \/ FollowerAccepts
  \/ FollowerStopsListening
  \/ FollowerTimeout
  \/ FollowerFindsKey
  \/ FollowerLost
  \/ FollowerOverflows
  \/ FollowerServes
  \/ FollowerAmplifies
  \/ FollowerPersists

Next == LeaderNext \/ FollowerNext \/ KeyArrives \/ ConnectionLost

SafeSpec == Init /\ [][Next]_vars

\* tokio runs every task that is ready and fires the 30 s timer; neither the
\* arrival of the key nor the loss of the connection is ever owed.
Spec == SafeSpec /\ WF_vars(LeaderNext) /\ WF_vars(FollowerNext)
-----------------------------------------------------------------------------
(* Properties.                                                             *)

LeaderPcs == {"connect", "reply", "step", "response", "persist", "done"}
FollowerPcs == {"listen", "wait", "serve", "persist", "done"}
Stages == {"draw", "drawn", "estimated", "cascade", "amplify", "confirmed"}
Requests == [type : {"register", "reveal", "syndrome", "amplify"},
             n : Nat, m : Nat]
Answers == [type : {"found", "notfound", "mismatch", "reveal", "syndrome",
                    "confirmed", "error"},
            n : Nat, m : Nat]

\* Every variable has its type: no length or count ever drops below zero.
TypeOK ==
  /\ lpc \in LeaderPcs
  /\ stage \in Stages
  /\ llen \in Nat /\ lleak \in Nat /\ pending \in Nat
  /\ errs \in Nat /\ rounds \in Nat /\ lsecret \in Nat
  /\ lout \in {"running", "panic", "notfound", "lost", "abort", "error",
               "secret"}
  /\ fpc \in FollowerPcs
  /\ arrived \in BOOLEAN
  /\ expected \in Nat /\ flen \in Nat /\ fleak \in Nat /\ fsecret \in Nat
  /\ fout \in {"running", "lost", "notfound", "mismatch", "overflow",
               "panic", "paerror", "secret"}
  /\ saved \subseteq {"leader", "follower"}
  /\ l2f \in Seq(Requests)
  /\ f2l \in Seq(Answers)
  /\ conn \in BOOLEAN
  /\ diff \in Nat
  /\ disclosed \in Nat

\* The follower never indexes past the end of its key (the unwrap of reveal
\* and the indexing of calc_syndrome) and its key always has the length the
\* hash was made for: both sides have removed the same positions by the time
\* the next request is read.
KeysStayAligned == fout \notin {"panic", "paerror"}

\* The leader's pipeline is never handed an answer to another request.
AnswersFitRequests == lout # "error"

\* A leader takes its secret key only when the follower holds one of the same
\* length, although PrivacyAmplification::update accepts any answer.
SecretsAgree == lout = "secret" => fout = "secret" /\ fsecret = lsecret

\* Every bit of the key and every parity the follower has written to the
\* stream is taken off the key: revealed positions by remove_revealed,
\* parities by the output size of the hash.
LeakageCovered == fout = "secret" => fsecret + disclosed <= expected

\* Only the loss of the stream can leave the follower with a secret key the
\* leader does not have: no abort, refusal or panic of the leader does.
OnlyLossSplits == fout = "secret" => lout \in {"running", "secret", "lost"}

\* The session implements the agreement between the two nodes.
Settled(out) == IF out = "running" THEN "working"
                ELSE IF out = "secret" THEN "secret" ELSE "none"

Agreement == INSTANCE KeyAgreement WITH
  leader <- Settled(lout),
  follower <- Settled(fout),
  asked <- stage \in {"amplify", "confirmed"}

ImplementsAgreement == Agreement!Spec

\* Neither task waits for ever for the other: both process_key calls return.
SessionEnds == <>(lpc = "done" /\ fpc = "done")

\* README.md says the leader verifies that "a key with the same ID and size
\* exists on the follower" before it prepares the pipeline.
StartsOnlyWhenFound ==
  [][lpc = "reply" /\ lpc' = "step" => Head(f2l).type = "found"]_vars
-----------------------------------------------------------------------------
(* The inductive invariant: who is working on the key, what is under way,  *)
(* and how the two keys and leak counts compare at that moment.            *)

LeaderInv ==
  /\ lpc \in {"connect", "reply"} => stage = "draw"
  /\ lpc = "response" => stage \in {"drawn", "cascade", "amplify"}
  /\ lpc = "step" => stage \in {"draw", "estimated", "cascade", "confirmed"}
  /\ lpc = "persist" => lout = "secret"
  /\ lout = "running" <=> lpc \notin {"persist", "done"}
  /\ lout = "secret" => stage = "confirmed" /\ lsecret = llen - lleak
  /\ lout \in {"panic", "notfound", "abort"} =>
       stage \notin {"amplify", "confirmed"}
  /\ lout # "error"
  /\ stage = "drawn" => pending <= llen
  /\ stage \in {"draw", "drawn", "estimated"} => lleak = 0
  /\ stage \in {"amplify", "confirmed"} => lleak <= llen

\* The one request that can be under way, and the one answer.
OpenRequest ==
  IF fpc = "listen" THEN Message("register", llen, 0)
  ELSE IF stage = "drawn" THEN Message("reveal", pending, llen)
  ELSE IF stage = "cascade" THEN Message("syndrome", pending, llen)
  ELSE Message("amplify", llen, llen - lleak)

OpenAnswers ==
  IF lpc = "reply" THEN {Message(t, 0, 0) : t \in {"found", "notfound", "mismatch"}}
  ELSE IF stage = "drawn" THEN {Message("reveal", pending, 0)}
  ELSE IF stage = "cascade" THEN {Message("syndrome", pending, 0)}
  ELSE {Message("confirmed", 0, 0)}

ChannelInv ==
  /\ l2f # <<>> =>
       /\ f2l = <<>>
       /\ lpc \in {"reply", "response", "done"}
       /\ fpc \in {"listen", "serve", "done"}
       /\ fpc = "serve" => stage \in {"drawn", "cascade", "amplify"}
       /\ fpc # "done" => l2f = <<OpenRequest>>
  /\ f2l # <<>> =>
       /\ lpc \in {"reply", "response"}
       /\ \E answer \in OpenAnswers : f2l = <<answer>>
       /\ stage = "amplify" => fout = "secret"

\* While the follower serves, its key and leak follow the leader's.
Aligned ==
  /\ expected + fleak = flen + disclosed
  /\ stage # "confirmed"
  /\ stage = "draw" => flen = llen /\ fleak = 0
  /\ stage = "drawn" =>
       /\ fleak = 0
       /\ l2f # <<>> => flen = llen
       /\ f2l # <<>> => flen = llen - pending
  /\ stage = "estimated" => flen = llen /\ fleak = 0
  /\ stage = "cascade" =>
       /\ flen = llen
       /\ l2f # <<>> \/ lpc = "step" => fleak = lleak
       /\ f2l # <<>> => fleak = lleak + pending
  /\ stage = "amplify" =>
       /\ flen = llen
       /\ f2l = <<>>
       /\ l2f # <<>> => fleak = lleak

FollowerInv ==
  /\ fpc = "listen" =>
       /\ lpc \in {"connect", "reply", "done"}
       /\ stage = "draw" /\ f2l = <<>> /\ fleak = 0 /\ disclosed = 0
  /\ fpc = "wait" =>
       /\ lpc \in {"reply", "done"}
       /\ stage = "draw" /\ f2l = <<>> /\ fleak = 0 /\ disclosed = 0
       /\ expected = llen
  /\ fpc = "serve" => Aligned /\ lpc \in {"reply", "step", "response", "done"}
  /\ fpc \notin {"persist", "done"} => fout = "running"
  /\ fpc = "persist" \/ stage = "confirmed" => fout = "secret"
  /\ fout = "secret" =>
       /\ fpc \in {"persist", "done"}
       /\ stage \in {"amplify", "confirmed"}
       /\ fsecret = llen - lleak
       /\ fsecret + disclosed = expected
  /\ fout \notin {"panic", "paerror"}

\* Everything the safety properties rest on; preserved by every step.
IInv == TypeOK /\ LeaderInv /\ ChannelInv /\ FollowerInv
=============================================================================

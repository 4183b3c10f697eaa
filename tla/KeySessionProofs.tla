-------------------------- MODULE KeySessionProofs --------------------------
(***************************************************************************)
(* Proofs about KeySession, for every set of key lengths and every bound.  *)
(***************************************************************************)
EXTENDS KeySession, TLAPS

-----------------------------------------------------------------------------
(* Arithmetic and sequences.                                               *)

\* A sample of a key that is not empty has at least one bit and at most all.
LEMMA SampleSizeRange ==
  ASSUME NEW n \in Nat, n > 0
  PROVE  SampleSize(n) \in 1..n
<1> DEFINE b == 2500 * (n - 1) + 960365
           a == 960365 * n + b - 1
<1>1. b \in Nat /\ b >= 960365 /\ a \in Nat
  OBVIOUS
<1>2. a < (n + 1) * b /\ a >= b
  OBVIOUS
<1> HIDE DEF a, b
<1>3. /\ (a \div b) \in Nat
      /\ (a \div b) * b <= a
      /\ a < (a \div b) * b + b
  BY <1>1
<1>4. \A q \in Nat : q * b < (n + 1) * b => q <= n
  BY <1>1
<1>5. a \div b <= n
  BY <1>1, <1>2, <1>3, <1>4
<1>6. a \div b >= 1
  BY <1>1, <1>2, <1>3
<1>7. SampleSize(n) = a \div b
  BY DEF SampleSize, CeilDiv, a, b
<1> QED
  BY <1>3, <1>5, <1>6, <1>7

\* A prefix of a channel that holds at most one message is that channel or
\* the empty one.
LEMMA PrefixOfOne ==
  ASSUME NEW S, NEW q \in Seq(S), Len(q) <= 1, NEW i \in 0..Len(q)
  PROVE  SubSeq(q, 1, i) = q \/ SubSeq(q, 1, i) = <<>>
  OBVIOUS

\* The lengths the two bounds on the channels come from.
LEMMA LengthOne ==
  ASSUME NEW m
  PROVE  Len(<<m>>) = 1 /\ Len(<<>>) = 0
  OBVIOUS

\* What is left of a channel when the connection is lost keeps its type.
LEMMA PrefixType ==
  ASSUME NEW S, NEW q \in Seq(S), NEW i \in 0..Len(q)
  PROVE  SubSeq(q, 1, i) \in Seq(S)
  OBVIOUS

-----------------------------------------------------------------------------
(* The two channels hold at most one message.                              *)

\* What a message is made of.
LEMMA Fields ==
  ASSUME NEW t, NEW n, NEW m
  PROVE  /\ Message(t, n, m).type = t
         /\ Message(t, n, m).n = n
         /\ Message(t, n, m).m = m
  BY DEF Message

\* What the leader writes is a request.
LEMMA RequestType ==
  ASSUME NEW t \in {"register", "reveal", "syndrome", "amplify"},
         NEW n \in Nat, NEW m \in Nat
  PROVE  Message(t, n, m) \in Requests
  BY DEF Message, Requests

\* What the follower writes is an answer.
LEMMA AnswerType ==
  ASSUME NEW t \in {"found", "notfound", "mismatch", "reveal", "syndrome",
                    "confirmed", "error"},
         NEW n \in Nat, NEW m \in Nat
  PROVE  Message(t, n, m) \in Answers
  BY DEF Message, Answers

\* A request written to an empty channel is the only one there.
LEMMA RequestWritten ==
  ASSUME NEW msg \in Requests, l2f = <<>>
  PROVE  /\ ToFollower(msg) \in Seq(Requests)
         /\ fpc # "done" => ToFollower(msg) = <<msg>>
         /\ fpc = "done" => ToFollower(msg) = <<>>
         /\ <<msg>> # <<>>
  BY DEF ToFollower

\* An answer written to an empty channel is the only one there.
LEMMA AnswerWritten ==
  ASSUME NEW msg \in Answers, f2l = <<>>
  PROVE  /\ ToLeader(msg) \in Seq(Answers)
         /\ lpc # "done" => ToLeader(msg) = <<msg>>
         /\ lpc = "done" => ToLeader(msg) = <<>>
         /\ <<msg>> # <<>>
  BY DEF ToLeader

\* The follower reads the open request and leaves an empty channel.
LEMMA RequestRead ==
  ASSUME IInv, l2f # <<>>, fpc \in {"listen", "serve"}
  PROVE  /\ Head(l2f) = OpenRequest
         /\ Head(l2f) \in Requests
         /\ Tail(l2f) = <<>>
         /\ f2l = <<>>
<1>1. l2f = <<OpenRequest>> /\ f2l = <<>>
  BY DEF IInv, ChannelInv
<1>2. l2f \in Seq(Requests)
  BY DEF IInv, TypeOK
<1> HIDE DEF OpenRequest
<1> QED
  BY <1>1, <1>2

\* The leader reads the open answer and leaves an empty channel.
LEMMA AnswerRead ==
  ASSUME IInv, f2l # <<>>
  PROVE  /\ Head(f2l) \in OpenAnswers
         /\ Tail(f2l) = <<>>
         /\ l2f = <<>>
<1>1. PICK answer \in OpenAnswers : f2l = <<answer>>
  BY DEF IInv, ChannelInv
<1>2. l2f = <<>>
  BY DEF IInv, ChannelInv
<1> QED
  BY <1>1, <1>2

\* A channel with nothing under way has its type.
LEMMA EmptyType == <<>> \in Seq(Requests) /\ <<>> \in Seq(Answers)
  OBVIOUS
-----------------------------------------------------------------------------
(* Steps that write to or read from the stream.                            *)

\* Nothing is left of a channel that was empty.
LEMMA EmptyPrefix ==
  ASSUME NEW i \in 0..Len(<<>>)
  PROVE  SubSeq(<<>>, 1, i) = <<>>
  OBVIOUS

\* A request leaves the leader waiting for the answer or giving up.
LEMMA RequestSent ==
  ASSUME TypeOK, l2f = <<>>, NEW msg \in Requests, Request(msg)
  PROVE  /\ l2f' \in Seq(Requests)
         /\ \/ lpc' = "response" /\ lout' = lout
            \/ lpc' = "done" /\ lout' = "lost" /\ l2f' = <<>>
         /\ l2f' = <<>> \/ (l2f' = <<msg>> /\ fpc # "done")
  BY RequestWritten DEF Request, LeaderReturns, TypeOK

\* The answer to a RegisterKey is written or ignored.
LEMMA RegisterAnswered ==
  ASSUME TypeOK, f2l = <<>>, NEW t, Message(t, 0, 0) \in Answers, Answer(t)
  PROVE  /\ f2l' \in Seq(Answers)
         /\ f2l' = <<>> \/ (f2l' = <<Message(t, 0, 0)>> /\ lpc # "done")
  BY AnswerWritten DEF Answer, TypeOK

\* An answer leaves the follower serving or giving up.
LEMMA RequestAnswered ==
  ASSUME TypeOK, f2l = <<>>, NEW msg \in Answers, Respond(msg)
  PROVE  /\ f2l' \in Seq(Answers)
         /\ \/ /\ fpc' = fpc /\ fout' = fout
               /\ disclosed' = disclosed + msg.n
            \/ /\ fpc' = "done" /\ fout' = "lost" /\ f2l' = <<>>
               /\ disclosed' = disclosed
         /\ f2l' = <<>> \/ (f2l' = <<msg>> /\ lpc # "done")
  BY AnswerWritten DEF Respond, FollowerReturns, TypeOK

-----------------------------------------------------------------------------
(* Every step preserves the inductive invariant.                           *)

\* No step of process_key on either side breaks the inductive invariant.
THEOREM Inductive == IInv /\ [Next]_vars => IInv'
<1> SUFFICES ASSUME IInv, [Next]_vars PROVE IInv'
  OBVIOUS
<1> USE DEF IInv, leaderVars, followerVars
<1>1. CASE LeaderRegister
  <2>1. lpc = "connect" /\ l2f = <<>> /\ f2l = <<>>
    BY <1>1 DEF LeaderRegister, ChannelInv
  <2>2. Message("register", llen, 0) \in Requests
    BY RequestType DEF TypeOK
  <2>3. UNCHANGED <<stage, llen, lleak, pending, errs, rounds, lsecret,
                    followerVars, saved, f2l, conn, diff, disclosed>>
    BY <1>1 DEF LeaderRegister
  <2>4. CASE conn
    <3>1. /\ lpc' = "reply" /\ lout' = lout
          /\ l2f' = ToFollower(Message("register", llen, 0))
      BY <1>1, <2>4 DEF LeaderRegister
    <3>2. /\ l2f' \in Seq(Requests)
          /\ \/ l2f' = <<>>
             \/ l2f' = <<Message("register", llen, 0)>> /\ fpc # "done"
      BY <2>1, <2>2, <3>1, RequestWritten
    <3>3. TypeOK'
      BY <2>1, <2>3, <3>1, <3>2 DEF TypeOK, LeaderPcs, FollowerPcs, Stages,
         LeaderInv, FollowerInv, Aligned
    <3>4. LeaderInv'
      BY <2>1, <2>3, <3>1, <3>2
        DEF TypeOK, LeaderPcs, FollowerPcs, Stages, LeaderInv, FollowerInv
    <3>5. ChannelInv'
      BY <2>1, <2>3, <3>1, <3>2 DEF TypeOK, LeaderPcs, FollowerPcs, Stages,
         LeaderInv, ChannelInv, FollowerInv, OpenRequest, OpenAnswers
    <3>6. FollowerInv'
      BY <2>1, <2>3, <3>1, <3>2 DEF TypeOK, LeaderPcs, FollowerPcs, Stages,
         LeaderInv, ChannelInv, FollowerInv, Aligned
    <3> QED
      BY <3>3, <3>4, <3>5, <3>6
  <2>5. CASE ~conn
    <3>1. lpc' = "done" /\ lout' = "panic" /\ l2f' = l2f
      BY <1>1, <2>5 DEF LeaderRegister, LeaderReturns
    <3>2. TypeOK'
      BY <2>1, <2>3, <3>1 DEF TypeOK, LeaderPcs, FollowerPcs, Stages,
         LeaderInv, FollowerInv, Aligned
    <3>3. LeaderInv'
      BY <2>1, <2>3, <3>1
        DEF TypeOK, LeaderPcs, FollowerPcs, Stages, LeaderInv, FollowerInv
    <3>4. ChannelInv'
      BY <2>1, <2>3, <3>1 DEF TypeOK, LeaderPcs, FollowerPcs, Stages,
         LeaderInv, ChannelInv, FollowerInv, OpenRequest, OpenAnswers
    <3>5. FollowerInv'
      BY <2>1, <2>3, <3>1 DEF TypeOK, LeaderPcs, FollowerPcs, Stages,
         LeaderInv, ChannelInv, FollowerInv, Aligned
    <3> QED
      BY <3>2, <3>3, <3>4, <3>5
  <2> QED
    BY <2>4, <2>5
<1>2. CASE LeaderReply
  <2>1. /\ Head(f2l) \in OpenAnswers
        /\ Tail(f2l) = <<>> /\ l2f = <<>>
    BY <1>2, AnswerRead DEF LeaderReply
  <2>2. /\ lpc = "reply" /\ f2l # <<>> /\ f2l' = <<>>
        /\ \/ lpc' = "done" /\ lout' = "notfound"
           \/ lpc' = "step" /\ lout' = lout
        /\ UNCHANGED <<stage, llen, lleak, pending, errs, rounds, lsecret,
                       followerVars, saved, l2f, conn, diff, disclosed>>
    BY <1>2, <2>1 DEF LeaderReply, LeaderReturns
  <2>3. <<>> \in Seq(Answers)
    BY EmptyType
  <2>4. TypeOK'
    BY <2>1, <2>2, <2>3 DEF TypeOK, LeaderPcs, FollowerPcs, Stages, LeaderInv,
       FollowerInv, Aligned
  <2>5. LeaderInv'
    BY <2>1, <2>2, <2>3
      DEF TypeOK, LeaderPcs, FollowerPcs, Stages, LeaderInv, FollowerInv
  <2>6. ChannelInv'
    BY <2>1, <2>2, <2>3 DEF TypeOK, LeaderPcs, FollowerPcs, Stages, LeaderInv,
       ChannelInv, FollowerInv, OpenRequest, OpenAnswers
  <2>7. FollowerInv'
    BY <2>1, <2>2, <2>3 DEF TypeOK, LeaderPcs, FollowerPcs, Stages, LeaderInv,
       ChannelInv, FollowerInv, Aligned
  <2> QED
    BY <2>4, <2>5, <2>6, <2>7
<1>3. CASE LeaderLost
  <2>1. /\ lpc \in {"reply", "response"} /\ f2l = <<>>
        /\ lpc' = "done" /\ lout' = "lost"
        /\ UNCHANGED <<stage, llen, lleak, pending, errs, rounds, lsecret,
                       followerVars, saved, l2f, f2l, conn, diff, disclosed>>
    BY <1>3 DEF LeaderLost, LeaderReadFails, LeaderReturns
  <2>2. TypeOK'
    BY <2>1 DEF TypeOK, LeaderPcs, FollowerPcs, Stages, LeaderInv,
       FollowerInv, Aligned
  <2>3. LeaderInv'
    BY <2>1 DEF TypeOK, LeaderPcs, FollowerPcs, Stages, LeaderInv, FollowerInv
  <2>4. ChannelInv'
    BY <2>1 DEF TypeOK, LeaderPcs, FollowerPcs, Stages, LeaderInv, ChannelInv,
       FollowerInv, OpenRequest, OpenAnswers
  <2>5. FollowerInv'
    BY <2>1 DEF TypeOK, LeaderPcs, FollowerPcs, Stages, LeaderInv, ChannelInv,
       FollowerInv, Aligned
  <2> QED
    BY <2>2, <2>3, <2>4, <2>5
<1>4. CASE DrawSample
  <2>1. lpc = "step" /\ stage = "draw" /\ l2f = <<>> /\ f2l = <<>>
    BY <1>4 DEF DrawSample, ChannelInv
  <2>2. llen # 0 =>
          /\ SampleSize(llen) \in 1..llen
          /\ Message("reveal", SampleSize(llen), llen) \in Requests
    BY RequestType, SampleSizeRange DEF TypeOK
  <2>3. CASE llen = 0
    <3>1. /\ lpc' = "done" /\ lout' = "panic"
          /\ UNCHANGED <<stage, llen, lleak, pending, errs, rounds, lsecret,
                         followerVars, saved, l2f, f2l, conn, diff, disclosed>>
      BY <1>4, <2>3 DEF DrawSample, LeaderReturns
    <3>2. TypeOK'
      BY <2>3, <3>1, <2>1, <2>2 DEF TypeOK, LeaderPcs, FollowerPcs, Stages,
         LeaderInv, FollowerInv, Aligned
    <3>3. LeaderInv'
      BY <2>3, <3>1, <2>1, <2>2
        DEF TypeOK, LeaderPcs, FollowerPcs, Stages, LeaderInv, FollowerInv
    <3>4. ChannelInv'
      BY <2>3, <3>1, <2>1, <2>2 DEF TypeOK, LeaderPcs, FollowerPcs, Stages,
         LeaderInv, ChannelInv, FollowerInv, OpenRequest, OpenAnswers
    <3>5. FollowerInv'
      BY <2>3, <3>1, <2>1, <2>2 DEF TypeOK, LeaderPcs, FollowerPcs, Stages,
         LeaderInv, ChannelInv, FollowerInv, Aligned
    <3> QED
      BY <3>2, <3>3, <3>4, <3>5
  <2>4. CASE llen # 0
    <3>1. /\ stage' = "drawn" /\ pending' = SampleSize(llen)
          /\ Request(Message("reveal", SampleSize(llen), llen))
          /\ UNCHANGED <<llen, lleak, errs, rounds, lsecret, followerVars,
                         saved, f2l, conn, diff, disclosed>>
      BY <1>4, <2>4 DEF DrawSample, LeaderReturns
    <3>2. /\ l2f' \in Seq(Requests)
          /\ \/ lpc' = "response" /\ lout' = lout
             \/ lpc' = "done" /\ lout' = "lost" /\ l2f' = <<>>
          /\ \/ l2f' = <<>>
             \/ l2f' = <<Message("reveal", SampleSize(llen), llen)>> /\ fpc # "done"
      BY <3>1, <2>4, <2>1, <2>2, RequestSent
    <3>3. TypeOK'
      BY <2>4, <3>1, <3>2, <2>1, <2>2 DEF TypeOK, LeaderPcs, FollowerPcs,
         Stages, LeaderInv, FollowerInv, Aligned
    <3>4. LeaderInv'
      BY <2>4, <3>1, <3>2, <2>1, <2>2
        DEF TypeOK, LeaderPcs, FollowerPcs, Stages, LeaderInv, FollowerInv
    <3>5. ChannelInv'
      BY <2>4, <3>1, <3>2, <2>1, <2>2 DEF TypeOK, LeaderPcs, FollowerPcs,
         Stages, LeaderInv, ChannelInv, FollowerInv, OpenRequest, OpenAnswers
    <3>6. FollowerInv'
      BY <2>4, <3>1, <3>2, <2>1, <2>2 DEF TypeOK, LeaderPcs, FollowerPcs,
         Stages, LeaderInv, ChannelInv, FollowerInv, Aligned
    <3> QED
      BY <3>3, <3>4, <3>5, <3>6
  <2> QED
    BY <2>3, <2>4, <2>1
<1>5. CASE Abort
  <2>1. /\ lpc = "step" /\ stage = "estimated"
        /\ lpc' = "done" /\ lout' = "abort"
        /\ UNCHANGED <<stage, llen, lleak, pending, errs, rounds, lsecret,
                       followerVars, saved, l2f, f2l, conn, diff, disclosed>>
    BY <1>5 DEF Abort, LeaderReturns
  <2>2. TypeOK'
    BY <2>1 DEF TypeOK, LeaderPcs, FollowerPcs, Stages, LeaderInv,
       FollowerInv, Aligned
  <2>3. LeaderInv'
    BY <2>1 DEF TypeOK, LeaderPcs, FollowerPcs, Stages, LeaderInv, FollowerInv
  <2>4. ChannelInv'
    BY <2>1 DEF TypeOK, LeaderPcs, FollowerPcs, Stages, LeaderInv, ChannelInv,
       FollowerInv, OpenRequest, OpenAnswers
  <2>5. FollowerInv'
    BY <2>1 DEF TypeOK, LeaderPcs, FollowerPcs, Stages, LeaderInv, ChannelInv,
       FollowerInv, Aligned
  <2> QED
    BY <2>2, <2>3, <2>4, <2>5
<1>6. CASE SetupPanics
  <2>1. /\ lpc = "step" /\ stage = "estimated"
        /\ lpc' = "done" /\ lout' = "panic"
        /\ UNCHANGED <<stage, llen, lleak, pending, errs, rounds, lsecret,
                       followerVars, saved, l2f, f2l, conn, diff, disclosed>>
    BY <1>6 DEF SetupPanics, LeaderReturns
  <2>2. TypeOK'
    BY <2>1 DEF TypeOK, LeaderPcs, FollowerPcs, Stages, LeaderInv,
       FollowerInv, Aligned
  <2>3. LeaderInv'
    BY <2>1 DEF TypeOK, LeaderPcs, FollowerPcs, Stages, LeaderInv, FollowerInv
  <2>4. ChannelInv'
    BY <2>1 DEF TypeOK, LeaderPcs, FollowerPcs, Stages, LeaderInv, ChannelInv,
       FollowerInv, OpenRequest, OpenAnswers
  <2>5. FollowerInv'
    BY <2>1 DEF TypeOK, LeaderPcs, FollowerPcs, Stages, LeaderInv, ChannelInv,
       FollowerInv, Aligned
  <2> QED
    BY <2>2, <2>3, <2>4, <2>5
<1>7. CASE CascadeAsks
  <2>1. /\ lpc = "step" /\ stage \in {"estimated", "cascade"}
        /\ l2f = <<>> /\ f2l = <<>>
        /\ rounds' = rounds + 1 /\ stage' = "cascade"
        /\ UNCHANGED <<llen, lleak, errs, lsecret, followerVars, saved, f2l,
                       conn, diff, disclosed>>
    BY <1>7 DEF CascadeAsks, CascadeRuns, ChannelInv
  <2>2. PICK n \in 1..MaxParities :
          pending' = n /\ Request(Message("syndrome", n, llen))
    BY <1>7 DEF CascadeAsks
  <2>3. n \in Nat
    BY BoundsAssumption
  <2>4. Message("syndrome", n, llen) \in Requests
    BY <2>3, RequestType DEF TypeOK
  <2>5. /\ l2f' \in Seq(Requests)
        /\ \/ lpc' = "response" /\ lout' = lout
           \/ lpc' = "done" /\ lout' = "lost" /\ l2f' = <<>>
        /\ \/ l2f' = <<>>
           \/ l2f' = <<Message("syndrome", n, llen)>> /\ fpc # "done"
    BY <2>1, <2>2, <2>4, RequestSent
  <2>6. TypeOK'
    BY <2>1, <2>2, <2>3, <2>5 DEF TypeOK, LeaderPcs, FollowerPcs, Stages,
       LeaderInv, FollowerInv, Aligned
  <2>7. LeaderInv'
    BY <2>1, <2>2, <2>3, <2>5
      DEF TypeOK, LeaderPcs, FollowerPcs, Stages, LeaderInv, FollowerInv
  <2>8. ChannelInv'
    BY <2>1, <2>2, <2>3, <2>5 DEF TypeOK, LeaderPcs, FollowerPcs, Stages,
       LeaderInv, ChannelInv, FollowerInv, OpenRequest, OpenAnswers
  <2>9. FollowerInv'
    BY <2>1, <2>2, <2>3, <2>5 DEF TypeOK, LeaderPcs, FollowerPcs, Stages,
       LeaderInv, ChannelInv, FollowerInv, Aligned
  <2> QED
    BY <2>6, <2>7, <2>8, <2>9
<1>8. CASE CascadeEnds
  <2>1. /\ lpc = "step"
        /\ stage \in {"estimated", "cascade"}
        /\ l2f = <<>>
        /\ f2l = <<>>
    BY <1>8 DEF CascadeEnds, CascadeRuns, ChannelInv
  <2>2. ~HashUnderflows => lleak <= llen /\ llen - lleak \in Nat
    BY <1>8 DEF HashUnderflows, TypeOK
  <2>3. ~HashUnderflows => Message("amplify", llen, llen - lleak) \in Requests
    BY <2>2, RequestType DEF TypeOK
  <2>4. CASE HashUnderflows
    <3>1. /\ lpc' = "done" /\ lout' = "panic"
          /\ UNCHANGED <<stage, llen, lleak, pending, errs, rounds, lsecret,
                         followerVars, saved, l2f, f2l, conn, diff, disclosed>>
      BY <1>8, <2>4 DEF CascadeEnds, LeaderReturns
    <3>2. TypeOK'
      BY <2>4, <3>1, <2>1, <2>2, <2>3 DEF TypeOK, LeaderPcs, FollowerPcs,
         Stages, LeaderInv, FollowerInv, Aligned
    <3>3. LeaderInv'
      BY <2>4, <3>1, <2>1, <2>2, <2>3
        DEF TypeOK, LeaderPcs, FollowerPcs, Stages, LeaderInv, FollowerInv
    <3>4. ChannelInv'
      BY <2>4, <3>1, <2>1, <2>2, <2>3 DEF TypeOK, LeaderPcs, FollowerPcs,
         Stages, LeaderInv, ChannelInv, FollowerInv, OpenRequest, OpenAnswers
    <3>5. FollowerInv'
      BY <2>4, <3>1, <2>1, <2>2, <2>3 DEF TypeOK, LeaderPcs, FollowerPcs,
         Stages, LeaderInv, ChannelInv, FollowerInv, Aligned
    <3> QED
      BY <3>2, <3>3, <3>4, <3>5
  <2>5. CASE ~HashUnderflows
    <3>1. /\ stage' = "amplify"
          /\ Request(Message("amplify", llen, llen - lleak))
          /\ UNCHANGED <<llen, lleak, pending, errs, rounds, lsecret,
                         followerVars, saved, f2l, conn, diff, disclosed>>
      BY <1>8, <2>5 DEF CascadeEnds, LeaderReturns
    <3>2. /\ l2f' \in Seq(Requests)
          /\ \/ lpc' = "response" /\ lout' = lout
             \/ lpc' = "done" /\ lout' = "lost" /\ l2f' = <<>>
          /\ \/ l2f' = <<>>
             \/ l2f' = <<Message("amplify", llen, llen - lleak)>> /\ fpc # "done"
      BY <3>1, <2>5, <2>1, <2>2, <2>3, RequestSent
    <3>3. TypeOK'
      BY <2>5, <3>1, <3>2, <2>1, <2>2, <2>3 DEF TypeOK, LeaderPcs,
         FollowerPcs, Stages, LeaderInv, FollowerInv, Aligned
    <3>4. LeaderInv'
      BY <2>5, <3>1, <3>2, <2>1, <2>2, <2>3
        DEF TypeOK, LeaderPcs, FollowerPcs, Stages, LeaderInv, FollowerInv
    <3>5. ChannelInv'
      BY <2>5, <3>1, <3>2, <2>1, <2>2, <2>3 DEF TypeOK, LeaderPcs,
         FollowerPcs, Stages, LeaderInv, ChannelInv, FollowerInv, OpenRequest,
         OpenAnswers
    <3>6. FollowerInv'
      BY <2>5, <3>1, <3>2, <2>1, <2>2, <2>3 DEF TypeOK, LeaderPcs,
         FollowerPcs, Stages, LeaderInv, ChannelInv, FollowerInv, Aligned
    <3> QED
      BY <3>3, <3>4, <3>5, <3>6
  <2> QED
    BY <2>4, <2>5, <2>1
<1>9. CASE LeaderUpdate
  <2>1. /\ Head(f2l) \in OpenAnswers
        /\ Tail(f2l) = <<>> /\ l2f = <<>>
    BY <1>9, AnswerRead DEF LeaderUpdate
  <2>2. /\ lpc = "response" /\ f2l # <<>> /\ f2l' = <<>>
        /\ UNCHANGED <<pending, rounds, lsecret, followerVars, saved, l2f,
                       conn, disclosed>>
    BY <1>9, <2>1 DEF LeaderUpdate
  <2>3. <<>> \in Seq(Answers)
    BY EmptyType
  <2>4. CASE EstimateUpdate
    <3>1. stage = "drawn"
      BY <2>4 DEF EstimateUpdate
    <3>2. Head(f2l) = Message("reveal", pending, 0)
      BY <2>1, <2>2, <3>1 DEF OpenAnswers
    <3>3. /\ stage' = "estimated" /\ llen' = llen - pending
          /\ errs' \in Nat /\ diff' \in Nat
          /\ lpc' = "step" /\ UNCHANGED <<lout, lleak>>
      BY <2>4, <3>1, <3>2, Fields DEF EstimateUpdate, SampledErrors, TypeOK
    <3>4. TypeOK'
      BY <2>1, <2>2, <2>3, <3>1, <3>3 DEF TypeOK, LeaderPcs, FollowerPcs,
         Stages, LeaderInv, FollowerInv, Aligned
    <3>5. LeaderInv'
      BY <2>1, <2>2, <2>3, <3>1, <3>3
        DEF TypeOK, LeaderPcs, FollowerPcs, Stages, LeaderInv, FollowerInv
    <3>6. ChannelInv'
      BY <2>1, <2>2, <2>3, <3>1, <3>3 DEF TypeOK, LeaderPcs, FollowerPcs,
         Stages, LeaderInv, ChannelInv, FollowerInv, OpenRequest, OpenAnswers
    <3>7. FollowerInv'
      BY <2>1, <2>2, <2>3, <3>1, <3>3 DEF TypeOK, LeaderPcs, FollowerPcs,
         Stages, LeaderInv, ChannelInv, FollowerInv, Aligned
    <3> QED
      BY <3>4, <3>5, <3>6, <3>7
  <2>5. CASE CascadeUpdate
    <3>1. stage = "cascade"
      BY <2>5 DEF CascadeUpdate
    <3>2. Head(f2l) = Message("syndrome", pending, 0)
      BY <2>1, <2>2, <3>1 DEF OpenAnswers
    <3>3. /\ lleak' = lleak + pending /\ diff' \in Nat
          /\ lpc' = "step" /\ UNCHANGED <<stage, llen, errs, lout>>
      BY <2>5, <3>1, <3>2, Fields DEF CascadeUpdate, TypeOK
    <3>4. TypeOK'
      BY <2>1, <2>2, <2>3, <3>1, <3>3 DEF TypeOK, LeaderPcs, FollowerPcs,
         Stages, LeaderInv, FollowerInv, Aligned
    <3>5. LeaderInv'
      BY <2>1, <2>2, <2>3, <3>1, <3>3
        DEF TypeOK, LeaderPcs, FollowerPcs, Stages, LeaderInv, FollowerInv
    <3>6. ChannelInv'
      BY <2>1, <2>2, <2>3, <3>1, <3>3 DEF TypeOK, LeaderPcs, FollowerPcs,
         Stages, LeaderInv, ChannelInv, FollowerInv, OpenRequest, OpenAnswers
    <3>7. FollowerInv'
      BY <2>1, <2>2, <2>3, <3>1, <3>3 DEF TypeOK, LeaderPcs, FollowerPcs,
         Stages, LeaderInv, ChannelInv, FollowerInv, Aligned
    <3> QED
      BY <3>4, <3>5, <3>6, <3>7
  <2>6. CASE AmplificationUpdate
    <3>1. stage = "amplify"
      BY <2>6 DEF AmplificationUpdate
    <3>3. /\ stage' = "confirmed" /\ lpc' = "step"
          /\ UNCHANGED <<llen, lleak, errs, diff, lout>>
      BY <2>6, <3>1, <2>2 DEF AmplificationUpdate
    <3>4. TypeOK'
      BY <2>1, <2>2, <2>3, <3>1, <3>3 DEF TypeOK, LeaderPcs, FollowerPcs,
         Stages, LeaderInv, FollowerInv, Aligned
    <3>5. LeaderInv'
      BY <2>1, <2>2, <2>3, <3>1, <3>3
        DEF TypeOK, LeaderPcs, FollowerPcs, Stages, LeaderInv, FollowerInv
    <3>6. ChannelInv'
      BY <2>1, <2>2, <2>3, <3>1, <3>3 DEF TypeOK, LeaderPcs, FollowerPcs,
         Stages, LeaderInv, ChannelInv, FollowerInv, OpenRequest, OpenAnswers
    <3>7. FollowerInv'
      BY <2>1, <2>2, <2>3, <3>1, <3>3 DEF TypeOK, LeaderPcs, FollowerPcs,
         Stages, LeaderInv, ChannelInv, FollowerInv, Aligned
    <3> QED
      BY <3>4, <3>5, <3>6, <3>7
  <2> QED
    BY <1>9, <2>4, <2>5, <2>6 DEF LeaderUpdate
<1>10. CASE LeaderHashes
  <2>1. /\ lpc = "step" /\ stage = "confirmed"
        /\ lsecret' = llen - lleak /\ lpc' = "persist" /\ lout' = "secret"
        /\ UNCHANGED <<stage, llen, lleak, pending, errs, rounds,
                       followerVars, saved, l2f, f2l, conn, diff, disclosed>>
    BY <1>10 DEF LeaderHashes
  <2>2. TypeOK'
    BY <2>1 DEF TypeOK, LeaderPcs, FollowerPcs, Stages, LeaderInv,
       FollowerInv, Aligned
  <2>3. LeaderInv'
    BY <2>1 DEF TypeOK, LeaderPcs, FollowerPcs, Stages, LeaderInv, FollowerInv
  <2>4. ChannelInv'
    BY <2>1 DEF TypeOK, LeaderPcs, FollowerPcs, Stages, LeaderInv, ChannelInv,
       FollowerInv, OpenRequest, OpenAnswers
  <2>5. FollowerInv'
    BY <2>1 DEF TypeOK, LeaderPcs, FollowerPcs, Stages, LeaderInv, ChannelInv,
       FollowerInv, Aligned
  <2> QED
    BY <2>2, <2>3, <2>4, <2>5
<1>11. CASE LeaderPersists
  <2>1. /\ lpc = "persist" /\ lpc' = "done"
        /\ saved' \in {saved, saved \cup {"leader"}}
        /\ UNCHANGED <<stage, llen, lleak, pending, errs, rounds, lout,
                       lsecret, followerVars, l2f, f2l, conn, diff, disclosed>>
    BY <1>11 DEF LeaderPersists
  <2>2. TypeOK'
    BY <2>1 DEF TypeOK, LeaderPcs, FollowerPcs, Stages, LeaderInv,
       FollowerInv, Aligned
  <2>3. LeaderInv'
    BY <2>1 DEF TypeOK, LeaderPcs, FollowerPcs, Stages, LeaderInv, FollowerInv
  <2>4. ChannelInv'
    BY <2>1 DEF TypeOK, LeaderPcs, FollowerPcs, Stages, LeaderInv, ChannelInv,
       FollowerInv, OpenRequest, OpenAnswers
  <2>5. FollowerInv'
    BY <2>1 DEF TypeOK, LeaderPcs, FollowerPcs, Stages, LeaderInv, ChannelInv,
       FollowerInv, Aligned
  <2> QED
    BY <2>2, <2>3, <2>4, <2>5
<1>12. CASE FollowerAccepts
  <2>1. /\ Head(l2f) = OpenRequest
        /\ Head(l2f).n \in Nat /\ Head(l2f).m \in Nat
        /\ Tail(l2f) = <<>> /\ f2l = <<>>
    BY <1>12, RequestRead DEF FollowerAccepts, Requests
  <2>2. /\ fpc = "listen" /\ l2f # <<>>
        /\ expected' = llen
        /\ l2f' = <<>> /\ fpc' = "wait"
        /\ UNCHANGED <<leaderVars, arrived, flen, fleak, fout, fsecret, saved,
                       f2l, conn, diff, disclosed>>
    BY <1>12, <2>1, Fields DEF FollowerAccepts, OpenRequest
  <2>3. <<>> \in Seq(Requests)
    BY EmptyType
  <2>4. TypeOK'
    BY <2>1, <2>2, <2>3 DEF TypeOK, LeaderPcs, FollowerPcs, Stages, LeaderInv,
       FollowerInv, Aligned
  <2>5. LeaderInv'
    BY <2>1, <2>2, <2>3
      DEF TypeOK, LeaderPcs, FollowerPcs, Stages, LeaderInv, FollowerInv
  <2>6. ChannelInv'
    BY <2>1, <2>2, <2>3 DEF TypeOK, LeaderPcs, FollowerPcs, Stages, LeaderInv,
       ChannelInv, FollowerInv, OpenRequest, OpenAnswers
  <2>7. FollowerInv'
    BY <2>1, <2>2, <2>3 DEF TypeOK, LeaderPcs, FollowerPcs, Stages, LeaderInv,
       ChannelInv, FollowerInv, Aligned
  <2> QED
    BY <2>4, <2>5, <2>6, <2>7
<1>13. CASE FollowerStopsListening
  <2>1. /\ fpc = "listen"
        /\ fpc' = "done" /\ fout' = "lost"
        /\ UNCHANGED <<leaderVars, arrived, expected, flen, fleak, fsecret,
                       saved, l2f, f2l, conn, diff, disclosed>>
    BY <1>13 DEF FollowerStopsListening, FollowerReturns
  <2>2. TypeOK'
    BY <2>1 DEF TypeOK, LeaderPcs, FollowerPcs, Stages, LeaderInv,
       FollowerInv, Aligned
  <2>3. LeaderInv'
    BY <2>1 DEF TypeOK, LeaderPcs, FollowerPcs, Stages, LeaderInv, FollowerInv
  <2>4. ChannelInv'
    BY <2>1 DEF TypeOK, LeaderPcs, FollowerPcs, Stages, LeaderInv, ChannelInv,
       FollowerInv, OpenRequest, OpenAnswers
  <2>5. FollowerInv'
    BY <2>1 DEF TypeOK, LeaderPcs, FollowerPcs, Stages, LeaderInv, ChannelInv,
       FollowerInv, Aligned
  <2> QED
    BY <2>2, <2>3, <2>4, <2>5
<1>14. CASE FollowerTimeout
  <2>1. fpc = "wait" /\ l2f = <<>> /\ f2l = <<>>
    BY <1>14 DEF FollowerTimeout, ChannelInv, FollowerInv
  <2>2. Message("notfound", 0, 0) \in Answers
    BY AnswerType
  <2>3. /\ f2l' \in Seq(Answers)
        /\ \/ f2l' = <<>>
           \/ f2l' = <<Message("notfound", 0, 0)>> /\ lpc # "done"
        /\ fpc' = "done" /\ fout' = "notfound"
        /\ UNCHANGED <<leaderVars, arrived, expected, flen, fleak, fsecret,
                       saved, l2f, conn, diff, disclosed>>
    BY <1>14, <2>1, <2>2, RegisterAnswered DEF FollowerTimeout, FollowerReturns
  <2>4. TypeOK'
    BY <2>1, <2>2, <2>3 DEF TypeOK, LeaderPcs, FollowerPcs, Stages, LeaderInv,
       FollowerInv, Aligned
  <2>5. LeaderInv'
    BY <2>1, <2>2, <2>3
      DEF TypeOK, LeaderPcs, FollowerPcs, Stages, LeaderInv, FollowerInv
  <2>6. ChannelInv'
    BY <2>1, <2>2, <2>3 DEF TypeOK, LeaderPcs, FollowerPcs, Stages, LeaderInv,
       ChannelInv, FollowerInv, OpenRequest, OpenAnswers
  <2>7. FollowerInv'
    BY <2>1, <2>2, <2>3 DEF TypeOK, LeaderPcs, FollowerPcs, Stages, LeaderInv,
       ChannelInv, FollowerInv, Aligned
  <2> QED
    BY <2>4, <2>5, <2>6, <2>7
<1>15. CASE FollowerFindsKey
  <2>1. fpc = "wait" /\ l2f = <<>> /\ f2l = <<>>
    BY <1>15 DEF FollowerFindsKey, ChannelInv, FollowerInv
  <2>2. UNCHANGED <<leaderVars, arrived, expected, flen, fleak, fsecret,
                    saved, l2f, conn, diff, disclosed>>
    BY <1>15 DEF FollowerFindsKey
  <2>3. /\ Message("mismatch", 0, 0) \in Answers
        /\ Message("found", 0, 0) \in Answers
    BY AnswerType
  <2>4. CASE flen # expected
    <3>1. /\ f2l' \in Seq(Answers)
          /\ \/ f2l' = <<>>
             \/ f2l' = <<Message("mismatch", 0, 0)>> /\ lpc # "done"
          /\ fpc' = "done" /\ fout' = "mismatch"
      BY <1>15, <2>1, <2>3, <2>4, RegisterAnswered
        DEF FollowerFindsKey, FollowerReturns
    <3>2. TypeOK'
      BY <2>1, <2>2, <3>1 DEF TypeOK, LeaderPcs, FollowerPcs, Stages,
         LeaderInv, FollowerInv, Aligned
    <3>3. LeaderInv'
      BY <2>1, <2>2, <3>1
        DEF TypeOK, LeaderPcs, FollowerPcs, Stages, LeaderInv, FollowerInv
    <3>4. ChannelInv'
      BY <2>1, <2>2, <3>1 DEF TypeOK, LeaderPcs, FollowerPcs, Stages,
         LeaderInv, ChannelInv, FollowerInv, OpenRequest, OpenAnswers
    <3>5. FollowerInv'
      BY <2>1, <2>2, <3>1 DEF TypeOK, LeaderPcs, FollowerPcs, Stages,
         LeaderInv, ChannelInv, FollowerInv, Aligned
    <3> QED
      BY <3>2, <3>3, <3>4, <3>5
  <2>5. CASE flen = expected
    <3>1. /\ f2l' \in Seq(Answers)
          /\ f2l' = <<>> \/ (f2l' = <<Message("found", 0, 0)>> /\ lpc # "done")
          /\ fpc' = "serve" /\ fout' = fout
      BY <1>15, <2>1, <2>3, <2>5, RegisterAnswered DEF FollowerFindsKey
    <3>2. TypeOK'
      BY <2>1, <2>2, <2>5, <3>1 DEF TypeOK, LeaderPcs, FollowerPcs, Stages,
         LeaderInv, FollowerInv, Aligned
    <3>3. LeaderInv'
      BY <2>1, <2>2, <2>5, <3>1
        DEF TypeOK, LeaderPcs, FollowerPcs, Stages, LeaderInv, FollowerInv
    <3>4. ChannelInv'
      BY <2>1, <2>2, <2>5, <3>1 DEF TypeOK, LeaderPcs, FollowerPcs, Stages,
         LeaderInv, ChannelInv, FollowerInv, OpenRequest, OpenAnswers
    <3>5. FollowerInv'
      BY <2>1, <2>2, <2>5, <3>1 DEF TypeOK, LeaderPcs, FollowerPcs, Stages,
         LeaderInv, ChannelInv, FollowerInv, Aligned
    <3> QED
      BY <3>2, <3>3, <3>4, <3>5
  <2> QED
    BY <2>4, <2>5
<1>16. CASE FollowerLost
  <2>1. /\ fpc = "serve" /\ l2f = <<>>
        /\ fpc' = "done" /\ fout' = "lost"
        /\ UNCHANGED <<leaderVars, arrived, expected, flen, fleak, fsecret,
                       saved, l2f, f2l, conn, diff, disclosed>>
    BY <1>16 DEF FollowerLost, FollowerReadFails, FollowerReturns
  <2>2. TypeOK'
    BY <2>1 DEF TypeOK, LeaderPcs, FollowerPcs, Stages, LeaderInv,
       FollowerInv, Aligned
  <2>3. LeaderInv'
    BY <2>1 DEF TypeOK, LeaderPcs, FollowerPcs, Stages, LeaderInv, FollowerInv
  <2>4. ChannelInv'
    BY <2>1 DEF TypeOK, LeaderPcs, FollowerPcs, Stages, LeaderInv, ChannelInv,
       FollowerInv, OpenRequest, OpenAnswers
  <2>5. FollowerInv'
    BY <2>1 DEF TypeOK, LeaderPcs, FollowerPcs, Stages, LeaderInv, ChannelInv,
       FollowerInv, Aligned
  <2> QED
    BY <2>2, <2>3, <2>4, <2>5
<1>17. CASE FollowerServes
  <2>1. /\ fpc = "serve" /\ l2f # <<>>
        /\ UNCHANGED <<leaderVars, arrived, expected, fsecret, saved, conn,
                       diff>>
    BY <1>17 DEF FollowerServes
  <2>2. Head(l2f) = OpenRequest /\ l2f' = <<>> /\ f2l = <<>>
    BY <1>17, <2>1, RequestRead DEF FollowerServes
  <2>3. <<>> \in Seq(Requests)
    BY EmptyType
  <2>4. CASE FollowerReveals(Head(l2f))
    <3>1. /\ stage = "drawn"
          /\ Head(l2f) = Message("reveal", pending, llen)
          /\ flen = llen
      BY <2>4, <2>1, <2>2, Fields
        DEF FollowerReveals, OpenRequest, ChannelInv, FollowerInv, Aligned
    <3>2. Message("reveal", pending, 0) \in Answers
      BY AnswerType DEF TypeOK
    <3>3. Respond(Message("reveal", pending, 0))
      BY <2>4, <3>1, Fields DEF FollowerReveals, TypeOK
    <3>4. /\ f2l' \in Seq(Answers)
          /\ \/ /\ fpc' = fpc /\ fout' = fout
                /\ disclosed' = disclosed + pending
             \/ /\ fpc' = "done" /\ fout' = "lost" /\ f2l' = <<>>
                /\ disclosed' = disclosed
          /\ \/ f2l' = <<>>
             \/ f2l' = <<Message("reveal", pending, 0)>> /\ lpc # "done"
      BY <2>2, <3>2, <3>3, RequestAnswered, Fields
    <3>5. /\ fleak' = fleak
          /\ flen' = IF fpc' = "done" THEN flen ELSE flen - pending
      BY <2>4, <3>1, Fields DEF FollowerReveals, RemoveRevealed
    <3>6. TypeOK'
      BY <2>1, <2>2, <2>3, <3>1, <3>4, <3>5 DEF TypeOK, LeaderPcs,
         FollowerPcs, Stages, LeaderInv, FollowerInv, Aligned
    <3>7. LeaderInv'
      BY <2>1, <2>2, <2>3, <3>1, <3>4, <3>5
        DEF TypeOK, LeaderPcs, FollowerPcs, Stages, LeaderInv, FollowerInv
    <3>8. ChannelInv'
      BY <2>1, <2>2, <2>3, <3>1, <3>4, <3>5 DEF TypeOK, LeaderPcs,
         FollowerPcs, Stages, LeaderInv, ChannelInv, FollowerInv, OpenRequest,
         OpenAnswers
    <3>9. FollowerInv'
      BY <2>1, <2>2, <2>3, <3>1, <3>4, <3>5 DEF TypeOK, LeaderPcs,
         FollowerPcs, Stages, LeaderInv, ChannelInv, FollowerInv, Aligned
    <3> QED
      BY <3>6, <3>7, <3>8, <3>9
  <2>5. CASE FollowerSyndrome(Head(l2f))
    <3>1. /\ stage = "cascade"
          /\ Head(l2f) = Message("syndrome", pending, llen)
          /\ flen = llen
      BY <2>5, <2>1, <2>2, Fields
        DEF FollowerSyndrome, OpenRequest, ChannelInv, FollowerInv, Aligned
    <3>2. Message("syndrome", pending, 0) \in Answers
      BY AnswerType DEF TypeOK
    <3>3. Respond(Message("syndrome", pending, 0))
      BY <2>5, <3>1, Fields DEF FollowerSyndrome, TypeOK
    <3>4. /\ f2l' \in Seq(Answers)
          /\ \/ /\ fpc' = fpc /\ fout' = fout
                /\ disclosed' = disclosed + pending
             \/ /\ fpc' = "done" /\ fout' = "lost" /\ f2l' = <<>>
                /\ disclosed' = disclosed
          /\ \/ f2l' = <<>>
             \/ f2l' = <<Message("syndrome", pending, 0)>> /\ lpc # "done"
      BY <2>2, <3>2, <3>3, RequestAnswered, Fields
    <3>5. fleak' = fleak + pending /\ flen' = flen
      BY <2>5, <3>1, Fields DEF FollowerSyndrome, RemoveRevealed
    <3>6. TypeOK'
      BY <2>1, <2>2, <2>3, <3>1, <3>4, <3>5 DEF TypeOK, LeaderPcs,
         FollowerPcs, Stages, LeaderInv, FollowerInv, Aligned
    <3>7. LeaderInv'
      BY <2>1, <2>2, <2>3, <3>1, <3>4, <3>5
        DEF TypeOK, LeaderPcs, FollowerPcs, Stages, LeaderInv, FollowerInv
    <3>8. ChannelInv'
      BY <2>1, <2>2, <2>3, <3>1, <3>4, <3>5 DEF TypeOK, LeaderPcs,
         FollowerPcs, Stages, LeaderInv, ChannelInv, FollowerInv, OpenRequest,
         OpenAnswers
    <3>9. FollowerInv'
      BY <2>1, <2>2, <2>3, <3>1, <3>4, <3>5 DEF TypeOK, LeaderPcs,
         FollowerPcs, Stages, LeaderInv, ChannelInv, FollowerInv, Aligned
    <3> QED
      BY <3>6, <3>7, <3>8, <3>9
  <2> QED
    BY <1>17, <2>4, <2>5 DEF FollowerServes
<1>18. CASE FollowerAmplifies
  <2>1. fpc = "serve" /\ l2f # <<>> /\ Head(l2f).type = "amplify"
    BY <1>18 DEF FollowerAmplifies
  <2>2. Head(l2f) = OpenRequest /\ Tail(l2f) = <<>> /\ f2l = <<>>
    BY <2>1, RequestRead
  <2>3. /\ stage = "amplify" /\ flen = llen /\ fleak = lleak
        /\ Head(l2f) = Message("amplify", llen, llen - lleak)
    BY <2>1, <2>2, Fields DEF OpenRequest, ChannelInv, FollowerInv, Aligned
  <2>4. ~HashRefused(Head(l2f))
    BY <2>3, Fields DEF HashRefused
  <2>5. Message("confirmed", 0, 0) \in Answers
    BY AnswerType
  <2>6. /\ Answer("confirmed")
        /\ l2f' = <<>> /\ fsecret' = llen - lleak
        /\ fpc' = "persist" /\ fout' = "secret"
        /\ UNCHANGED <<leaderVars, arrived, expected, flen, fleak, saved,
                       conn, diff, disclosed>>
    BY <1>18, <2>2, <2>3, <2>4, Fields DEF FollowerAmplifies
  <2>7. /\ f2l' \in Seq(Answers)
        /\ \/ f2l' = <<>>
           \/ f2l' = <<Message("confirmed", 0, 0)>> /\ lpc # "done"
    BY <2>2, <2>5, <2>6, RegisterAnswered
  <2>8. <<>> \in Seq(Requests)
    BY EmptyType
  <2>9. TypeOK'
    BY <2>1, <2>2, <2>3, <2>6, <2>7, <2>8 DEF TypeOK, LeaderPcs, FollowerPcs,
       Stages, LeaderInv, FollowerInv, Aligned
  <2>10. LeaderInv'
    BY <2>1, <2>2, <2>3, <2>6, <2>7, <2>8
      DEF TypeOK, LeaderPcs, FollowerPcs, Stages, LeaderInv, FollowerInv
  <2>11. ChannelInv'
    BY <2>1, <2>2, <2>3, <2>6, <2>7, <2>8 DEF TypeOK, LeaderPcs, FollowerPcs,
       Stages, LeaderInv, ChannelInv, FollowerInv, OpenRequest, OpenAnswers
  <2>12. FollowerInv'
    BY <2>1, <2>2, <2>3, <2>6, <2>7, <2>8 DEF TypeOK, LeaderPcs, FollowerPcs,
       Stages, LeaderInv, ChannelInv, FollowerInv, Aligned
  <2> QED
    BY <2>9, <2>10, <2>11, <2>12
<1>19. CASE FollowerPersists
  <2>1. /\ fpc = "persist" /\ fpc' = "done"
        /\ saved' \in {saved, saved \cup {"follower"}}
        /\ UNCHANGED <<leaderVars, arrived, expected, flen, fleak, fout,
                       fsecret, l2f, f2l, conn, diff, disclosed>>
    BY <1>19 DEF FollowerPersists
  <2>2. TypeOK'
    BY <2>1 DEF TypeOK, LeaderPcs, FollowerPcs, Stages, LeaderInv,
       FollowerInv, Aligned
  <2>3. LeaderInv'
    BY <2>1 DEF TypeOK, LeaderPcs, FollowerPcs, Stages, LeaderInv, FollowerInv
  <2>4. ChannelInv'
    BY <2>1 DEF TypeOK, LeaderPcs, FollowerPcs, Stages, LeaderInv, ChannelInv,
       FollowerInv, OpenRequest, OpenAnswers
  <2>5. FollowerInv'
    BY <2>1 DEF TypeOK, LeaderPcs, FollowerPcs, Stages, LeaderInv, ChannelInv,
       FollowerInv, Aligned
  <2> QED
    BY <2>2, <2>3, <2>4, <2>5
<1>20. CASE KeyArrives
  <2>1. /\ arrived' = TRUE
        /\ UNCHANGED <<leaderVars, fpc, expected, flen, fleak, fout, fsecret,
                       saved, l2f, f2l, conn, diff, disclosed>>
    BY <1>20 DEF KeyArrives
  <2>2. TypeOK'
    BY <2>1 DEF TypeOK, LeaderPcs, FollowerPcs, Stages, LeaderInv,
       FollowerInv, Aligned
  <2>3. LeaderInv'
    BY <2>1 DEF TypeOK, LeaderPcs, FollowerPcs, Stages, LeaderInv, FollowerInv
  <2>4. ChannelInv'
    BY <2>1 DEF TypeOK, LeaderPcs, FollowerPcs, Stages, LeaderInv, ChannelInv,
       FollowerInv, OpenRequest, OpenAnswers
  <2>5. FollowerInv'
    BY <2>1 DEF TypeOK, LeaderPcs, FollowerPcs, Stages, LeaderInv, ChannelInv,
       FollowerInv, Aligned
  <2> QED
    BY <2>2, <2>3, <2>4, <2>5
<1>21. CASE ConnectionLost
  <2>1. PICK i \in 0..Len(l2f), j \in 0..Len(f2l) :
          l2f' = SubSeq(l2f, 1, i) /\ f2l' = SubSeq(f2l, 1, j)
    BY <1>21 DEF ConnectionLost
  <2>2. /\ conn' = FALSE
        /\ UNCHANGED <<leaderVars, followerVars, saved, diff, disclosed>>
    BY <1>21 DEF ConnectionLost
  <2>3. l2f' \in Seq(Requests) /\ f2l' \in Seq(Answers)
    BY <2>1, PrefixType DEF TypeOK
  <2>4. l2f = <<>> => l2f' = <<>>
    BY <2>1, EmptyPrefix
  <2>5. f2l' = f2l \/ f2l' = <<>>
    <3>1. f2l # <<>> => \E answer \in OpenAnswers : f2l = <<answer>>
      BY DEF ChannelInv
    <3>2. CASE f2l = <<>>
      BY <2>1, <3>2, EmptyPrefix
    <3>3. CASE f2l # <<>>
      <4>1. PICK answer \in OpenAnswers : f2l = <<answer>>
        BY <3>1, <3>3
      <4>2. Len(f2l) <= 1
        BY <4>1, LengthOne
      <4> QED
        BY <2>1, <4>2, PrefixOfOne DEF TypeOK
    <3> QED
      BY <3>2, <3>3
  <2>6. fpc # "done" => l2f' = l2f \/ l2f' = <<>>
    <3>1. fpc # "done" => Len(l2f) <= 1
      BY LengthOne DEF ChannelInv
    <3> QED
      BY <2>1, <3>1, PrefixOfOne DEF TypeOK
  <2>7. TypeOK'
    BY <2>2, <2>3, <2>4, <2>5, <2>6 DEF TypeOK, LeaderPcs, FollowerPcs,
       Stages, LeaderInv, FollowerInv, Aligned
  <2>8. LeaderInv'
    BY <2>2, <2>3, <2>4, <2>5, <2>6
      DEF TypeOK, LeaderPcs, FollowerPcs, Stages, LeaderInv, FollowerInv
  <2>9. ChannelInv'
    BY <2>2, <2>3, <2>4, <2>5, <2>6 DEF TypeOK, LeaderPcs, FollowerPcs,
       Stages, LeaderInv, ChannelInv, FollowerInv, OpenRequest, OpenAnswers
  <2>10. FollowerInv'
    BY <2>2, <2>3, <2>4, <2>5, <2>6 DEF TypeOK, LeaderPcs, FollowerPcs,
       Stages, LeaderInv, ChannelInv, FollowerInv, Aligned
  <2> QED
    BY <2>7, <2>8, <2>9, <2>10
<1>22. CASE UNCHANGED vars
  BY <1>22 DEF vars, TypeOK, LeaderPcs, FollowerPcs, Stages, LeaderInv,
     ChannelInv, FollowerInv, Aligned, OpenRequest, OpenAnswers
<1>23. CASE FollowerOverflows
  <2>1. /\ fpc = "serve" /\ l2f # <<>>
        /\ fpc' = "done" /\ fout' = "overflow"
        /\ UNCHANGED <<leaderVars, arrived, expected, flen, fleak, fsecret,
                       saved, f2l, conn, diff, disclosed>>
    BY <1>23 DEF FollowerOverflows, FollowerReturns
  <2>2. l2f' = <<>> /\ f2l = <<>>
    BY <1>23, <2>1, RequestRead DEF FollowerOverflows
  <2>3. <<>> \in Seq(Requests)
    BY EmptyType
  <2>4. TypeOK'
    BY <2>1, <2>2, <2>3 DEF TypeOK, LeaderPcs, FollowerPcs, Stages, LeaderInv,
       FollowerInv, Aligned
  <2>5. LeaderInv'
    BY <2>1, <2>2
      DEF TypeOK, LeaderPcs, FollowerPcs, Stages, LeaderInv, FollowerInv
  <2>6. ChannelInv'
    BY <2>1, <2>2 DEF TypeOK, LeaderPcs, FollowerPcs, Stages, LeaderInv,
       ChannelInv, FollowerInv, OpenRequest, OpenAnswers
  <2>7. FollowerInv'
    BY <2>1, <2>2 DEF TypeOK, LeaderPcs, FollowerPcs, Stages, LeaderInv,
       ChannelInv, FollowerInv, Aligned
  <2> QED
    BY <2>4, <2>5, <2>6, <2>7
<1> QED
  BY <1>1, <1>2, <1>3, <1>4, <1>5, <1>6, <1>7, <1>8, <1>9, <1>10, <1>11,
     <1>12, <1>13, <1>14, <1>15, <1>16, <1>17, <1>18, <1>19, <1>20, <1>21,
     <1>22, <1>23
     DEF Next, LeaderNext, FollowerNext

-----------------------------------------------------------------------------
(* The invariants of every behaviour.                                      *)

\* A session starts with both keys whole and both channels empty.
LEMMA InitInv == Init => IInv
<1> SUFFICES ASSUME Init PROVE IInv
  OBVIOUS
<1>1. TypeOK
  BY SiftedLengthsAssumption, BoundsAssumption, EmptyType
  DEF Init, TypeOK, LeaderPcs, FollowerPcs, Stages
<1>2. LeaderInv
  BY DEF Init, LeaderInv
<1>3. ChannelInv
  BY DEF Init, ChannelInv
<1>4. FollowerInv
  BY DEF Init, FollowerInv
<1> QED
  BY <1>1, <1>2, <1>3, <1>4 DEF IInv

\* The inductive invariant holds in every reachable state: process_key of the
\* leader and of the follower always agree on whose turn it is.
THEOREM Invariance == Spec => []IInv
<1>1. IInv /\ [Next]_vars => IInv'
  BY Inductive
<1> QED
  BY InitInv, <1>1, PTL DEF Spec, SafeSpec

\* No length, leak count or message of a session ever leaves its type.
THEOREM TypeCorrect == Spec => []TypeOK
<1>1. IInv => TypeOK
  BY DEF IInv
<1> QED
  BY Invariance, <1>1, PTL

\* The follower never indexes past its key and never refuses the hash.
THEOREM Alignment == Spec => []KeysStayAligned
<1>1. IInv => KeysStayAligned
  BY DEF IInv, FollowerInv, KeysStayAligned
<1> QED
  BY Invariance, <1>1, PTL

\* The pipeline of the leader is never handed an answer that does not fit.
THEOREM AnswersFit == Spec => []AnswersFitRequests
<1>1. IInv => AnswersFitRequests
  BY DEF IInv, LeaderInv, AnswersFitRequests
<1> QED
  BY Invariance, <1>1, PTL

\* A secret key of the leader is one the follower has too, of equal length.
THEOREM SecretAgreement == Spec => []SecretsAgree
<1>1. IInv => SecretsAgree
  BY DEF IInv, LeaderInv, FollowerInv, SecretsAgree
<1> QED
  BY Invariance, <1>1, PTL

\* Whatever the follower has disclosed is taken off the key by both sides.
THEOREM Leakage == Spec => []LeakageCovered
<1>1. IInv => LeakageCovered
  BY DEF IInv, TypeOK, FollowerInv, LeakageCovered
<1> QED
  BY Invariance, <1>1, PTL

\* Only a lost stream leaves the follower alone with a secret key.
THEOREM LossSplits == Spec => []OnlyLossSplits
<1>1. IInv => OnlyLossSplits
  BY DEF IInv, TypeOK, LeaderInv, FollowerInv, OnlyLossSplits
<1> QED
  BY Invariance, <1>1, PTL

-----------------------------------------------------------------------------
(* The session implements the agreement.                                   *)

\* What the leader's steps may do to the agreement.
LEMMA LeaderAgrees ==
  ASSUME IInv, IInv', LeaderNext
  PROVE  [Agreement!Next]_(Agreement!vars)
<1> DEFINE Asked == stage \in {"amplify", "confirmed"}
<1>1. fout' = fout
  BY DEF LeaderNext, LeaderRegister, LeaderReply, LeaderLost, DrawSample,
     Abort, SetupPanics, CascadeAsks, CascadeEnds, LeaderUpdate,
     LeaderHashes, LeaderPersists, followerVars
<1>2. lout # "running" => lout' = lout /\ stage' = stage
  <2>1. lout # "running" => lpc \in {"persist", "done"}
    BY DEF IInv, TypeOK, LeaderInv, LeaderPcs
  <2> QED
    BY <2>1 DEF LeaderNext, LeaderRegister, LeaderReply, LeaderLost,
       DrawSample, Abort, SetupPanics, CascadeAsks, CascadeEnds,
       LeaderUpdate, LeaderHashes, LeaderPersists
<1>3. Asked => Asked'
  BY DEF LeaderNext, LeaderRegister, LeaderReply, LeaderLost, DrawSample,
     Abort, SetupPanics, CascadeAsks, CascadeRuns, CascadeEnds, LeaderUpdate,
     EstimateUpdate, CascadeUpdate, AmplificationUpdate, LeaderHashes,
     LeaderPersists
<1>4. lout' = "secret" => Asked' /\ Asked
  <2>1. lout' = "secret" => lout = "secret" \/ LeaderHashes
    BY DEF LeaderNext, LeaderRegister, LeaderReply, LeaderLost, DrawSample,
       Abort, SetupPanics, CascadeAsks, CascadeEnds, LeaderUpdate,
       EstimateUpdate, CascadeUpdate, AmplificationUpdate, LeaderPersists,
       LeaderReturns, Request
  <2> QED
    BY <1>3, <2>1 DEF IInv, LeaderInv, LeaderHashes
<1>5. lout' = "secret" => fout = "secret"
  BY <1>1 DEF IInv, LeaderInv, FollowerInv
<1>6. CASE lout # "running"
  BY <1>1, <1>2, <1>6 DEF Settled, Agreement!vars
<1>7. CASE lout = "running"
  <2>1. Asked' = Asked \/ Asked' = TRUE
    BY <1>3
  <2>2. CASE lout' = "secret"
    BY <1>1, <1>4, <1>5, <1>7, <2>1, <2>2
    DEF Settled, Agreement!Next, Agreement!LeaderCommits
  <2>3. CASE lout' = "running"
    BY <1>1, <1>7, <2>1, <2>3
    DEF Settled, Agreement!vars, Agreement!Next, Agreement!Ask
  <2>4. CASE lout' \notin {"running", "secret"}
    BY <1>1, <1>7, <2>1, <2>4
    DEF Settled, Agreement!Next, Agreement!LeaderGivesUp
  <2> QED
    BY <2>2, <2>3, <2>4
<1> QED
  BY <1>6, <1>7

\* What the follower's steps may do to the agreement.
LEMMA FollowerAgrees ==
  ASSUME IInv, IInv', FollowerNext
  PROVE  [Agreement!Next]_(Agreement!vars)
<1>1. lout' = lout /\ stage' = stage
  BY DEF FollowerNext, FollowerAccepts, FollowerStopsListening,
     FollowerTimeout, FollowerFindsKey, FollowerLost,
     FollowerOverflows, FollowerServes,
     FollowerAmplifies, FollowerPersists, leaderVars
<1>2. fout # "running" => fout' = fout
  <2>1. fout # "running" => fpc \in {"persist", "done"}
    BY DEF IInv, TypeOK, FollowerInv, FollowerPcs
  <2> QED
    BY <2>1 DEF FollowerNext, FollowerAccepts, FollowerStopsListening,
       FollowerTimeout, FollowerFindsKey, FollowerLost,
       FollowerOverflows, FollowerServes,
       FollowerAmplifies, FollowerPersists
<1>3. fout' = "secret" => stage \in {"amplify", "confirmed"}
  BY <1>1 DEF IInv, FollowerInv
<1>4. CASE fout # "running"
  BY <1>1, <1>2, <1>4 DEF Settled, Agreement!vars
<1>5. CASE fout = "running"
  BY <1>1, <1>3, <1>5 DEF Settled, Agreement!vars, Agreement!Next,
     Agreement!FollowerCommits, Agreement!FollowerGivesUp
<1> QED
  BY <1>4, <1>5

\* Every behaviour of the session is one the agreement allows: a follower
\* hashes only a key it was asked to, a leader only once the follower has.
THEOREM Refinement == Spec => Agreement!SafeSpec
<1>1. Init => Agreement!Init
  BY DEF Init, Agreement!Init, Settled
<1>2. IInv /\ IInv' /\ [Next]_vars => [Agreement!Next]_(Agreement!vars)
  <2> SUFFICES ASSUME IInv, IInv', [Next]_vars
               PROVE  [Agreement!Next]_(Agreement!vars)
    OBVIOUS
  <2>1. CASE LeaderNext
    BY <2>1, LeaderAgrees
  <2>2. CASE FollowerNext
    BY <2>2, FollowerAgrees
  <2>3. CASE KeyArrives \/ ConnectionLost \/ UNCHANGED vars
    BY <2>3 DEF KeyArrives, ConnectionLost, vars, leaderVars, followerVars,
       Settled, Agreement!vars
  <2> QED
    BY <2>1, <2>2, <2>3 DEF Next
<1> QED
  BY Invariance, <1>1, <1>2, PTL DEF Spec, SafeSpec, Agreement!SafeSpec

-----------------------------------------------------------------------------
(* The session ends.  SessionEnds is a liveness property and stays with    *)
(* TLC; what it rests on is proved here: every step lowers a rank, one of  *)
(* the two tasks can always step, and neither takes that from the other.   *)

\* What a session that goes on may assume of the turn the two tasks take.
TurnInv ==
  /\ rounds <= MaxRounds
  /\ stage \in {"draw", "drawn"} => diff <= llen
  /\ conn /\ fpc = "listen" => lpc = "connect" \/ (lpc = "reply" /\ l2f # <<>>)
  /\ conn /\ fpc = "serve" /\ lpc \in {"reply", "response"} =>
       l2f # <<>> \/ f2l # <<>>

\* The messages the leader may still write or read before process_key returns.
RoundsLeft == 2 * (MaxRounds - rounds)
LeaderSteps ==
  CASE lpc = "done" -> 0
    [] lpc = "persist" -> 1
    [] lpc = "step" /\ stage = "confirmed" -> 2
    [] lpc = "response" /\ stage = "amplify" -> 3
    [] lpc = "step" /\ stage \in {"estimated", "cascade"} -> 4 + RoundsLeft
    [] lpc = "response" /\ stage \in {"drawn", "cascade"} -> 5 + RoundsLeft
    [] lpc = "step" /\ stage = "draw" -> 6 + RoundsLeft
    [] lpc = "reply" -> 7 + RoundsLeft
    [] lpc = "connect" -> 8 + RoundsLeft

FollowerSteps ==
  CASE fpc = "listen" -> 4
    [] fpc = "wait" -> 3
    [] fpc = "serve" -> 2
    [] fpc = "persist" -> 1
    [] fpc = "done" -> 0

\* A step of the leader counts twice, for the follower reads what it wrote.
StepsLeft ==
  2 * LeaderSteps + FollowerSteps + Len(l2f)
    + (IF arrived THEN 0 ELSE 1) + (IF conn THEN 1 ELSE 0)

\* The leader has something to do, or has just learned that it never will.
LeaderReady ==
  \/ lpc \in {"connect", "persist"}
  \/ lpc \in {"reply", "response"} /\ LeaderReadFails
  \/ lpc = "reply" /\ f2l # <<>>
  \/ /\ lpc = "response" /\ f2l # <<>>
     /\ \/ stage \in {"cascade", "amplify"}
        \/ stage = "drawn" /\ SampledErrors # {}
  \/ /\ lpc = "step"
     /\ \/ stage \in {"draw", "confirmed"}
        \/ stage = "estimated" /\ (errs = 0 \/ AboveLimit(errs, pending))
        \/ CascadeRuns /\ (rounds > 0 \/ llen = 0)
        \/ CascadeRuns /\ rounds < MaxRounds /\ 1..MaxParities # {}

FollowerReady ==
  \/ fpc \in {"wait", "persist"}
  \/ fpc = "listen" /\ (l2f # <<>> \/ ~conn)
  \/ fpc = "serve" /\ FollowerReadFails
  \/ /\ fpc = "serve" /\ l2f # <<>>
     /\ Head(l2f).type \in {"reveal", "syndrome", "amplify"}

\* Every sample the follower may be asked to reveal has an outcome: the
\* update of the estimation never waits for a count that cannot be.
LEMMA SampleHasOutcome ==
  ASSUME llen \in Nat, diff \in Nat, pending \in Nat, diff <= llen,
         pending <= llen
  PROVE  SampledErrors # {}
<1>1. CASE diff <= pending
  BY <1>1 DEF SampledErrors
<1>2. CASE pending < diff
  <2>1. pending \in SampledErrors
    BY <1>2 DEF SampledErrors
  <2> QED
    BY <2>1
<1> QED
  BY <1>1, <1>2

\* A channel a message was appended to is not empty.
LEMMA AppendNotEmpty ==
  ASSUME NEW S, NEW q \in Seq(S), NEW msg \in S
  PROVE  Append(q, msg) # <<>> /\ Len(Append(q, msg)) = Len(q) + 1
<1>1. Len(Append(q, msg)) = Len(q) + 1 /\ Len(q) \in Nat
  OBVIOUS
<1>2. Append(q, msg) # <<>>
  BY <1>1, Len(<<>>) = 0
<1> QED
  BY <1>1, <1>2

\* The leader's steps keep the turns.
LEMMA LeaderKeepsTurn ==
  ASSUME IInv, IInv', TurnInv, LeaderNext
  PROVE  TurnInv'
<1> USE DEF TurnInv
<1>1. fpc' = fpc /\ conn' = conn
  BY DEF LeaderNext, LeaderRegister, LeaderReply, LeaderLost, DrawSample,
     Abort, SetupPanics, CascadeAsks, CascadeEnds, LeaderUpdate,
     LeaderHashes, LeaderPersists, followerVars
<1>2. rounds' <= MaxRounds
  <2>1. CASE CascadeAsks
    <3>1. rounds \in Nat
      BY DEF IInv, TypeOK
    <3> QED
      BY <2>1, <3>1, BoundsAssumption DEF CascadeAsks
  <2>2. CASE ~CascadeAsks
    BY <2>2
    DEF LeaderNext, LeaderRegister, LeaderReply, LeaderLost, DrawSample,
       Abort, SetupPanics, CascadeEnds, LeaderUpdate, LeaderHashes,
       LeaderPersists
  <2> QED
    BY <2>1, <2>2
<1>3. stage' \in {"draw", "drawn"} => diff' <= llen'
  BY DEF LeaderNext, LeaderRegister, LeaderReply, LeaderLost, DrawSample,
     Abort, SetupPanics, CascadeAsks, CascadeEnds, LeaderUpdate,
     EstimateUpdate, CascadeUpdate, AmplificationUpdate,
     LeaderHashes, LeaderPersists
<1>4. \A msg \in Requests : fpc # "done" => ToFollower(msg) # <<>>
  BY AppendNotEmpty DEF ToFollower, IInv, TypeOK
<1>5. ASSUME conn', fpc' = "listen"
      PROVE  lpc' = "connect" \/ (lpc' = "reply" /\ l2f' # <<>>)
  <2>1. f2l = <<>> /\ lpc \in {"connect", "reply"} /\ conn
    BY <1>1, <1>5 DEF IInv, FollowerInv
  <2>2. LeaderRegister
    BY <1>1, <1>5, <2>1
    DEF LeaderNext, LeaderReply, LeaderLost, LeaderReadFails, DrawSample,
       Abort, SetupPanics, CascadeAsks, CascadeEnds, LeaderUpdate,
       LeaderHashes, LeaderPersists
  <2>3. Message("register", llen, 0) \in Requests
    BY RequestType DEF IInv, TypeOK
  <2> QED
    BY <1>1, <1>4, <1>5, <2>1, <2>2, <2>3 DEF LeaderRegister
<1>6. ASSUME conn', fpc' = "serve", lpc' \in {"reply", "response"}
      PROVE  l2f' # <<>> \/ f2l' # <<>>
  <2>1. lpc # "connect"
    BY <1>1, <1>6 DEF IInv, FollowerInv
  <2>2. DrawSample \/ CascadeAsks \/ CascadeEnds
    BY <1>6, <2>1
    DEF LeaderNext, LeaderRegister, LeaderReply, LeaderLost, LeaderReturns,
       Abort, SetupPanics, LeaderUpdate, EstimateUpdate, CascadeUpdate,
       AmplificationUpdate, LeaderHashes, LeaderPersists
  <2>3. \E msg \in Requests : l2f' = ToFollower(msg)
    <3> USE <1>6, RequestType DEF IInv, TypeOK, Request, LeaderReturns
    <3>1. CASE DrawSample
      BY <3>1, SampleSizeRange DEF DrawSample
    <3>2. CASE CascadeAsks
      BY <3>2 DEF CascadeAsks
    <3>3. CASE CascadeEnds
      <4>1. lleak <= llen
        BY <3>3 DEF CascadeEnds, HashUnderflows
      <4> QED
        BY <3>3, <4>1 DEF CascadeEnds
    <3> QED
      BY <2>2, <3>1, <3>2, <3>3
  <2> QED
    BY <1>1, <1>4, <1>6, <2>3
<1> QED
  BY <1>2, <1>3, <1>5, <1>6

\* The follower's steps keep the turns: a request is always answered.
LEMMA FollowerKeepsTurn ==
  ASSUME IInv, IInv', TurnInv, FollowerNext
  PROVE  TurnInv'
<1>1. UNCHANGED <<lpc, stage, llen, rounds, diff, conn>>
  BY DEF FollowerNext, FollowerAccepts, FollowerStopsListening,
     FollowerTimeout, FollowerFindsKey, FollowerLost, FollowerOverflows,
     FollowerServes, FollowerAmplifies, FollowerPersists, leaderVars
<1>2. fpc' # "listen"
  BY DEF FollowerNext, FollowerAccepts, FollowerStopsListening,
     FollowerTimeout, FollowerFindsKey, FollowerLost, FollowerOverflows,
     FollowerServes, FollowerAmplifies, FollowerPersists, FollowerReturns,
     FollowerReveals, FollowerSyndrome, FollowerPanics, Respond
<1>3. \A msg \in Answers : lpc # "done" => ToLeader(msg) # <<>>
  BY AppendNotEmpty DEF ToLeader, IInv, TypeOK
<1>4. ASSUME conn', fpc' = "serve", lpc' \in {"reply", "response"}
      PROVE  f2l' # <<>>
  <2>1. FollowerFindsKey \/ FollowerServes
    BY <1>4 DEF FollowerNext, FollowerAccepts, FollowerStopsListening,
       FollowerTimeout, FollowerLost, FollowerOverflows, FollowerAmplifies,
       FollowerPersists, FollowerReturns
  <2>2. CASE FollowerFindsKey
    <3>1. Message("found", 0, 0) \in Answers
      BY AnswerType
    <3> QED
      BY <1>1, <1>3, <1>4, <2>2, <3>1
      DEF FollowerFindsKey, FollowerReturns, Answer
  <2>3. CASE FollowerServes
    <3>1. Head(l2f) \in Requests
      BY <2>3, RequestRead DEF FollowerServes
    <3>2. Head(l2f).n \in Nat
      BY <3>1 DEF Requests
    <3>3. \E msg \in Answers : f2l' = ToLeader(msg)
      BY <1>4, <2>3, <3>2, AnswerType
      DEF FollowerServes, FollowerReveals, FollowerSyndrome, FollowerPanics,
         FollowerReturns, Respond
    <3> QED
      BY <1>1, <1>3, <1>4, <3>3
  <2> QED
    BY <2>1, <2>2, <2>3
<1> QED
  BY <1>1, <1>2, <1>4 DEF TurnInv

\* The turns are kept by every step.
LEMMA TurnInductive == IInv /\ IInv' /\ TurnInv /\ [Next]_vars => TurnInv'
<1> SUFFICES ASSUME IInv, IInv', TurnInv, [Next]_vars
             PROVE  TurnInv'
  OBVIOUS
<1>1. CASE KeyArrives \/ ConnectionLost \/ UNCHANGED vars
  BY <1>1 DEF KeyArrives, ConnectionLost, vars, leaderVars, followerVars,
     TurnInv
<1> QED
  BY <1>1, LeaderKeepsTurn, FollowerKeepsTurn DEF Next

\* The two tasks take turns in every behaviour, and no session makes more
\* requests than its bound.
LEMMA TurnInvariance == Spec => [](IInv /\ TurnInv)
<1>1. Init => TurnInv
  BY BoundsAssumption DEF Init, TurnInv
<1> QED
  BY Invariance, <1>1, TurnInductive, PTL DEF Spec, SafeSpec

\* Every step of the leader lowers what process_key has left to do.
LEMMA LeaderLowers ==
  ASSUME IInv, IInv', TurnInv, TurnInv', LeaderNext
  PROVE  /\ LeaderSteps' < LeaderSteps
         /\ UNCHANGED <<fpc, arrived, conn>>
         /\ Len(l2f') <= Len(l2f) + 1
<1>1. UNCHANGED <<fpc, arrived, conn>>
  BY DEF LeaderNext, LeaderRegister, LeaderReply, LeaderLost, DrawSample,
     Abort, SetupPanics, CascadeAsks, CascadeEnds, LeaderUpdate,
     LeaderHashes, LeaderPersists, followerVars
<1>2. \A msg \in Requests : Len(ToFollower(msg)) <= Len(l2f) + 1
  <2> SUFFICES ASSUME NEW msg \in Requests
               PROVE  Len(ToFollower(msg)) <= Len(l2f) + 1
    OBVIOUS
  <2>1. l2f \in Seq(Requests) /\ Len(l2f) \in Nat
    BY DEF IInv, TypeOK
  <2>2. Len(Append(l2f, msg)) = Len(l2f) + 1
    BY <2>1, AppendNotEmpty
  <2> QED
    BY <2>1, <2>2 DEF ToFollower
<1>3. rounds \in 0..MaxRounds /\ MaxRounds \in Nat
  BY BoundsAssumption DEF IInv, TypeOK, TurnInv
<1>4. rounds' \in 0..MaxRounds /\ rounds' >= rounds
  BY <1>3, BoundsAssumption DEF IInv, TypeOK, TurnInv,
     LeaderNext, LeaderRegister, LeaderReply, LeaderLost, DrawSample,
     Abort, SetupPanics, CascadeAsks, CascadeEnds, LeaderUpdate,
     LeaderHashes, LeaderPersists
<1> USE <1>3, <1>4 DEF RoundsLeft
<1>5. LeaderSteps' < LeaderSteps
  <2>1. CASE LeaderRegister
    BY <2>1 DEF LeaderRegister, LeaderReturns, LeaderSteps
  <2>2. CASE LeaderReply
    <3>1. stage = "draw"
      BY <2>2 DEF LeaderReply, IInv, LeaderInv
    <3> QED
      BY <2>2, <3>1 DEF LeaderReply, LeaderReturns, LeaderSteps
  <2>3. CASE lpc \in {"reply", "step", "response"} /\ lpc' = "done"
    BY <2>3 DEF LeaderSteps, IInv, LeaderInv
  <2>4. CASE DrawSample /\ lpc' # "done"
    BY <2>4 DEF DrawSample, Request, LeaderReturns, LeaderSteps
  <2>5. CASE CascadeAsks /\ lpc' # "done"
    <3>1. rounds' = rounds + 1 /\ lpc' = "response" /\ stage' = "cascade"
      BY <2>5 DEF CascadeAsks, Request, LeaderReturns
    <3>2. lpc = "step" /\ stage \in {"estimated", "cascade"}
      BY <2>5 DEF CascadeAsks, CascadeRuns
    <3> QED
      BY <3>1, <3>2 DEF LeaderSteps
  <2>6. CASE CascadeEnds /\ lpc' # "done"
    <3>1. lpc' = "response" /\ stage' = "amplify"
      BY <2>6 DEF CascadeEnds, Request, LeaderReturns
    <3>2. lpc = "step" /\ stage \in {"estimated", "cascade"}
      BY <2>6 DEF CascadeEnds, CascadeRuns
    <3> QED
      BY <3>1, <3>2 DEF LeaderSteps
  <2>7. CASE LeaderUpdate /\ lpc' # "done"
    <3>1. rounds' = rounds /\ lpc = "response" /\ lpc' = "step"
      BY <2>7 DEF LeaderUpdate, EstimateUpdate, CascadeUpdate,
         AmplificationUpdate, LeaderReturns
    <3>2. \/ stage = "drawn" /\ stage' = "estimated"
          \/ stage = "cascade" /\ stage' = "cascade"
          \/ stage = "amplify" /\ stage' = "confirmed"
      BY <2>7 DEF LeaderUpdate, EstimateUpdate, CascadeUpdate,
         AmplificationUpdate, LeaderReturns
    <3> QED
      BY <3>1, <3>2 DEF LeaderSteps
  <2>8. CASE LeaderHashes \/ LeaderPersists
    BY <2>8 DEF LeaderHashes, LeaderPersists, LeaderSteps
  <2> QED
    BY <2>1, <2>2, <2>3, <2>4, <2>5, <2>6, <2>7, <2>8
    DEF LeaderNext, LeaderLost, LeaderReturns, Abort, SetupPanics,
       DrawSample, CascadeAsks, CascadeEnds, LeaderUpdate
<1>6. Len(l2f') <= Len(l2f) + 1
  <2>1. l2f' = l2f \/ \E msg \in Requests : l2f' = ToFollower(msg)
    <3> USE RequestType DEF IInv, TypeOK, Request, LeaderReturns
    <3>1. CASE LeaderRegister
      BY <3>1 DEF LeaderRegister
    <3>2. CASE DrawSample
      BY <3>2, SampleSizeRange DEF DrawSample
    <3>3. CASE CascadeAsks
      BY <3>3 DEF CascadeAsks
    <3>4. CASE CascadeEnds
      <4>1. CASE HashUnderflows
        BY <3>4, <4>1 DEF CascadeEnds
      <4>2. CASE ~HashUnderflows
        <5>1. lleak <= llen
          BY <4>2 DEF HashUnderflows
        <5> QED
          BY <3>4, <4>2, <5>1 DEF CascadeEnds
      <4> QED
        BY <4>1, <4>2
    <3> QED
      BY <3>1, <3>2, <3>3, <3>4
      DEF LeaderNext, LeaderReply, LeaderLost, Abort, SetupPanics,
         LeaderUpdate, LeaderHashes, LeaderPersists
  <2>2. Len(l2f) \in Nat
    BY DEF IInv, TypeOK
  <2>3. CASE l2f' = l2f
    BY <2>2, <2>3
  <2>4. CASE \E msg \in Requests : l2f' = ToFollower(msg)
    BY <1>2, <2>4
  <2> QED
    BY <2>1, <2>3, <2>4
<1> QED
  BY <1>1, <1>5, <1>6

\* Every step of the follower lowers what its task has left to do, or reads
\* one of the requests it has been sent.
LEMMA FollowerLowers ==
  ASSUME IInv, IInv', FollowerNext
  PROVE  /\ FollowerSteps + Len(l2f) \in Nat
         /\ FollowerSteps' + Len(l2f') < FollowerSteps + Len(l2f)
         /\ UNCHANGED <<leaderVars, arrived, conn>>
<1>1. UNCHANGED <<leaderVars, arrived, conn>>
  BY DEF FollowerNext, FollowerAccepts, FollowerStopsListening,
     FollowerTimeout, FollowerFindsKey, FollowerLost, FollowerOverflows,
     FollowerServes, FollowerAmplifies, FollowerPersists
<1>2. l2f' = l2f \/ (l2f # <<>> /\ l2f' = Tail(l2f))
  BY DEF FollowerNext, FollowerAccepts, FollowerStopsListening,
     FollowerTimeout, FollowerFindsKey, FollowerLost, FollowerOverflows,
     FollowerServes, FollowerAmplifies, FollowerPersists
<1>3. Len(l2f) \in Nat /\ Len(l2f') \in Nat /\ Len(l2f') <= Len(l2f)
  <2>1. l2f \in Seq(Requests)
    BY DEF IInv, TypeOK
  <2> QED
    BY <1>2, <2>1
<1>4. fpc \in FollowerPcs /\ fpc' \in FollowerPcs
  BY DEF IInv, TypeOK
<1>5. CASE FollowerServes
  <2>1. fpc = "serve" /\ fpc' \in {"serve", "done"}
    BY <1>5 DEF FollowerServes, FollowerReveals, FollowerSyndrome,
       FollowerPanics, FollowerReturns, Respond
  <2>2. Len(l2f') < Len(l2f)
    <3>1. l2f \in Seq(Requests) /\ l2f # <<>> /\ l2f' = Tail(l2f)
      BY <1>5 DEF IInv, TypeOK, FollowerServes
    <3> QED
      BY <3>1
  <2> QED
    BY <1>1, <1>3, <2>1, <2>2 DEF FollowerSteps
<1>6. CASE ~FollowerServes
  <2>1. FollowerSteps' < FollowerSteps /\ FollowerSteps \in Nat
    BY <1>6 DEF FollowerNext, FollowerAccepts, FollowerStopsListening,
       FollowerTimeout, FollowerFindsKey, FollowerLost, FollowerOverflows,
       FollowerAmplifies, FollowerPersists, FollowerReturns, FollowerSteps
  <2>2. FollowerSteps' \in Nat
    BY <1>4 DEF FollowerPcs, FollowerSteps
  <2> QED
    BY <1>1, <1>3, <2>1, <2>2
<1> QED
  BY <1>5, <1>6

\* The two ranks are numbers, whatever the session has come to.
LEMMA RankType ==
  ASSUME IInv, TurnInv
  PROVE  LeaderSteps \in Nat /\ FollowerSteps \in Nat /\ StepsLeft \in Nat
<1>1. RoundsLeft \in Nat
  BY BoundsAssumption DEF IInv, TypeOK, TurnInv, RoundsLeft
<1>2. LeaderSteps \in Nat
  <2>1. /\ lpc \in LeaderPcs
        /\ lpc = "response" => stage \in {"drawn", "cascade", "amplify"}
        /\ lpc = "step" => stage \in {"draw", "estimated", "cascade", "confirmed"}
    BY DEF IInv, TypeOK, LeaderInv
  <2> QED
    BY <1>1, <2>1 DEF LeaderPcs, LeaderSteps
<1>3. FollowerSteps \in Nat
  BY DEF IInv, TypeOK, FollowerPcs, FollowerSteps
<1>4. Len(l2f) \in Nat
  BY DEF IInv, TypeOK
<1> QED
  BY <1>2, <1>3, <1>4 DEF StepsLeft

LEMMA RankTypeNext == (IInv /\ TurnInv)' => (LeaderSteps \in Nat)'
<1>1. IInv /\ TurnInv => LeaderSteps \in Nat
  BY RankType
<1> QED
  BY <1>1, PTL

\* Every step of a session lowers the number of steps it has left.
LEMMA EveryStepCounts ==
  ASSUME IInv, IInv', TurnInv, TurnInv', Next
  PROVE  StepsLeft' < StepsLeft
<1>1. /\ LeaderSteps \in Nat /\ FollowerSteps \in Nat /\ Len(l2f) \in Nat
      /\ LeaderSteps' \in Nat
  <2>1. Len(l2f) \in Nat
    BY DEF IInv, TypeOK
  <2>2. LeaderSteps \in Nat /\ FollowerSteps \in Nat
    BY RankType
  <2>3. LeaderSteps' \in Nat
    BY RankTypeNext
  <2> QED
    BY <2>1, <2>2, <2>3
<1>2. Len(l2f') \in Nat
  BY DEF IInv, TypeOK
<1>3. CASE LeaderNext
  <2>1. /\ LeaderSteps' < LeaderSteps
        /\ Len(l2f') <= Len(l2f) + 1
        /\ UNCHANGED <<fpc, arrived, conn>>
    BY <1>3, LeaderLowers
  <2>2. FollowerSteps' = FollowerSteps
    BY <2>1 DEF FollowerSteps
  <2> QED
    BY <1>1, <1>2, <2>1, <2>2 DEF StepsLeft
<1>4. CASE FollowerNext
  <2>1. /\ FollowerSteps' + Len(l2f') < FollowerSteps + Len(l2f)
        /\ UNCHANGED <<leaderVars, arrived, conn>>
    BY <1>4, FollowerLowers
  <2>2. LeaderSteps' = LeaderSteps
    BY <2>1 DEF leaderVars, LeaderSteps, RoundsLeft
  <2>3. FollowerSteps' \in Nat
    BY DEF IInv, TypeOK, FollowerPcs, FollowerSteps
  <2> QED
    BY <1>1, <1>2, <2>1, <2>2, <2>3 DEF StepsLeft
<1>5. CASE KeyArrives
  <2>1. LeaderSteps' = LeaderSteps /\ FollowerSteps' = FollowerSteps
    BY <1>5 DEF KeyArrives, leaderVars, LeaderSteps, FollowerSteps, RoundsLeft
  <2> QED
    BY <1>1, <1>5, <2>1 DEF KeyArrives, StepsLeft
<1>6. CASE ConnectionLost
  <2>1. LeaderSteps' = LeaderSteps /\ FollowerSteps' = FollowerSteps
    BY <1>6 DEF ConnectionLost, leaderVars, followerVars, LeaderSteps,
       FollowerSteps, RoundsLeft
  <2>2. Len(l2f') <= Len(l2f)
    <3>1. PICK i \in 0..Len(l2f) : l2f' = SubSeq(l2f, 1, i)
      BY <1>6 DEF ConnectionLost
    <3>2. l2f \in Seq(Requests)
      BY DEF IInv, TypeOK
    <3> QED
      BY <3>1, <3>2
  <2> QED
    BY <1>1, <1>2, <1>6, <2>1, <2>2 DEF ConnectionLost, followerVars, StepsLeft
<1> QED
  BY <1>3, <1>4, <1>5, <1>6 DEF Next

\* A session takes a bounded number of steps: a rank that is a number, and
\* starts at 4 * MaxRounds + 22 or below, is lowered by whatever happens in
\* process_key of either node, by the arrival of the key and by the loss of
\* the connection.  Nothing is ever retried and no task can go round in
\* circles.
THEOREM BoundedSession ==
  Spec => /\ [](StepsLeft \in 0..(4 * MaxRounds + 22))
          /\ [][StepsLeft' < StepsLeft]_vars
<1> DEFINE Bounded == StepsLeft \in 0..(4 * MaxRounds + 22)
<1>1. Init => Bounded
  BY BoundsAssumption
  DEF Init, StepsLeft, LeaderSteps, FollowerSteps, RoundsLeft
<1>2. ASSUME IInv /\ TurnInv, (IInv /\ TurnInv)', [Next]_vars
      PROVE  StepsLeft' < StepsLeft \/ UNCHANGED vars
  BY <1>2, EveryStepCounts
<1>3. IInv /\ TurnInv => StepsLeft \in Nat
  BY RankType
<1>4. (IInv /\ TurnInv)' => (StepsLeft \in Nat)'
  BY <1>3, PTL
<1>5. ASSUME Bounded, IInv /\ TurnInv, (IInv /\ TurnInv)', [Next]_vars
      PROVE  Bounded'
  <2>1. CASE UNCHANGED vars
    BY <1>5, <2>1 DEF vars, leaderVars, followerVars, StepsLeft, LeaderSteps,
       FollowerSteps, RoundsLeft
  <2>2. CASE StepsLeft' < StepsLeft
    <3>1. StepsLeft' \in Nat
      BY <1>4, <1>5
    <3> HIDE DEF StepsLeft
    <3> QED
      BY <1>5, <2>2, <3>1, BoundsAssumption
  <2> QED
    BY <1>2, <1>5, <2>1, <2>2
<1> QED
  BY <1>1, <1>2, <1>5, TurnInvariance, PTL DEF Spec, SafeSpec

\* What the leader waits for is always answered by the follower, by the end
\* of the stream or by the loss of the connection.
LEMMA LeaderNeverStuck ==
  ASSUME MaxRounds > 0, MaxParities > 0, IInv, TurnInv, lpc # "done",
         ~FollowerReady
  PROVE  LeaderReady
<1>1. /\ lpc \in LeaderPcs /\ fpc \in FollowerPcs /\ conn \in BOOLEAN
      /\ lpc = "response" => stage \in {"drawn", "cascade", "amplify"}
      /\ lpc = "step" => stage \in {"draw", "estimated", "cascade", "confirmed"}
      /\ rounds \in Nat /\ llen \in Nat
  BY DEF IInv, TypeOK, LeaderInv
<1>2. CASE lpc \in {"connect", "persist"}
  BY <1>2 DEF LeaderReady
<1>3. CASE lpc = "step"
  <2>1. CASE stage \in {"draw", "confirmed"}
    BY <1>3, <2>1 DEF LeaderReady
  <2>2. CASE stage \in {"estimated", "cascade"}
    <3>1. rounds > 0 \/ rounds < MaxRounds
      BY <1>1, BoundsAssumption
    <3>2. 1..MaxParities # {}
      BY BoundsAssumption
    <3> QED
      BY <1>1, <1>3, <2>2, <3>1, <3>2 DEF LeaderReady, CascadeRuns
  <2> QED
    BY <1>1, <1>3, <2>1, <2>2
<1>4. CASE lpc \in {"reply", "response"}
  <2>1. CASE f2l # <<>>
    <3>1. CASE lpc = "response" /\ stage = "drawn"
      <4>1. pending <= llen /\ diff <= llen
        BY <3>1 DEF IInv, LeaderInv, TurnInv
      <4>2. SampledErrors # {}
        BY <4>1, SampleHasOutcome DEF IInv, TypeOK
      <4> QED
        BY <2>1, <3>1, <4>2 DEF LeaderReady
    <3> QED
      BY <1>1, <1>4, <2>1, <3>1 DEF LeaderReady
  <2>2. CASE f2l = <<>>
    <3>1. CASE ~conn \/ fpc = "done"
      BY <1>4, <2>2, <3>1 DEF LeaderReady, LeaderReadFails
    <3>2. CASE conn /\ fpc \in {"listen", "serve"}
      <4>1. l2f # <<>>
        BY <1>4, <2>2, <3>2 DEF TurnInv
      <4>2. fpc = "serve" => Head(l2f).type \in {"reveal", "syndrome", "amplify"}
        BY <3>2, <4>1, RequestRead, Fields DEF OpenRequest
      <4> QED
        BY <3>2, <4>1, <4>2 DEF FollowerReady
    <3> QED
      BY <1>1, <3>1, <3>2 DEF FollowerReady, FollowerPcs
  <2> QED
    BY <2>1, <2>2
<1> QED
  BY <1>1, <1>2, <1>3, <1>4 DEF LeaderPcs

\* A follower that waits is not left behind by a leader that has returned.
LEMMA FollowerNeverStuck ==
  ASSUME IInv, TurnInv, lpc = "done", fpc # "done"
  PROVE  FollowerReady
<1>1. fpc \in FollowerPcs /\ conn \in BOOLEAN
  BY DEF IInv, TypeOK
<1>2. CASE fpc = "listen"
  BY <1>1, <1>2 DEF TurnInv, FollowerReady
<1>3. CASE fpc = "serve"
  <2>1. CASE l2f = <<>>
    BY <1>3, <2>1 DEF FollowerReady, FollowerReadFails
  <2>2. CASE l2f # <<>>
    BY <1>3, <2>2, RequestRead, Fields DEF OpenRequest, FollowerReady
  <2> QED
    BY <2>1, <2>2
<1> QED
  BY <1>1, <1>2, <1>3 DEF FollowerPcs, FollowerReady

SomebodyReady == LeaderReady \/ FollowerReady \/ (lpc = "done" /\ fpc = "done")

\* The two tasks never wait for each other: until both process_key calls have
\* returned, one of them can take its next step.
THEOREM NoDeadlock ==
  ASSUME MaxRounds > 0, MaxParities > 0
  PROVE  Spec => []SomebodyReady
<1>1. IInv /\ TurnInv => SomebodyReady
  BY LeaderNeverStuck, FollowerNeverStuck DEF SomebodyReady
<1> QED
  BY TurnInvariance, <1>1, PTL

\* A message in the stream is one its reader takes.
LEMMA AnswerReadable ==
  IInv /\ TurnInv /\ lpc \in {"reply", "response"} /\ f2l # <<>> => LeaderReady
<1> SUFFICES ASSUME IInv, TurnInv, lpc \in {"reply", "response"}, f2l # <<>>
             PROVE  LeaderReady
  OBVIOUS
<1>1. lpc = "response" => stage \in {"drawn", "cascade", "amplify"}
  BY DEF IInv, LeaderInv
<1>2. stage = "drawn" => SampledErrors # {}
  <2>1. stage = "drawn" => pending <= llen /\ diff <= llen
    BY DEF IInv, LeaderInv, TurnInv
  <2> QED
    BY <2>1, SampleHasOutcome DEF IInv, TypeOK
<1> QED
  BY <1>1, <1>2 DEF LeaderReady

LEMMA AnswerReadableNext ==
  (IInv /\ TurnInv /\ lpc \in {"reply", "response"} /\ f2l # <<>> => LeaderReady)'
  BY AnswerReadable, PTL

LEMMA RequestReadable ==
  IInv /\ fpc \in {"listen", "serve"} /\ l2f # <<>> => FollowerReady
<1> SUFFICES ASSUME IInv, fpc \in {"listen", "serve"}, l2f # <<>>
             PROVE  FollowerReady
  OBVIOUS
<1>1. fpc = "serve" => Head(l2f).type \in {"reveal", "syndrome", "amplify"}
  BY RequestRead, Fields DEF OpenRequest
<1> QED
  BY <1>1 DEF FollowerReady

LEMMA RequestReadableNext ==
  (IInv /\ fpc \in {"listen", "serve"} /\ l2f # <<>> => FollowerReady)'
  BY RequestReadable, PTL

\* What is not the leader's step leaves the leader ready.
LEMMA LeaderStaysReady ==
  ASSUME IInv, IInv', TurnInv', LeaderReady,
         FollowerNext \/ KeyArrives \/ ConnectionLost
  PROVE  LeaderReady'
<1>1. /\ UNCHANGED leaderVars
      /\ ~conn => ~conn'
      /\ fpc = "done" => fpc' = "done"
  BY DEF FollowerNext, FollowerAccepts, FollowerStopsListening,
     FollowerTimeout, FollowerFindsKey, FollowerLost, FollowerOverflows,
     FollowerServes, FollowerAmplifies, FollowerPersists, KeyArrives,
     ConnectionLost, followerVars
<1>2. CASE lpc \notin {"reply", "response"}
  BY <1>1, <1>2 DEF LeaderReady, leaderVars, CascadeRuns
<1>3. CASE lpc \in {"reply", "response"}
  <2>1. CASE f2l' # <<>>
    BY <1>1, <1>3, <2>1, AnswerReadableNext DEF leaderVars
  <2>2. CASE f2l' = <<>> /\ f2l = <<>>
    <3>1. ~conn \/ fpc = "done"
      BY <1>3, <2>2 DEF LeaderReady, LeaderReadFails
    <3> QED
      BY <1>1, <1>3, <2>2, <3>1 DEF leaderVars, LeaderReady, LeaderReadFails
  <2>3. CASE f2l' = <<>> /\ f2l # <<>>
    <3>1. l2f = <<>> /\ fpc \notin {"listen", "wait"}
      BY <2>3 DEF IInv, ChannelInv, FollowerInv
    <3>2. ConnectionLost
      BY <2>3, <3>1 DEF FollowerNext, FollowerAccepts, FollowerStopsListening,
         FollowerTimeout, FollowerFindsKey, FollowerLost, FollowerOverflows,
         FollowerServes, FollowerAmplifies, FollowerPersists, KeyArrives
    <3> QED
      BY <1>1, <1>3, <2>3, <3>2
      DEF ConnectionLost, leaderVars, LeaderReady, LeaderReadFails
  <2> QED
    BY <2>1, <2>2, <2>3
<1> QED
  BY <1>2, <1>3

\* What is not the follower's step leaves the follower ready.
LEMMA FollowerStaysReady ==
  ASSUME IInv, IInv', FollowerReady,
         LeaderNext \/ KeyArrives \/ ConnectionLost
  PROVE  FollowerReady'
<1>1. /\ fpc' = fpc
      /\ ~conn => ~conn'
      /\ lpc = "done" => lpc' = "done"
  BY DEF LeaderNext, LeaderRegister, LeaderReply, LeaderLost, DrawSample,
     Abort, SetupPanics, CascadeAsks, CascadeEnds, LeaderUpdate,
     LeaderHashes, LeaderPersists, followerVars, leaderVars, KeyArrives,
     ConnectionLost
<1>2. CASE fpc \in {"wait", "persist"}
  BY <1>1, <1>2 DEF FollowerReady
<1>3. CASE fpc \in {"listen", "serve"}
  <2>1. CASE l2f' # <<>>
    BY <1>1, <1>3, <2>1, RequestReadableNext
  <2>2. CASE l2f' = <<>> /\ l2f = <<>>
    BY <1>1, <1>3, <2>2 DEF FollowerReady, FollowerReadFails
  <2>3. CASE l2f' = <<>> /\ l2f # <<>>
    <3>1. lpc \in {"reply", "response", "done"} /\ f2l = <<>>
      BY <2>3 DEF IInv, ChannelInv
    <3>2. ConnectionLost
      BY <2>3, <3>1 DEF LeaderNext, LeaderRegister, LeaderReply, LeaderLost,
         DrawSample, Abort, SetupPanics, CascadeAsks, CascadeEnds,
         LeaderUpdate, LeaderHashes, LeaderPersists, KeyArrives
    <3> QED
      BY <1>1, <1>3, <2>3, <3>2
      DEF ConnectionLost, FollowerReady, FollowerReadFails
  <2> QED
    BY <2>1, <2>2, <2>3
<1> QED
  BY <1>2, <1>3 DEF FollowerReady

\* A step of one task, the arrival of the key or the loss of the connection
\* never takes from the other task the step it could take: what it was waiting
\* for stays in the stream, or the stream has ended.  With BoundedSession and
\* NoDeadlock, fairness of each task is all that SessionEnds still needs.
THEOREM ReadyStays ==
  Spec => [][/\ LeaderReady => LeaderReady' \/ LeaderNext
             /\ FollowerReady => FollowerReady' \/ FollowerNext]_vars
<1>1. ASSUME UNCHANGED vars
      PROVE  LeaderReady' = LeaderReady /\ FollowerReady' = FollowerReady
  BY <1>1 DEF vars, leaderVars, followerVars, LeaderReady, FollowerReady,
     LeaderReadFails, FollowerReadFails, SampledErrors, CascadeRuns
<1>2. ASSUME IInv /\ TurnInv, (IInv /\ TurnInv)', [Next]_vars
      PROVE  /\ LeaderReady => LeaderReady' \/ LeaderNext
             /\ FollowerReady => FollowerReady' \/ FollowerNext
  BY <1>1, <1>2, LeaderStaysReady, FollowerStaysReady DEF Next
<1> QED
  BY TurnInvariance, <1>2, PTL DEF Spec, SafeSpec

=============================================================================

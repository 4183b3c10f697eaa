---------------------------- MODULE KeyAgreement ----------------------------
(***************************************************************************)
(* What one key's post processing promises to the two nodes, whatever the  *)
(* pipeline, the messages and the faults are.  The leader reconciles alone *)
(* and then asks the follower to hash the key; only a follower that was    *)
(* asked turns its key into a secret, and only a leader whose follower     *)
(* already holds the secret takes it.  Either side may give up instead.    *)
(***************************************************************************)
VARIABLES
  leader,     \* "working", "secret" or "none": the leader's share of the key
  follower,   \* the same for the follower
  asked       \* the leader has requested privacy amplification

vars == <<leader, follower, asked>>

TypeOK ==
  /\ leader \in {"working", "secret", "none"}
  /\ follower \in {"working", "secret", "none"}
  /\ asked \in BOOLEAN

Init ==
  /\ leader = "working"
  /\ follower = "working"
  /\ asked = FALSE

\* The leader has reconciled the key and requests privacy amplification.
Ask ==
  /\ leader = "working"
  /\ asked' = TRUE
  /\ UNCHANGED <<leader, follower>>

\* The follower hashes its key: from here on it holds the secret.
FollowerCommits ==
  /\ follower = "working"
  /\ asked
  /\ follower' = "secret"
  /\ UNCHANGED <<leader, asked>>

FollowerGivesUp ==
  /\ follower = "working"
  /\ follower' = "none"
  /\ UNCHANGED <<leader, asked>>

\* The leader hashes its key, once the follower has done so.
LeaderCommits ==
  /\ leader = "working"
  /\ asked
  /\ follower = "secret"
  /\ leader' = "secret"
  /\ UNCHANGED <<follower, asked>>

\* The leader gives up, perhaps while its last request is being written.
LeaderGivesUp ==
  /\ leader = "working"
  /\ leader' = "none"
  /\ asked' \in {asked, TRUE}
  /\ UNCHANGED follower

Next ==
  \/ Ask
  \/ FollowerCommits
  \/ FollowerGivesUp
  \/ LeaderCommits
  \/ LeaderGivesUp

SafeSpec == Init /\ [][Next]_vars

\* Both sides always come to a decision.
Decides == <>(leader # "working" /\ follower # "working")

Spec == SafeSpec /\ Decides
=============================================================================

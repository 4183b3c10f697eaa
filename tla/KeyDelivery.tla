---------------------------- MODULE KeyDelivery ----------------------------
(***************************************************************************)
(* How the two copies of a key meet.  In a session one module leads: its   *)
(* handle_new_key starts a process_key for every key, which opens a stream *)
(* and registers the key.  In the other module handle_new_key pairs keys   *)
(* and registered streams in keys_working, whichever comes first, and a    *)
(* process_key waits up to 30 s for its key.  Sessions come and go.        *)
(***************************************************************************)
EXTENDS QkdManager

VARIABLES
  begun,      \* sessions begun so far
  alive,      \* session -> its connection is up
  leader,     \* session -> the node that leads
  ltask,      \* session -> key -> the leader's process_key
  streams,    \* session -> registered keys the follower has yet to read
  deposited,  \* session -> keys whose sender was taken in keys_working
  ftask       \* session -> key -> the follower's process_key

sessionVars == <<begun, alive, leader>>
followerVars == <<deposited, ftask>>
vars == <<qkdVars, sessionVars, ltask, streams, followerVars>>

Follower(s) == CHOOSE n \in Nodes : n # leader[s]

\* keys_working has an entry whose receiver was taken.
Requested(s, k) == ftask[s][k] # "none"

-----------------------------------------------------------------------------
(* Sessions, as PeerManagement provides them: a module takes part in a new *)
(* one when it has seen the end of the last.                               *)

SessionBegins ==
  /\ begun < MaxSessions
  /\ begun > 0 => ~alive[begun]
  /\ begun' = begun + 1
  /\ alive' = [alive EXCEPT ![begun + 1] = TRUE]
  /\ \E n \in Nodes : leader' = [leader EXCEPT ![begun + 1] = n]
  /\ UNCHANGED <<qkdVars, ltask, streams, followerVars>>

SessionDies(s) ==
  /\ alive[s]
  /\ alive' = [alive EXCEPT ![s] = FALSE]
  /\ UNCHANGED <<qkdVars, begun, leader, ltask, streams, followerVars>>

\* launch_peer_communication asks for the channel and starts its role.  It may
\* do so when the session has ended already, or not at all then.
RoleStarts(n, s) ==
  /\ s <= begun
  /\ channel[n] < s
  /\ Register(n, s)
  /\ UNCHANGED <<sessionVars, ltask, streams, followerVars>>

\* connection.closed() wins the select of handle_new_key: the keys and, in the
\* follower, the streams it has not read are dropped.
RoleEnds(n, s) ==
  /\ reading[n][s] /\ ~alive[s]
  /\ reading' = [reading EXCEPT ![n][s] = FALSE]
  /\ queue' = [queue EXCEPT ![n][s] = <<>>]
  /\ streams' = IF n = leader[s] THEN streams ELSE [streams EXCEPT ![s] = <<>>]
  /\ UNCHANGED <<emulatorVars, wire, managerVars, sessionVars, ltask,
                 followerVars>>

-----------------------------------------------------------------------------
(* The leader.                                                             *)

Takes(n, s) ==
  /\ reading[n][s]
  /\ queue[n][s] # <<>>
  /\ queue' = [queue EXCEPT ![n][s] = Tail(@)]

\* handle_new_key starts a process_key.
LeaderTakes(s) ==
  /\ Takes(leader[s], s)
  /\ ltask' = [ltask EXCEPT ![s][Head(queue[leader[s]][s])] = "started"]
  /\ UNCHANGED <<emulatorVars, wire, managerVars, reading, sessionVars,
                 streams, followerVars>>

\* process_key opens its stream and sends RegisterKey, unless the connection is
\* gone (unwrap).  What it does with the answer is KeySession's.
LeaderRegisters(s, k) ==
  /\ ltask[s][k] = "started"
  /\ ltask' = [ltask EXCEPT ![s][k] = "registered"]
  /\ streams' = IF alive[s] THEN [streams EXCEPT ![s] = Append(@, k)] ELSE streams
  /\ UNCHANGED <<qkdVars, sessionVars, followerVars>>

-----------------------------------------------------------------------------
(* The follower.                                                           *)

\* handle_new_key puts the key into the one-shot channel of its entry.
FollowerTakes(s) ==
  /\ Takes(Follower(s), s)
  /\ deposited' = [deposited EXCEPT ![s] = @ \cup {Head(queue[Follower(s)][s])}]
  /\ UNCHANGED <<emulatorVars, wire, managerVars, reading, sessionVars, ltask,
                 streams, ftask>>

\* The listener has read a RegisterKey; handle_new_key starts a process_key
\* with the receiver of the entry.
FollowerStarts(s) ==
  /\ reading[Follower(s)][s]
  /\ streams[s] # <<>>
  /\ ~Requested(s, Head(streams[s]))
  /\ ftask' = [ftask EXCEPT ![s][Head(streams[s])] = "waiting"]
  /\ streams' = [streams EXCEPT ![s] = Tail(@)]
  /\ UNCHANGED <<qkdVars, sessionVars, ltask, deposited>>

\* Variant: keys_working outlives the session of its role.
FollowerFindsKept(s, k) ==
  /\ ftask[s][k] = "waiting"
  /\ \E t \in Sessions : k \in deposited[t]
  /\ ftask' = [ftask EXCEPT ![s][k] = "found"]
  /\ UNCHANGED <<qkdVars, sessionVars, ltask, streams, deposited>>

\* The key has come through the one-shot channel.
FollowerFinds(s, k) ==
  /\ ftask[s][k] = "waiting"
  /\ k \in deposited[s]
  /\ ftask' = [ftask EXCEPT ![s][k] = "found"]
  /\ UNCHANGED <<qkdVars, sessionVars, ltask, streams, deposited>>

\* The 30 s are over, or the senders went with handle_new_key.
FollowerTimeout(s, k) ==
  /\ ftask[s][k] = "waiting"
  /\ k \notin deposited[s]
  /\ ftask' = [ftask EXCEPT ![s][k] = "notfound"]
  /\ UNCHANGED <<qkdVars, sessionVars, ltask, streams, deposited>>

Init ==
  /\ QkdInit
  /\ begun = 0
  /\ alive = [s \in Sessions |-> FALSE]
  /\ leader \in {[s \in Sessions |-> n] : n \in Nodes}
  /\ ltask = [s \in Sessions |-> [k \in Keys |-> "none"]]
  /\ streams = [s \in Sessions |-> <<>>]
  /\ deposited = [s \in Sessions |-> {}]
  /\ ftask = [s \in Sessions |-> [k \in Keys |-> "none"]]

Others == <<sessionVars, ltask, streams, followerVars>>

Emulator ==
  \/ MakeKey
  \/ \E n \in Nodes : SendKey(n) \/ Reconnect(n)
Handler(n) == \E c \in Links : ReadKey(n, c) \/ HandlerEnds(n, c)
Manager(n) == TakeKey(n) \/ SendResumes(n)

Session(s) ==
  \/ \E n \in Nodes : RoleStarts(n, s) \/ RoleEnds(n, s)
  \/ LeaderTakes(s)
  \/ FollowerTakes(s)
  \/ FollowerStarts(s)

ProcessKey(s, k) ==
  \/ LeaderRegisters(s, k)
  \/ FollowerFinds(s, k)
  \/ FollowerTimeout(s, k)

Next ==
  \/ Emulator /\ UNCHANGED Others
  \/ \E n \in Nodes : (Handler(n) \/ Manager(n) \/ Cut(n)) /\ UNCHANGED Others
  \/ SessionBegins
  \/ \E s \in Sessions : Session(s) \/ SessionDies(s)
  \/ \E s \in Sessions, k \in Keys : ProcessKey(s, k)

\* Ready tasks run and the timers fire; no connection is owed a loss and no
\* module a session.
Fairness ==
  /\ WF_vars(Emulator /\ UNCHANGED Others)
  /\ \A n \in Nodes :
       /\ WF_vars(Handler(n) /\ UNCHANGED Others)
       /\ WF_vars(Manager(n) /\ UNCHANGED Others)
  /\ \A s \in Sessions :
       /\ \A n \in Nodes : /\ WF_vars(alive[s] /\ RoleStarts(n, s))
                         /\ WF_vars(RoleEnds(n, s))
       /\ WF_vars(LeaderTakes(s))
       /\ WF_vars(FollowerTakes(s))
       /\ WF_vars(FollowerStarts(s))
       /\ \A k \in Keys : WF_vars(ProcessKey(s, k))

SafetySpec == Init /\ [][Next]_vars
Spec == SafetySpec /\ Fairness
-----------------------------------------------------------------------------
(* Properties.                                                             *)

\* Every variable has its type, and no channel holds more than its capacity.
TypeOK ==
  /\ made \in 0..MaxKeys
  /\ toSend \in Seq(Nodes)
  /\ link \in [Nodes -> Links] /\ linked \in [Nodes -> BOOLEAN]
  /\ cuts \in 0..MaxCuts
  /\ wire \in [Nodes -> [Links -> Seq(Keys)]]
  /\ inbox \in [Nodes -> Seq(Keys)]
  /\ channel \in [Nodes -> 0..MaxSessions]
  /\ queue \in [Nodes -> [Sessions -> Seq(Keys)]]
  /\ reading \in [Nodes -> [Sessions -> BOOLEAN]]
  /\ holding \in [Nodes -> 0..MaxKeys]
  /\ begun \in 0..MaxSessions
  /\ alive \in [Sessions -> BOOLEAN]
  /\ leader \in [Sessions -> Nodes]
  /\ ltask \in [Sessions -> [Keys -> {"none", "started", "registered"}]]
  /\ streams \in [Sessions -> Seq(Keys)]
  /\ deposited \in [Sessions -> SUBSET Keys]
  /\ ftask \in [Sessions -> [Keys -> {"none", "waiting", "found", "notfound"}]]
  /\ \A n \in Nodes, s \in Sessions : Len(queue[n][s]) <= Capacity

\* The sessions of node n that have taken key k in or are about to.
Holders(n, k) ==
  {s \in Sessions :
     \/ \E i \in DOMAIN queue[n][s] : queue[n][s][i] = k
     \/ n = leader[s] /\ ltask[s][k] # "none"
     \/ n # leader[s] /\ k \in deposited[s]}

\* A module works on a key in one session at most, however sessions and the
\* device's connections come and go: the second use of a key is not secret.
UsedOnce ==
  \A n \in Nodes, k \in Keys : \A s, t \in Holders(n, k) : s = t

\* The todo!() of a key already sent and the dropped stream of a key already
\* processed are not reached: neither a key nor a request comes twice.
NoneTwice ==
  \A s \in Sessions :
    /\ \A i \in DOMAIN queue[Follower(s)][s] :
         queue[Follower(s)][s][i] \notin deposited[s]
    /\ \A i \in DOMAIN streams[s] : ~Requested(s, streams[s][i])
    /\ IsInjective(streams[s])
    /\ \A n \in Nodes : IsInjective(queue[n][s])

\* Node n has taken key k in for session s.
Taken(n, s, k) == IF n = leader[s] THEN ltask[s][k] # "none" ELSE k \in deposited[s]

\* The session that has taken node n's copy of key k in, 0 if none has.
UseOf(n, k) ==
  IF \E s \in Sessions : Taken(n, s, k) THEN CHOOSE s \in Sessions : Taken(n, s, k) ELSE 0

\* The session in which the copies of key k have met.
MetIn(k) ==
  IF \E s \in Sessions : ftask[s][k] = "found"
  THEN CHOOSE s \in Sessions : ftask[s][k] = "found" ELSE 0

Promise == INSTANCE KeyUse WITH
  use <- [n \in Nodes |-> [k \in Keys |-> UseOf(n, k)]],
  met <- [k \in Keys |-> MetIn(k)]

\* A module uses its copy of a key once, in one session, and a process_key of
\* the follower has the key of the one that asks: the copies that meet are
\* used in the session in which they meet, although the two modules change
\* from one session to the next at different times.
ImplementsKeyUse == Promise!Spec

\* A manager that waits for room in a channel does not wait for ever: the
\* channel is read or dropped, also when its session has ended.
ManagerResumes ==
  \A n \in Nodes : (holding[n] # 0) ~> (holding[n] = 0)

InService(s) == alive[s] /\ \A n \in Nodes : linked[n] /\ channel[n] = s

\* A key that is made while both modules are in session s meets its other copy
\* in the follower, unless the session or a connection of the device is lost
\* or the 30 s run out.
KeysMeet ==
  \A s \in Sessions, k \in Keys :
    (made = k /\ Len(toSend) = 2 /\ InService(s))
      ~> (ftask[s][k] \in {"found", "notfound"} \/ ~InService(s))
=============================================================================

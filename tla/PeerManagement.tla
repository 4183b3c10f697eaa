--------------------------- MODULE PeerManagement ---------------------------
(***************************************************************************)
(* How two modules keep one session up: each dials the other while it      *)
(* believes it is disconnected, a manager task per module accepts or       *)
(* rejects what was dialed, the two ends shake hands over who leads, and a *)
(* session that ends is reported back to the manager.                      *)
(*                                                                         *)
(* The status map has an entry per peer and device; entries share nothing  *)
(* but the module they can stop, so each node has one entry here.          *)
(***************************************************************************)
EXTENDS Integers, Sequences, FiniteSets

CONSTANTS
  Nodes,        \* the two modules
  Conns,        \* bound: QUIC connections in existence at a time
  Dialers,      \* nodes whose 15 s timer fires
  Fragile,      \* parts of a connection's life in which it may be lost
  MaxLosses,    \* bound: connections lost
  MaxStops      \* bound: modules stopped from outside, each restarted

ASSUME NodesAssumption ==
  IsFiniteSet(Nodes) /\ Cardinality(Nodes) = 2 /\ Dialers \subseteq Nodes
ASSUME FaultsAssumption ==
  /\ Fragile \subseteq {"dial", "handshake", "session"}
  /\ MaxLosses \in Nat /\ MaxStops \in Nat

VARIABLES
  up,         \* node -> its module runs
  status,     \* node -> "disconnected" or "connected": MutPeerState
  updates,    \* node -> the manager's queue of PeerUpdates
  dialer,     \* connection -> the node that dialed it
  open,       \* connection -> neither end has closed or lost it
  pc,         \* connection -> where its client and its server end are
  inbox,      \* connection -> messages for its client and its server end
  role,       \* connection -> roles of its client and its server end
  losses, stops

connVars == <<dialer, open, pc, inbox, role>>
vars == <<up, status, updates, connVars, losses, stops>>

Sides == {"client", "server"}
OtherSide(e) == IF e = "client" THEN "server" ELSE "client"
Peer(n) == CHOOSE m \in Nodes : m # n
NodeOf(c, e) == IF e = "client" THEN dialer[c] ELSE Peer(dialer[c])

NewConnection(c, e) == [type |-> "new", conn |-> c, side |-> e]
Disconnection(c, e) == [type |-> "gone", conn |-> c, side |-> e]
Report(n, update) == updates' = [updates EXCEPT ![n] = Append(@, update)]

Moves(c, e, phase) == pc' = [pc EXCEPT ![c][e] = phase]

\* A message written to the other end; into a lost connection it is lost.
Writes(c, e, msg) ==
  inbox' = IF open[c]
           THEN [inbox EXCEPT ![c][OtherSide(e)] = Append(@, msg)] ELSE inbox
Reads(c, e) == inbox' = [inbox EXCEPT ![c][e] = Tail(@)]

\* The end is dropped, and with the last handle the connection is closed.
Drops(c, e) ==
  /\ Moves(c, e, "done")
  /\ open' = [open EXCEPT ![c] = FALSE]

\* A subsystem of n returned an error or n was stopped: every task of n ends.
Stopped(n) ==
  /\ up' = [up EXCEPT ![n] = FALSE]
  /\ updates' = [updates EXCEPT ![n] = <<>>]
  /\ pc' = [c \in Conns |-> [e \in Sides |->
              IF NodeOf(c, e) = n /\ pc[c][e] # "free" THEN "done"
              ELSE pc[c][e]]]
  /\ open' = [c \in Conns |->
                open[c] /\ \A e \in Sides : NodeOf(c, e) = n => pc[c][e] = "free"]
  /\ UNCHANGED <<dialer, inbox, role, losses>>

-----------------------------------------------------------------------------
(* Dialing: connect_to_peer and try_connect_to_peer.                       *)

\* The timer fires, whether or not an earlier dial is still under way.
Dial(n, c) ==
  /\ up[n] /\ n \in Dialers
  /\ status[n] = "disconnected"
  /\ \A e \in Sides : pc[c][e] \in {"free", "done"}
  /\ dialer' = [dialer EXCEPT ![c] = n]
  /\ open' = [open EXCEPT ![c] = TRUE]
  /\ pc' = [pc EXCEPT ![c].client = "connecting", ![c].server = "free"]
  /\ inbox' = [inbox EXCEPT ![c] = [e \in Sides |-> <<>>]]
  /\ role' = [role EXCEPT ![c] = [e \in Sides |-> "none"]]
  /\ UNCHANGED <<up, status, updates, losses, stops>>

DialFails(c) ==
  /\ pc[c].client = "connecting"
  /\ ~open[c] \/ ~up[NodeOf(c, "server")]
  /\ Drops(c, "client")
  /\ UNCHANGED <<up, status, updates, dialer, inbox, role, losses, stops>>

\* The listener takes one connection at a time; the client writes its id.
Establish(c) ==
  /\ pc[c].client = "connecting" /\ open[c]
  /\ up[NodeOf(c, "server")]
  /\ \A d \in Conns :
       pc[d].server = "incoming" => NodeOf(d, "server") # NodeOf(c, "server")
  /\ pc' = [pc EXCEPT ![c].client = "status", ![c].server = "incoming"]
  /\ Writes(c, "client", "id")
  /\ UNCHANGED <<up, status, updates, dialer, open, role, losses, stops>>

\* Only an accepted dial is reported; the connection of another is dropped.
ReadStatus(c) ==
  /\ pc[c].client = "status"
  /\ inbox[c].client # <<>>
  /\ Reads(c, "client")
  /\ IF Head(inbox[c].client) = "accepted"
     THEN /\ Moves(c, "client", "queued")
          /\ Report(dialer[c], NewConnection(c, "client"))
          /\ UNCHANGED open
     ELSE Drops(c, "client") /\ UNCHANGED updates
  /\ UNCHANGED <<up, status, dialer, role, losses, stops>>

-----------------------------------------------------------------------------
(* Listening: listen_for_peer_connections and handle_incoming_connection.  *)

ListenerReads(c) ==
  /\ pc[c].server = "incoming"
  /\ inbox[c].server # <<>>
  /\ Reads(c, "server")
  /\ Moves(c, "server", "queued")
  /\ Report(NodeOf(c, "server"), NewConnection(c, "server"))
  /\ UNCHANGED <<up, status, dialer, open, role, losses, stops>>

\* A connection lost before its stream is accepted ends the listener, and so
\* the module; one lost before the id is read is only logged.
ListenerFails(c) ==
  /\ pc[c].server = "incoming"
  /\ ~open[c]
  /\ \/ /\ Drops(c, "server")
        /\ UNCHANGED <<up, updates, dialer, inbox, role, losses>>
     \/ Stopped(NodeOf(c, "server"))
  /\ UNCHANGED <<status, stops>>

-----------------------------------------------------------------------------
(* The manager: peer_management_subsystem and handle_peer_update.          *)

\* Variant: the status is looked at but not changed.
ManagerAcceptsBlindly(n, c, e) ==
  /\ status[n] = "disconnected"
  /\ Moves(c, e, IF e = "server" THEN "handshake" ELSE "launch")
  /\ IF e = "server" THEN Writes(c, e, "accepted") ELSE UNCHANGED inbox
  /\ UNCHANGED <<status, open>>

\* Variant: the answer is written by the listener too.
ManagerAcceptsTwice(n, c, e) ==
  /\ status[n] = "disconnected"
  /\ status' = [status EXCEPT ![n] = "connected"]
  /\ Moves(c, e, IF e = "server" THEN "handshake" ELSE "launch")
  /\ IF e = "server"
     THEN inbox' = [inbox EXCEPT ![c].client = @ \o <<"accepted", "accepted">>]
     ELSE UNCHANGED inbox
  /\ UNCHANGED open

\* state.connect(), then the answer: only a server end is told.
ManagerAccepts(n, c, e) ==
  /\ status[n] = "disconnected"
  /\ status' = [status EXCEPT ![n] = "connected"]
  /\ Moves(c, e, IF e = "server" THEN "handshake" ELSE "launch")
  /\ IF e = "server" THEN Writes(c, e, "accepted") ELSE UNCHANGED inbox
  /\ UNCHANGED open

\* Either end is told, be the other a client that waits for its status or a
\* server that has accepted already.
ManagerRejects(n, c, e) ==
  /\ status[n] = "connected"
  /\ Writes(c, e, "rejected")
  /\ Drops(c, e)
  /\ UNCHANGED status

ManagerHandlesNew(n) ==
  /\ updates[n] # <<>>
  /\ LET u == Head(updates[n]) IN
       /\ u.type = "new"
       /\ \/ ManagerAccepts(n, u.conn, u.side)
          \/ ManagerRejects(n, u.conn, u.side)
  /\ updates' = [updates EXCEPT ![n] = Tail(@)]
  /\ UNCHANGED <<up, dialer, role, losses, stops>>

\* The answer cannot be written: `?` ends the manager, and so the module.
ManagerFails(n) ==
  /\ updates[n] # <<>>
  /\ LET u == Head(updates[n]) IN
       /\ u.type = "new" /\ ~open[u.conn]
       /\ u.side = "server" \/ status[n] = "connected"
  /\ Stopped(n)
  /\ status' = [status EXCEPT ![n] = "connected"]
  /\ UNCHANGED stops

ManagerHandlesGone(n) ==
  /\ updates[n] # <<>>
  /\ Head(updates[n]).type = "gone"
  /\ status' = [status EXCEPT ![n] = "disconnected"]
  /\ updates' = [updates EXCEPT ![n] = Tail(@)]
  /\ UNCHANGED <<up, connVars, losses, stops>>

-----------------------------------------------------------------------------
(* The communication task: launch_peer_communication.                      *)

Opposite(r) == IF r = "leader" THEN "follower" ELSE "leader"

\* Variant: the client waits for the server to speak first.
SendNothing(c) ==
  /\ pc[c].client = "launch"
  /\ Moves(c, "client", "role")
  /\ UNCHANGED <<up, status, updates, dialer, open, inbox, role, losses, stops>>

\* handshake_client
SendAlgos(c) ==
  /\ pc[c].client = "launch"
  /\ Writes(c, "client", "algos")
  /\ Moves(c, "client", "role")
  /\ UNCHANGED <<up, status, updates, dialer, open, role, losses, stops>>

\* Variant: the server announces the role it has chosen for itself.
AnnouncedSame(r) == r
Announced(r) == Opposite(r)

\* handshake_server: the algorithms, or the client's rejection, which is not
\* a list of strings.  Nobody is told that the task has ended.
HandshakeServer(c) ==
  /\ pc[c].server = "handshake"
  /\ inbox[c].server # <<>>
  /\ IF Head(inbox[c].server) = "algos"
     THEN \E r \in {"leader", "follower"} :
            /\ role' = [role EXCEPT ![c].server = r]
            /\ inbox' = [inbox EXCEPT ![c] = [e \in Sides |->
                 CASE e = "server"             -> Tail(@[e])
                   [] e = "client" /\ open[c]  -> Append(@[e], Announced(r))
                   [] e = "client" /\ ~open[c] -> @[e]]]
            /\ Moves(c, "server", "session")
            /\ UNCHANGED open
     ELSE /\ Reads(c, "server")
          /\ Drops(c, "server")
          /\ UNCHANGED role
  /\ UNCHANGED <<up, status, updates, dialer, losses, stops>>

HandshakeClient(c) ==
  /\ pc[c].client = "role"
  /\ inbox[c].client # <<>>
  /\ role' = [role EXCEPT ![c].client = Head(inbox[c].client)]
  /\ Reads(c, "client")
  /\ Moves(c, "client", "session")
  /\ UNCHANGED <<up, status, updates, dialer, open, losses, stops>>

\* Variant: an end that waits may also time out.
EndFailsEarly(c, e) ==
  /\ ~open[c] \/ pc[c][e] = "status"
  /\ pc[c][e] \in {"status", "launch", "role", "handshake"}
  /\ Drops(c, e)
  /\ UNCHANGED <<up, status, updates, dialer, inbox, role, losses, stops>>

\* The connection is lost while an end waits or writes: it returns an error
\* that is dropped with its task.
EndFails(c, e) ==
  /\ ~open[c]
  /\ pc[c][e] \in {"status", "launch", "role", "handshake"}
  /\ Drops(c, e)
  /\ UNCHANGED <<up, status, updates, dialer, inbox, role, losses, stops>>

\* Variant: a session that is idle is taken for closed.
SessionEndsIdle(c, e) ==
  /\ pc[c][e] = "session"
  /\ Drops(c, e)
  /\ Report(NodeOf(c, e), Disconnection(c, e))
  /\ UNCHANGED <<up, status, dialer, inbox, role, losses, stops>>

\* connection.closed(): only a task that got past its handshake reports it.
SessionEnds(c, e) ==
  /\ ~open[c]
  /\ pc[c][e] = "session"
  /\ Moves(c, e, "done")
  /\ Report(NodeOf(c, e), Disconnection(c, e))
  /\ UNCHANGED <<up, status, dialer, open, inbox, role, losses, stops>>

-----------------------------------------------------------------------------
(* Faults.                                                                 *)

Part(c) ==
  IF pc[c].client \in {"connecting", "status"} THEN "dial"
  ELSE IF \A e \in Sides : pc[c][e] = "session" THEN "session"
  ELSE "handshake"

ConnectionLost(c) ==
  /\ open[c] /\ Part(c) \in Fragile
  /\ losses < MaxLosses
  /\ losses' = losses + 1
  /\ open' = [open EXCEPT ![c] = FALSE]
  /\ UNCHANGED <<up, status, updates, dialer, pc, inbox, role, stops>>

Stop(n) ==
  /\ up[n]
  /\ stops < MaxStops
  /\ stops' = stops + 1
  /\ Stopped(n)
  /\ UNCHANGED status

Restart(n) ==
  /\ ~up[n]
  /\ up' = [up EXCEPT ![n] = TRUE]
  /\ status' = [status EXCEPT ![n] = "disconnected"]
  /\ UNCHANGED <<updates, connVars, losses, stops>>

Init ==
  /\ up = [n \in Nodes |-> TRUE]
  /\ status = [n \in Nodes |-> "disconnected"]
  /\ updates = [n \in Nodes |-> <<>>]
  /\ dialer \in {[c \in Conns |-> n] : n \in Nodes}
  /\ open = [c \in Conns |-> FALSE]
  /\ pc = [c \in Conns |-> [e \in Sides |-> "free"]]
  /\ inbox = [c \in Conns |-> [e \in Sides |-> <<>>]]
  /\ role = [c \in Conns |-> [e \in Sides |-> "none"]]
  /\ losses = 0 /\ stops = 0

Manager(n) ==
  \/ ManagerHandlesNew(n)
  \/ ManagerFails(n)
  \/ ManagerHandlesGone(n)

\* The steps of the two ends of one connection.
Connection(c) ==
  \/ DialFails(c)
  \/ Establish(c)
  \/ ReadStatus(c)
  \/ ListenerReads(c)
  \/ ListenerFails(c)
  \/ SendAlgos(c)
  \/ HandshakeServer(c)
  \/ HandshakeClient(c)
  \/ \E e \in Sides : EndFails(c, e) \/ SessionEnds(c, e)

Next ==
  \/ \E n \in Nodes, c \in Conns : Dial(n, c)
  \/ \E c \in Conns : Connection(c) \/ ConnectionLost(c)
  \/ \E n \in Nodes : Manager(n) \/ Stop(n) \/ Restart(n)

\* The timer of a disconnected node fires again and again and every task that
\* is ready runs; no fault is ever owed, and neither is a restart.
Fairness ==
  /\ \A n \in Nodes : WF_vars(\E c \in Conns : Dial(n, c))
  /\ \A n \in Nodes : WF_vars(Manager(n))
  /\ \A c \in Conns : WF_vars(Connection(c))

Spec == Init /\ [][Next]_vars /\ Fairness
-----------------------------------------------------------------------------
(* Properties.                                                             *)

Updates == [type : {"new", "gone"}, conn : Conns, side : Sides]

\* Every variable has its type, and a stopped module has nothing left.
TypeOK ==
  /\ up \in [Nodes -> BOOLEAN]
  /\ status \in [Nodes -> {"disconnected", "connected"}]
  /\ updates \in [Nodes -> Seq(Updates)]
  /\ dialer \in [Conns -> Nodes]
  /\ open \in [Conns -> BOOLEAN]
  /\ pc \in [Conns -> [Sides -> {"free", "connecting", "status", "incoming",
                                 "queued", "launch", "role", "handshake",
                                 "session", "done"}]]
  /\ inbox \in [Conns -> [Sides -> Seq({"id", "accepted", "rejected", "algos",
                                        "leader", "follower"})]]
  /\ role \in [Conns -> [Sides -> {"none", "leader", "follower"}]]
  /\ losses \in 0..MaxLosses /\ stops \in 0..MaxStops
  /\ \A n \in Nodes : ~up[n] => updates[n] = <<>>

\* The ends on node n that have a communication task.
Talking(n) ==
  {x \in Conns \X Sides :
     /\ NodeOf(x[1], x[2]) = n
     /\ pc[x[1]][x[2]] \in {"launch", "role", "handshake", "session"}}

\* Reports of ended sessions that the manager of n has yet to read.
Reported(n) == {i \in DOMAIN updates[n] : updates[n][i].type = "gone"}

\* A node never talks to its peer over two connections at once: whoever talks
\* made the status connected, and the report that makes it disconnected again
\* is about the talk that has ended, never about the one that goes on.
OneCommunication ==
  \A n \in Nodes :
    /\ Cardinality(Talking(n)) + Cardinality(Reported(n)) <= 1
    /\ Talking(n) # {} \/ Reported(n) # {} => status[n] = "connected"

\* When both ends are in session one node leads and the other follows.
RolesOpposite ==
  \A c \in Conns :
    (\A e \in Sides : pc[c][e] = "session") =>
      {role[c].client, role[c].server} = {"leader", "follower"}

InSession(c) == open[c] /\ \A e \in Sides : pc[c][e] = "session"

\* No dial, however late or doubled, takes an established session down: only
\* the loss of its connection and the end of a module do.
OnlyFaultsEndSessions ==
  [][\A c \in Conns : InSession(c) /\ ~InSession(c)' =>
        losses' # losses \/ up' # up]_vars

\* While no connection is lost no module is brought down by the other's dials,
\* though a failed write of the manager or an accept of the listener would.
ModulesStayUp == losses = 0 /\ stops = 0 => \A n \in Nodes : up[n]

\* If one node does the dialing and no connection is lost, the two nodes come
\* to a session and stay in it.
Established == <>[](\E c \in Conns : InSession(c))
=============================================================================

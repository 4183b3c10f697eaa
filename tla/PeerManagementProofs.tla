------------------------ MODULE PeerManagementProofs ------------------------
(***************************************************************************)
(* Proofs about PeerManagement, for every set of connections, whichever    *)
(* nodes dial and whatever is lost or stopped.                             *)
(***************************************************************************)
EXTENDS PeerManagement, FiniteSetTheorems, TLAPS

-----------------------------------------------------------------------------
(* Nodes and queues.                                                       *)

\* There is exactly one other node.
LEMMA PeerIsOther ==
  ASSUME NEW n \in Nodes
  PROVE  Peer(n) \in Nodes /\ Peer(n) # n
<1>1. IsFiniteSet(Nodes \ {n}) /\ Cardinality(Nodes \ {n}) = 1
  BY NodesAssumption, FS_RemoveElement
<1>2. PICK m : Nodes \ {n} = {m}
  BY <1>1, FS_Singleton
<1>3. \E p \in Nodes : p # n
  BY <1>2
<1> QED
  BY <1>3 DEF Peer

LEMMA NodeOfIsNode ==
  ASSUME TypeOK, NEW c \in Conns, NEW e \in Sides
  PROVE  NodeOf(c, e) \in Nodes
BY PeerIsOther DEF TypeOK, NodeOf

LEMMA UpdateFields ==
  ASSUME TypeOK, NEW n \in Nodes, NEW i \in DOMAIN updates[n]
  PROVE  /\ updates[n] \in Seq(Updates) /\ updates[n][i] \in Updates
         /\ updates[n][i].conn \in Conns /\ updates[n][i].side \in Sides
<1>1. updates[n] \in Seq(Updates)
  BY DEF TypeOK
<1>2. updates[n][i] \in Updates
  BY <1>1
<1> QED
  BY <1>1, <1>2 DEF Updates

LEMMA AppendAt ==
  ASSUME NEW S, NEW u \in Seq(S), NEW x \in S
  PROVE  /\ Append(u, x) \in Seq(S)
         /\ DOMAIN Append(u, x) = 1..Len(u) + 1 /\ DOMAIN u = 1..Len(u)
         /\ \A i \in DOMAIN u : Append(u, x)[i] = u[i]
         /\ Append(u, x)[Len(u) + 1] = x
OBVIOUS

LEMMA AppendToEmpty == ASSUME NEW x PROVE Append(<<>>, x) = <<x>>
OBVIOUS

LEMMA TailAt ==
  ASSUME NEW S, NEW u \in Seq(S), u # <<>>
  PROVE  /\ Tail(u) \in Seq(S) /\ Head(u) \in S /\ Head(u) = u[1]
         /\ 1 \in DOMAIN u
         /\ \A i \in DOMAIN Tail(u) : /\ i \in 1..Len(u) - 1 /\ i + 1 \in DOMAIN u
                                      /\ i + 1 # 1 /\ Tail(u)[i] = u[i + 1]
OBVIOUS

-----------------------------------------------------------------------------
(* The inductive invariant.                                                *)

\* A connection waits in one manager's queue, once, and where its node is.
QueueInv ==
  \A n \in Nodes : \A i \in DOMAIN updates[n] :
    updates[n][i].type = "new" =>
      /\ NodeOf(updates[n][i].conn, updates[n][i].side) = n
      /\ pc[updates[n][i].conn][updates[n][i].side] = "queued"
      /\ \A j \in DOMAIN updates[n] :
           /\ updates[n][j].type = "new"
           /\ updates[n][j].conn = updates[n][i].conn
           /\ updates[n][j].side = updates[n][i].side
           => j = i

\* A stopped module has no task.
DownInv ==
  \A c \in Conns, e \in Sides : pc[c][e] \in {"free", "done"} \/ up[NodeOf(c, e)]

Talks(c, e) == pc[c][e] \in {"launch", "role", "handshake", "session"}

\* OneCommunication without counting: a node talks over one connection or has
\* one report of an ended talk, not both, and is connected then.
TalkInv ==
  /\ \A c, d \in Conns, e, f \in Sides :
       Talks(c, e) /\ Talks(d, f) /\ NodeOf(c, e) = NodeOf(d, f) => c = d /\ e = f
  /\ \A c \in Conns, e \in Sides :
       Talks(c, e) =>
         /\ status[NodeOf(c, e)] = "connected"
         /\ \A i \in DOMAIN updates[NodeOf(c, e)] : updates[NodeOf(c, e)][i].type # "gone"
  /\ \A n \in Nodes : \A i \in DOMAIN updates[n] :
       updates[n][i].type = "gone" =>
         /\ status[n] = "connected"
         /\ \A j \in DOMAIN updates[n] : updates[n][j].type = "gone" => j = i

Roles == {"leader", "follower"}
Messages == {"id", "accepted", "rejected", "algos", "leader", "follower"}

\* What the two ends of a connection have sent each other: who reads a role
\* reads the one that is opposite to the server's.
HandshakeOf(c) ==
  /\ pc[c].client \in {"free", "connecting"} => pc[c].server = "free"
  /\ pc[c].server \in {"free", "incoming", "queued"} =>
       /\ inbox[c].client = <<>>
       /\ pc[c].client \in {"free", "connecting", "status", "done"}
  /\ pc[c].client = "status" =>
       /\ inbox[c].client \in {<<>>, <<"accepted">>, <<"rejected">>}
       /\ pc[c].server # "session"
  /\ pc[c].client \in {"queued", "launch"} =>
       inbox[c].client = <<>> /\ pc[c].server # "session"
  /\ pc[c].client = "role" =>
       \/ inbox[c].client = <<>>
       \/ /\ pc[c].server \in {"session", "done"}
          /\ role[c].server \in Roles
          /\ inbox[c].client = <<Opposite(role[c].server)>>
  /\ pc[c].client = "session" =>
       /\ pc[c].server \in {"session", "done"}
       /\ role[c].server \in Roles
       /\ role[c].client = Opposite(role[c].server)
  /\ (\E i \in DOMAIN inbox[c].server : inbox[c].server[i] = "algos") =>
       pc[c].client \in {"role", "session", "done"}

HandshakeInv == \A c \in Conns : HandshakeOf(c)

IInv == TypeOK /\ QueueInv /\ DownInv /\ TalkInv /\ HandshakeInv

LEMMA InitIInv == Init => IInv
<1> SUFFICES ASSUME Init PROVE IInv
  OBVIOUS
<1>1. TypeOK
  BY FaultsAssumption DEF Init, TypeOK
<1>2. QueueInv /\ DownInv /\ TalkInv
  BY DEF Init, QueueInv, DownInv, TalkInv, Talks, Sides
<1>3. HandshakeInv
  BY DEF Init, HandshakeInv, HandshakeOf, Sides
<1> QED
  BY <1>1, <1>2, <1>3 DEF IInv

-----------------------------------------------------------------------------
(* Steps of one end that leave both managers alone.                        *)

\* Only the end e of connection c moves.
OnlyMoves(c, e) ==
  /\ \A d \in Conns, f \in Sides : d # c \/ f # e => pc'[d][f] = pc[d][f]
  /\ dialer' = dialer

LEMMA NodesStay ==
  ASSUME dialer' = dialer, NEW c, NEW e
  PROVE  NodeOf(c, e)' = NodeOf(c, e)
BY DEF NodeOf

\* Queues that no step touches stay right as long as what waits in them does.
LEMMA QueueFrame ==
  ASSUME IInv, updates' = updates,
         \A d \in Conns, f \in Sides :
           pc[d][f] = "queued" => pc'[d][f] = "queued" /\ dialer'[d] = dialer[d]
  PROVE  QueueInv'
<1>1. \A n \in Nodes : \A i \in DOMAIN updates[n] :
        updates[n][i].conn \in Conns /\ updates[n][i].side \in Sides
  BY UpdateFields DEF IInv
<1> QED
  BY <1>1 DEF IInv, QueueInv, NodeOf

\* An end that is not queued and does not begin to talk disturbs no manager.
LEMMA MoveUnseen ==
  ASSUME IInv, TypeOK', NEW c \in Conns, NEW e \in Sides, OnlyMoves(c, e),
         UNCHANGED <<up, status, updates>>,
         pc[c][e] \notin {"queued", "free"},
         pc'[c][e] = "done" \/ pc[c][e] # "done",
         pc'[c][e] \in {"launch", "role", "handshake", "session"} => Talks(c, e)
  PROVE  QueueInv' /\ DownInv' /\ TalkInv'
<1>1. QueueInv'
  BY QueueFrame DEF OnlyMoves
<1>2. DownInv'
  BY NodesStay DEF OnlyMoves, IInv, DownInv
<1>3. TalkInv'
  BY NodesStay DEF OnlyMoves, IInv, TalkInv, Talks
<1> QED
  BY <1>1, <1>2, <1>3

\* The handshakes of the other connections do not change.
OthersKeepHandshake(c) ==
  \A d \in Conns \ {c} : pc'[d] = pc[d] /\ inbox'[d] = inbox[d] /\ role'[d] = role[d]

LEMMA HandshakeFrame ==
  ASSUME HandshakeInv, NEW c \in Conns, OthersKeepHandshake(c), HandshakeOf(c)'
  PROVE  HandshakeInv'
BY DEF HandshakeInv, HandshakeOf, OthersKeepHandshake

LEMMA DialFailsStep == ASSUME IInv, NEW c \in Conns, DialFails(c) PROVE IInv'
<1>1. TypeOK'
  BY DEF IInv, TypeOK, DialFails, Drops, Moves, Sides
<1>2. OnlyMoves(c, "client")
  BY DEF IInv, TypeOK, DialFails, Drops, Moves, OnlyMoves, Sides
<1>3. pc[c].client = "connecting" /\ pc'[c].client = "done"
  BY DEF IInv, TypeOK, DialFails, Drops, Moves, Sides
<1>4. QueueInv' /\ DownInv' /\ TalkInv'
  BY <1>1, <1>2, <1>3, MoveUnseen DEF DialFails, Sides
<1>5. HandshakeInv'
  <2>1. OthersKeepHandshake(c)
    BY DEF IInv, TypeOK, DialFails, Drops, Moves, OthersKeepHandshake
  <2>2. HandshakeOf(c)'
    BY <1>2, <1>3 DEF IInv, HandshakeInv, HandshakeOf, DialFails, OnlyMoves, Sides
  <2> QED
    BY <2>1, <2>2, HandshakeFrame DEF IInv
<1> QED
  BY <1>1, <1>4, <1>5 DEF IInv

LEMMA SendAlgosStep == ASSUME IInv, NEW c \in Conns, SendAlgos(c) PROVE IInv'
<1>1. TypeOK'
  BY DEF IInv, TypeOK, SendAlgos, Writes, OtherSide, Moves, Sides
<1>2. OnlyMoves(c, "client")
  BY DEF IInv, TypeOK, SendAlgos, Moves, OnlyMoves, Sides
<1>3. pc[c].client = "launch" /\ pc'[c].client = "role"
  BY DEF IInv, TypeOK, SendAlgos, Moves, Sides
<1>4. QueueInv' /\ DownInv' /\ TalkInv'
  BY <1>1, <1>2, <1>3, MoveUnseen DEF SendAlgos, Sides, Talks
<1>5. HandshakeInv'
  <2>1. OthersKeepHandshake(c)
    BY DEF IInv, TypeOK, SendAlgos, Writes, Moves, OthersKeepHandshake
  <2>2. inbox'[c].client = inbox[c].client
    BY DEF IInv, TypeOK, SendAlgos, Writes, OtherSide, Sides
  <2>3. HandshakeOf(c)'
    BY <1>2, <1>3, <2>2 DEF IInv, HandshakeInv, HandshakeOf, SendAlgos, OnlyMoves, Sides
  <2> QED
    BY <2>1, <2>3, HandshakeFrame DEF IInv
<1> QED
  BY <1>1, <1>4, <1>5 DEF IInv

LEMMA HandshakeServerStep == ASSUME IInv, NEW c \in Conns, HandshakeServer(c) PROVE IInv'
<1> DEFINE J == inbox[c].server
           I == inbox[c].client
<1>0. /\ J \in Seq(Messages) /\ J # <<>> /\ I \in Seq(Messages)
      /\ pc[c].server = "handshake"
      /\ UNCHANGED <<up, status, updates, dialer, losses, stops>>
  BY DEF IInv, TypeOK, HandshakeServer, Sides, Messages
<1>1. CASE Head(J) = "algos"
  <2>1. PICK r \in Roles :
          /\ role' = [role EXCEPT ![c].server = r]
          /\ inbox' = [inbox EXCEPT ![c] = [e \in Sides |->
                         CASE e = "server"             -> Tail(@[e])
                           [] e = "client" /\ open[c]  -> Append(@[e], Opposite(r))
                           [] e = "client" /\ ~open[c] -> @[e]]]
          /\ pc' = [pc EXCEPT ![c]["server"] = "session"]
          /\ open' = open
    BY <1>1 DEF HandshakeServer, Announced, Moves, Roles
  <2>2. Opposite(r) \in Messages
    BY DEF Opposite, Messages
  <2>3. TypeOK'
    <3>1. inbox \in [Conns -> [Sides -> Seq(Messages)]] /\ open \in [Conns -> BOOLEAN]
      BY DEF IInv, TypeOK, Messages
    <3>2. \A e \in Sides : inbox'[c][e] \in Seq(Messages)
      BY <1>0, <2>1, <2>2, <3>1 DEF Sides
    <3>3. inbox' \in [Conns -> [Sides -> Seq(Messages)]]
      BY <2>1, <3>1, <3>2
    <3>4. role' \in [Conns -> [Sides -> {"none", "leader", "follower"}]]
      BY <2>1 DEF IInv, TypeOK, Sides, Roles
    <3> QED
      BY <1>0, <2>1, <3>3, <3>4 DEF IInv, TypeOK, Messages
  <2>4. OnlyMoves(c, "server") /\ pc'[c].server = "session" /\ pc'[c].client = pc[c].client
    BY <1>0, <2>1 DEF IInv, TypeOK, OnlyMoves, Sides
  <2>5. QueueInv' /\ DownInv' /\ TalkInv'
    BY <1>0, <2>3, <2>4, MoveUnseen DEF Sides, Talks
  <2>6. pc[c].client \in {"role", "session", "done"}
    BY <1>0, <1>1, TailAt DEF IInv, HandshakeInv, HandshakeOf
  <2>7. pc[c].client # "session" /\ (pc[c].client = "role" => I = <<>>)
    BY <1>0 DEF IInv, HandshakeInv, HandshakeOf
  <2>8. /\ inbox'[c].server = Tail(J)
        /\ inbox'[c].client = IF open[c] THEN Append(I, Opposite(r)) ELSE I
        /\ role'[c].server = r
    BY <1>0, <2>1 DEF IInv, TypeOK, Sides
  <2>9. HandshakeOf(c)'
    <3>1. pc[c].client = "role" => inbox'[c].client \in {<<>>, <<Opposite(r)>>}
      BY <2>7, <2>8, AppendToEmpty
    <3> QED
      BY <2>4, <2>6, <2>7, <2>8, <3>1 DEF HandshakeOf
  <2>10. OthersKeepHandshake(c)
    BY <2>1 DEF IInv, TypeOK, OthersKeepHandshake
  <2> QED
    BY <2>3, <2>5, <2>9, <2>10, HandshakeFrame DEF IInv
<1>2. CASE Head(J) # "algos"
  <2>1. /\ inbox' = [inbox EXCEPT ![c]["server"] = Tail(@)]
        /\ pc' = [pc EXCEPT ![c]["server"] = "done"]
        /\ open' = [open EXCEPT ![c] = FALSE]
        /\ role' = role
    BY <1>2 DEF HandshakeServer, Reads, Drops, Moves
  <2>3. TypeOK'
    BY <1>0, <2>1 DEF IInv, TypeOK, Sides, Messages
  <2>4. OnlyMoves(c, "server") /\ pc'[c].server = "done" /\ pc'[c].client = pc[c].client
    BY <1>0, <2>1 DEF IInv, TypeOK, OnlyMoves, Sides
  <2>5. QueueInv' /\ DownInv' /\ TalkInv'
    BY <1>0, <2>3, <2>4, MoveUnseen DEF Sides, Talks
  <2>8. inbox'[c].server = Tail(J) /\ inbox'[c].client = I
    BY <1>0, <2>1 DEF IInv, TypeOK, Sides
  <2>9. HandshakeOf(c)'
    BY <1>0, <2>1, <2>4, <2>8, TailAt DEF IInv, HandshakeInv, HandshakeOf
  <2>10. OthersKeepHandshake(c)
    BY <2>1 DEF IInv, TypeOK, OthersKeepHandshake
  <2> QED
    BY <2>3, <2>5, <2>9, <2>10, HandshakeFrame DEF IInv
<1> QED
  BY <1>1, <1>2

LEMMA HandshakeClientStep == ASSUME IInv, NEW c \in Conns, HandshakeClient(c) PROVE IInv'
<1> DEFINE I == inbox[c].client
<1>1. /\ pc[c].client = "role" /\ I # <<>> /\ I \in Seq(Messages)
      /\ inbox' = [inbox EXCEPT ![c]["client"] = Tail(@)]
      /\ pc' = [pc EXCEPT ![c]["client"] = "session"]
      /\ role' = [role EXCEPT ![c].client = Head(I)]
      /\ UNCHANGED <<up, status, updates, dialer, open, losses, stops>>
  BY DEF IInv, TypeOK, HandshakeClient, Reads, Moves, Sides, Messages
<1>2. /\ pc[c].server \in {"session", "done"} /\ role[c].server \in Roles
      /\ I = <<Opposite(role[c].server)>>
  BY <1>1 DEF IInv, HandshakeInv, HandshakeOf
<1>3. Head(I) = Opposite(role[c].server) /\ Tail(I) = <<>>
  BY <1>2
<1>4. TypeOK'
  <2>1. pc' \in [Conns -> [Sides -> {"free", "connecting", "status", "incoming", "queued",
                     "launch", "role", "handshake", "session", "done"}]]
    BY <1>1 DEF IInv, TypeOK, Sides
  <2>2. inbox' \in [Conns -> [Sides -> Seq(Messages)]]
    BY <1>1 DEF IInv, TypeOK, Sides, Messages
  <2>3. role' \in [Conns -> [Sides -> {"none", "leader", "follower"}]]
    BY <1>1, <1>3 DEF IInv, TypeOK, Sides, Opposite
  <2> QED
    BY <1>1, <2>1, <2>2, <2>3 DEF IInv, TypeOK, Messages
<1>5. /\ OnlyMoves(c, "client") /\ pc'[c].client = "session"
      /\ pc'[c].server = pc[c].server
      /\ role'[c].server = role[c].server /\ role'[c].client = Opposite(role[c].server)
      /\ inbox'[c].server = inbox[c].server
  BY <1>1, <1>3 DEF IInv, TypeOK, OnlyMoves, Sides
<1>6. QueueInv' /\ DownInv' /\ TalkInv'
  BY <1>1, <1>4, <1>5, MoveUnseen DEF Sides, Talks
<1>7. HandshakeOf(c)'
  BY <1>2, <1>5 DEF HandshakeOf
<1>8. OthersKeepHandshake(c)
  BY <1>1 DEF IInv, TypeOK, OthersKeepHandshake
<1> QED
  BY <1>4, <1>6, <1>7, <1>8, HandshakeFrame DEF IInv

\* An end that is dropped.
LEMMA DropStep ==
  ASSUME IInv, NEW c \in Conns, NEW e \in Sides, Drops(c, e),
         pc[c][e] \notin {"queued", "free"},
         UNCHANGED <<up, status, updates, dialer, inbox, role, losses, stops>>
  PROVE  IInv'
<1>1. pc' = [pc EXCEPT ![c][e] = "done"] /\ open' = [open EXCEPT ![c] = FALSE]
  BY DEF Drops, Moves
<1>2. TypeOK'
  BY <1>1 DEF IInv, TypeOK
<1>3. OnlyMoves(c, e) /\ pc'[c][e] = "done"
  BY <1>1 DEF IInv, TypeOK, OnlyMoves
<1>4. QueueInv' /\ DownInv' /\ TalkInv'
  BY <1>2, <1>3, MoveUnseen
<1>5. HandshakeOf(c)'
  <2>1. CASE e = "client"
    BY <1>3, <2>1 DEF IInv, HandshakeInv, HandshakeOf, OnlyMoves, Sides
  <2>2. CASE e = "server"
    BY <1>3, <2>2 DEF IInv, HandshakeInv, HandshakeOf, OnlyMoves, Sides
  <2> QED
    BY <2>1, <2>2 DEF Sides
<1>6. OthersKeepHandshake(c)
  BY <1>1 DEF IInv, TypeOK, OthersKeepHandshake
<1> QED
  BY <1>2, <1>4, <1>5, <1>6, HandshakeFrame DEF IInv

LEMMA EndFailsStep ==
  ASSUME IInv, NEW c \in Conns, NEW e \in Sides, EndFails(c, e)
  PROVE  IInv'
BY DropStep DEF EndFails

LEMMA ConnectionLostStep == ASSUME IInv, NEW c \in Conns, ConnectionLost(c) PROVE IInv'
<1>1. TypeOK'
  BY FaultsAssumption DEF IInv, TypeOK, ConnectionLost
<1>2. QueueInv' /\ DownInv' /\ TalkInv'
  BY NodesStay DEF IInv, QueueInv, DownInv, TalkInv, Talks, ConnectionLost
<1>3. HandshakeInv'
  BY DEF IInv, HandshakeInv, HandshakeOf, ConnectionLost
<1> QED
  BY <1>1, <1>2, <1>3 DEF IInv

-----------------------------------------------------------------------------
(* Steps that begin a connection or report to a manager.                   *)

LEMMA DialStep ==
  ASSUME IInv, NEW n \in Nodes, NEW c \in Conns, Dial(n, c)
  PROVE  IInv'
<1>1. /\ up[n] /\ \A e \in Sides : pc[c][e] \in {"free", "done"}
      /\ dialer' = [dialer EXCEPT ![c] = n]
      /\ pc' = [pc EXCEPT ![c].client = "connecting", ![c].server = "free"]
      /\ inbox' = [inbox EXCEPT ![c] = [e \in Sides |-> <<>>]]
      /\ role' = [role EXCEPT ![c] = [e \in Sides |-> "none"]]
      /\ open' = [open EXCEPT ![c] = TRUE]
      /\ UNCHANGED <<up, status, updates, losses, stops>>
  BY DEF Dial
<1>2. TypeOK'
  <2>1. pc' \in [Conns -> [Sides -> {"free", "connecting", "status", "incoming", "queued",
                     "launch", "role", "handshake", "session", "done"}]]
    BY <1>1 DEF IInv, TypeOK, Sides
  <2>2. inbox' \in [Conns -> [Sides -> Seq(Messages)]]
    <3>1. [e \in Sides |-> <<>>] \in [Sides -> Seq(Messages)]
      OBVIOUS
    <3> QED
      BY <1>1, <3>1 DEF IInv, TypeOK, Messages
  <2>3. role' \in [Conns -> [Sides -> {"none", "leader", "follower"}]]
    BY <1>1 DEF IInv, TypeOK
  <2> QED
    BY <1>1, <2>1, <2>2, <2>3 DEF IInv, TypeOK, Messages
<1>3. /\ pc'[c].client = "connecting" /\ pc'[c].server = "free"
      /\ NodeOf(c, "client")' = n
      /\ \A d \in Conns \ {c}, e \in Sides : /\ pc'[d][e] = pc[d][e]
                                             /\ NodeOf(d, e)' = NodeOf(d, e)
  BY <1>1 DEF IInv, TypeOK, NodeOf, Sides
<1>4. QueueInv'
  <2>1. \A d \in Conns : d # c => dialer'[d] = dialer[d]
    BY <1>1 DEF IInv, TypeOK
  <2> QED
    BY <1>1, <1>3, <2>1, QueueFrame DEF Sides
<1>5. DownInv'
  BY <1>1, <1>3 DEF IInv, DownInv, Sides
<1>6. TalkInv'
  <2>1. \A d \in Conns, e \in Sides : Talks(d, e)' => d # c /\ Talks(d, e)
    BY <1>3 DEF Talks, Sides
  <2> QED
    BY <1>1, <1>3, <2>1 DEF IInv, TalkInv
<1>7. HandshakeOf(c)'
  <2>1. inbox'[c].client = <<>> /\ inbox'[c].server = <<>>
    BY <1>1 DEF IInv, TypeOK, Sides
  <2> QED
    BY <1>3, <2>1 DEF HandshakeOf
<1>8. OthersKeepHandshake(c)
  BY <1>1 DEF IInv, TypeOK, OthersKeepHandshake
<1> QED
  BY <1>2, <1>4, <1>5, <1>6, <1>7, <1>8, HandshakeFrame DEF IInv

LEMMA EstablishStep == ASSUME IInv, NEW c \in Conns, Establish(c) PROVE IInv'
<1>1. /\ pc[c].client = "connecting" /\ up[NodeOf(c, "server")]
      /\ pc' = [pc EXCEPT ![c].client = "status", ![c].server = "incoming"]
      /\ inbox' = IF open[c] THEN [inbox EXCEPT ![c]["server"] = Append(@, "id")] ELSE inbox
      /\ UNCHANGED <<up, status, updates, dialer, open, role, losses, stops>>
  BY DEF Establish, Writes, OtherSide
<1>2. TypeOK'
  <2>1. pc' \in [Conns -> [Sides -> {"free", "connecting", "status", "incoming", "queued",
                     "launch", "role", "handshake", "session", "done"}]]
    BY <1>1 DEF IInv, TypeOK, Sides
  <2>2. inbox' \in [Conns -> [Sides -> Seq(Messages)]]
    <3>1. inbox[c]["server"] \in Seq(Messages) /\ "id" \in Messages
      BY DEF IInv, TypeOK, Sides, Messages
    <3>2. Append(inbox[c]["server"], "id") \in Seq(Messages)
      BY <3>1
    <3> QED
      BY <1>1, <3>2 DEF IInv, TypeOK, Messages, Sides
  <2> QED
    BY <1>1, <2>1, <2>2 DEF IInv, TypeOK, Messages
<1>3. /\ pc'[c].client = "status" /\ pc'[c].server = "incoming"
      /\ \A d \in Conns \ {c}, e \in Sides : pc'[d][e] = pc[d][e]
      /\ \A d \in Conns, e \in Sides : NodeOf(d, e)' = NodeOf(d, e)
  BY <1>1 DEF IInv, TypeOK, NodeOf, Sides
<1>4. pc[c].server = "free" /\ inbox[c].client = <<>>
  BY <1>1 DEF IInv, HandshakeInv, HandshakeOf
<1>5. QueueInv'
  BY <1>1, <1>3, <1>4, QueueFrame DEF Sides
<1>6. DownInv'
  BY <1>1, <1>3 DEF IInv, DownInv, Sides
<1>7. TalkInv'
  <2>1. \A d \in Conns, e \in Sides : Talks(d, e)' => Talks(d, e)
    BY <1>3 DEF Talks, Sides
  <2> QED
    BY <1>1, <1>3, <2>1 DEF IInv, TalkInv
<1>8. HandshakeOf(c)'
  <2>1. inbox'[c].client = <<>>
    BY <1>1, <1>4 DEF IInv, TypeOK, Sides
  <2>2. \A i \in DOMAIN inbox'[c].server : inbox'[c].server[i] # "algos"
    <3>1. inbox[c].server \in Seq(Messages) /\ "id" \in Messages
      BY DEF IInv, TypeOK, Sides, Messages
    <3>2. \A i \in DOMAIN inbox[c].server : inbox[c].server[i] # "algos"
      BY <1>1 DEF IInv, HandshakeInv, HandshakeOf
    <3>3. inbox'[c].server \in {inbox[c].server, Append(inbox[c].server, "id")}
      BY <1>1 DEF IInv, TypeOK, Sides
    <3>4. \A i \in DOMAIN Append(inbox[c].server, "id") :
            Append(inbox[c].server, "id")[i] # "algos"
      BY <3>1, <3>2, AppendAt
    <3> QED
      BY <3>2, <3>3, <3>4
  <2> QED
    BY <1>3, <2>1, <2>2 DEF HandshakeOf
<1>9. OthersKeepHandshake(c)
  BY <1>1 DEF IInv, TypeOK, OthersKeepHandshake
<1> QED
  BY <1>2, <1>5, <1>6, <1>7, <1>8, <1>9, HandshakeFrame DEF IInv

\* The node's queue takes in what the end reports.
Reports(m, u) ==
  /\ updates'[m] = Append(updates[m], u)
  /\ \A k \in Nodes \ {m} : updates'[k] = updates[k]

LEMMA ReportType ==
  ASSUME TypeOK, NEW m \in Nodes, NEW u \in Updates, Report(m, u), up[m], up' = up
  PROVE  /\ updates' \in [Nodes -> Seq(Updates)] /\ Reports(m, u)
         /\ \A k \in Nodes : ~up'[k] => updates'[k] = <<>>
BY DEF TypeOK, Report, Reports

\* An end that has not talked is queued.
LEMMA ReportNew ==
  ASSUME IInv, TypeOK', NEW c \in Conns, NEW e \in Sides, OnlyMoves(c, e),
         pc[c][e] \notin {"free", "done", "queued"}, ~Talks(c, e),
         pc'[c][e] = "queued",
         Reports(NodeOf(c, e), NewConnection(c, e)), UNCHANGED <<up, status>>
  PROVE  QueueInv' /\ DownInv' /\ TalkInv'
<1> DEFINE m == NodeOf(c, e)
           u == NewConnection(c, e)
           l == Len(updates[m]) + 1
<1>1. m \in Nodes /\ NodeOf(c, e)' = m
  BY NodeOfIsNode, NodesStay DEF IInv, OnlyMoves
<1>2. u \in Updates /\ u.type = "new" /\ u.conn = c /\ u.side = e
  BY DEF NewConnection, Updates
<1>3. updates[m] \in Seq(Updates) /\ updates'[m] = Append(updates[m], u)
  BY <1>1 DEF IInv, TypeOK, Reports
<1>4. /\ DOMAIN updates'[m] = 1..l /\ DOMAIN updates[m] = 1..l - 1 /\ l \in Nat
      /\ \A i \in DOMAIN updates[m] : updates'[m][i] = updates[m][i]
      /\ updates'[m][l] = u
  BY <1>2, <1>3, AppendAt
<1>5. \A k \in Nodes : \A i \in DOMAIN updates[k] :
        /\ updates[k][i].conn \in Conns /\ updates[k][i].side \in Sides
        /\ updates[k][i].type = "new" =>
             ~ (updates[k][i].conn = c /\ updates[k][i].side = e)
  BY UpdateFields DEF IInv, QueueInv
<1> HIDE DEF u, l, m
<1>6. QueueInv'
  <2> SUFFICES ASSUME NEW k \in Nodes, NEW i \in DOMAIN updates'[k],
                      updates'[k][i].type = "new"
               PROVE  /\ NodeOf(updates[k][i].conn, updates[k][i].side)' = k
                      /\ pc'[updates'[k][i].conn][updates'[k][i].side] = "queued"
                      /\ \A j \in DOMAIN updates'[k] :
                           /\ updates'[k][j].type = "new"
                           /\ updates'[k][j].conn = updates'[k][i].conn
                           /\ updates'[k][j].side = updates'[k][i].side
                           => j = i
    BY DEF QueueInv
  <2>1. CASE k # m
    <3>1. updates'[k] = updates[k]
      BY <2>1 DEF Reports, m
    <3> QED
      BY <1>5, <3>1 DEF OnlyMoves, IInv, QueueInv, NodeOf
  <2>2. CASE k = m /\ i = l
    <3>1. NodeOf(updates[k][i].conn, updates[k][i].side)' = k
      BY <1>1, <1>2, <1>4, <2>2 DEF NodeOf, OnlyMoves
    <3> QED
      BY <1>2, <1>4, <1>5, <2>2, <3>1
  <2>3. CASE k = m /\ i # l
    <3>1. i \in DOMAIN updates[k] /\ updates'[k][i] = updates[k][i]
      BY <1>4, <2>3
    <3> QED
      BY <1>2, <1>4, <1>5, <2>3, <3>1 DEF OnlyMoves, IInv, QueueInv, NodeOf
  <2> QED
    BY <2>1, <2>2, <2>3
<1>7. DownInv'
  BY NodesStay DEF OnlyMoves, IInv, DownInv
<1>8. TalkInv'
  <2>1. \A d \in Conns, f \in Sides : Talks(d, f)' => Talks(d, f)
    BY DEF OnlyMoves, Talks
  <2>2. \A d \in Conns, f \in Sides : NodeOf(d, f)' = NodeOf(d, f)
    BY NodesStay DEF OnlyMoves
  <2>3. \A k \in Nodes : \A i \in DOMAIN updates'[k] : updates'[k][i].type = "gone" =>
          i \in DOMAIN updates[k] /\ updates[k][i].type = "gone"
    BY <1>2, <1>4 DEF Reports, m
  <2>4. \A d \in Conns, f \in Sides : NodeOf(d, f) \in Nodes
    BY NodeOfIsNode DEF IInv
  <2> QED
    BY <2>1, <2>2, <2>3, <2>4 DEF IInv, TalkInv
<1> QED
  BY <1>6, <1>7, <1>8

LEMMA ReadStatusStep == ASSUME IInv, NEW c \in Conns, ReadStatus(c) PROVE IInv'
<1> DEFINE I == inbox[c].client
<1>1. /\ pc[c].client = "status" /\ I # <<>>
      /\ inbox' = [inbox EXCEPT ![c]["client"] = Tail(@)]
      /\ UNCHANGED <<up, status, dialer, role, losses, stops>>
  BY DEF ReadStatus, Reads
<1>2. /\ inbox' \in [Conns -> [Sides -> Seq(Messages)]]
      /\ inbox'[c].client = Tail(I) /\ inbox'[c].server = inbox[c].server
  BY <1>1 DEF IInv, TypeOK, Messages, Sides
<1>3. I \in {<<"accepted">>, <<"rejected">>} /\ pc[c].server \notin {"free", "session"}
  BY <1>1 DEF IInv, HandshakeInv, HandshakeOf
<1>4. Tail(I) = <<>>
  <2>1. \A x : Tail(<<x>>) = <<>>
    OBVIOUS
  <2> QED
    BY <1>3, <2>1
<1>5. NodeOf(c, "client") = dialer[c] /\ dialer[c] \in Nodes /\ up[dialer[c]]
  BY <1>1 DEF NodeOf, IInv, TypeOK, DownInv, Sides
<1>6. CASE Head(I) = "accepted"
  <2>1. /\ pc' = [pc EXCEPT ![c]["client"] = "queued"] /\ open' = open
        /\ Report(dialer[c], NewConnection(c, "client"))
    BY <1>6 DEF ReadStatus, Moves
  <2>2. NewConnection(c, "client") \in Updates
    BY DEF NewConnection, Updates, Sides
  <2>3. /\ updates' \in [Nodes -> Seq(Updates)]
        /\ Reports(dialer[c], NewConnection(c, "client"))
        /\ \A k \in Nodes : ~up'[k] => updates'[k] = <<>>
    BY <1>1, <1>5, <2>1, <2>2, ReportType DEF IInv
  <2>4. TypeOK'
    BY <1>1, <1>2, <2>1, <2>3 DEF IInv, TypeOK, Messages, Sides
  <2>5. /\ OnlyMoves(c, "client") /\ pc'[c].client = "queued"
        /\ pc'[c].server = pc[c].server
    BY <1>1, <2>1 DEF IInv, TypeOK, OnlyMoves, Sides
  <2>6. QueueInv' /\ DownInv' /\ TalkInv'
    BY <1>1, <1>5, <2>3, <2>4, <2>5, ReportNew DEF Talks, Sides
  <2>7. HandshakeOf(c)'
    BY <1>1, <1>2, <1>3, <1>4, <2>5 DEF IInv, HandshakeInv, HandshakeOf
  <2>8. OthersKeepHandshake(c)
    BY <1>1, <2>1 DEF IInv, TypeOK, OthersKeepHandshake
  <2> QED
    BY <2>4, <2>6, <2>7, <2>8, HandshakeFrame DEF IInv
<1>7. CASE Head(I) # "accepted"
  <2>1. /\ pc' = [pc EXCEPT ![c]["client"] = "done"] /\ open' = [open EXCEPT ![c] = FALSE]
        /\ updates' = updates
    BY <1>7 DEF ReadStatus, Drops, Moves
  <2>4. TypeOK'
    BY <1>1, <1>2, <2>1 DEF IInv, TypeOK, Messages, Sides
  <2>5. /\ OnlyMoves(c, "client") /\ pc'[c].client = "done"
        /\ pc'[c].server = pc[c].server
    BY <1>1, <2>1 DEF IInv, TypeOK, OnlyMoves, Sides
  <2>6. QueueInv' /\ DownInv' /\ TalkInv'
    BY <1>1, <2>1, <2>4, <2>5, MoveUnseen DEF Sides
  <2>7. HandshakeOf(c)'
    BY <1>1, <1>2, <1>3, <1>4, <2>5 DEF IInv, HandshakeInv, HandshakeOf
  <2>8. OthersKeepHandshake(c)
    BY <1>1, <2>1 DEF IInv, TypeOK, OthersKeepHandshake
  <2> QED
    BY <2>4, <2>6, <2>7, <2>8, HandshakeFrame DEF IInv
<1> QED
  BY <1>6, <1>7

LEMMA ListenerReadsStep == ASSUME IInv, NEW c \in Conns, ListenerReads(c) PROVE IInv'
<1> DEFINE J == inbox[c].server
           m == NodeOf(c, "server")
<1>1. /\ pc[c].server = "incoming" /\ J # <<>>
      /\ inbox' = [inbox EXCEPT ![c]["server"] = Tail(@)]
      /\ pc' = [pc EXCEPT ![c]["server"] = "queued"]
      /\ Report(m, NewConnection(c, "server"))
      /\ UNCHANGED <<up, status, dialer, open, role, losses, stops>>
  BY DEF ListenerReads, Reads, Moves
<1>2. /\ inbox' \in [Conns -> [Sides -> Seq(Messages)]] /\ J \in Seq(Messages)
      /\ inbox'[c].server = Tail(J) /\ inbox'[c].client = inbox[c].client
  BY <1>1 DEF IInv, TypeOK, Messages, Sides
<1>3. m \in Nodes /\ up[m]
  BY <1>1, NodeOfIsNode DEF IInv, DownInv, Sides
<1>4. NewConnection(c, "server") \in Updates
  BY DEF NewConnection, Updates, Sides
<1>5. /\ updates' \in [Nodes -> Seq(Updates)]
      /\ Reports(m, NewConnection(c, "server"))
      /\ \A k \in Nodes : ~up'[k] => updates'[k] = <<>>
  BY <1>1, <1>3, <1>4, ReportType DEF IInv
<1>6. TypeOK'
  BY <1>1, <1>2, <1>5 DEF IInv, TypeOK, Messages, Sides
<1>7. /\ OnlyMoves(c, "server") /\ pc'[c].server = "queued" /\ pc'[c].client = pc[c].client
  BY <1>1 DEF IInv, TypeOK, OnlyMoves, Sides
<1>8. QueueInv' /\ DownInv' /\ TalkInv'
  BY <1>1, <1>5, <1>6, <1>7, ReportNew DEF Talks, Sides
<1>9. HandshakeOf(c)'
  BY <1>1, <1>2, <1>7, TailAt DEF IInv, HandshakeInv, HandshakeOf
<1>10. OthersKeepHandshake(c)
  BY <1>1 DEF IInv, TypeOK, OthersKeepHandshake
<1> QED
  BY <1>6, <1>8, <1>9, <1>10, HandshakeFrame DEF IInv

\* A talk that ends becomes a report.
LEMMA SessionEndsStep ==
  ASSUME IInv, NEW c \in Conns, NEW e \in Sides, SessionEnds(c, e)
  PROVE  IInv'
<1> DEFINE m == NodeOf(c, e)
           u == Disconnection(c, e)
           l == Len(updates[m]) + 1
<1>1. /\ pc[c][e] = "session" /\ pc' = [pc EXCEPT ![c][e] = "done"]
      /\ Report(m, u)
      /\ UNCHANGED <<up, status, dialer, open, inbox, role, losses, stops>>
  BY DEF SessionEnds, Moves
<1>2. m \in Nodes /\ up[m]
  BY <1>1, NodeOfIsNode DEF IInv, DownInv
<1>3. u \in Updates /\ u.type = "gone"
  BY DEF Disconnection, Updates
<1>4. /\ updates' \in [Nodes -> Seq(Updates)] /\ Reports(m, u)
      /\ \A k \in Nodes : ~up'[k] => updates'[k] = <<>>
  BY <1>1, <1>2, <1>3, ReportType DEF IInv
<1>5. TypeOK'
  BY <1>1, <1>4 DEF IInv, TypeOK
<1>6. OnlyMoves(c, e) /\ pc'[c][e] = "done"
  BY <1>1 DEF IInv, TypeOK, OnlyMoves
<1>7. updates[m] \in Seq(Updates)
  BY <1>2 DEF IInv, TypeOK
<1>8. /\ DOMAIN updates'[m] = 1..l /\ DOMAIN updates[m] = 1..l - 1 /\ l \in Nat
      /\ \A i \in DOMAIN updates[m] : updates'[m][i] = updates[m][i]
      /\ updates'[m][l] = u
  BY <1>3, <1>4, <1>7, AppendAt DEF Reports
<1>9. status[m] = "connected" /\ \A i \in DOMAIN updates[m] : updates[m][i].type # "gone"
  BY <1>1 DEF IInv, TalkInv, Talks
<1> HIDE DEF u, l
<1>10. QueueInv'
  <2>1. \A k \in Nodes : \A i \in DOMAIN updates'[k] : updates'[k][i].type = "new" =>
          /\ i \in DOMAIN updates[k] /\ updates'[k][i] = updates[k][i]
          /\ updates[k][i].conn \in Conns /\ updates[k][i].side \in Sides
    BY <1>2, <1>3, <1>4, <1>8, UpdateFields, SMTT(30) DEF IInv, Reports
  <2> QED
    BY <1>1, <1>6, <2>1 DEF OnlyMoves, IInv, QueueInv, NodeOf
<1>11. DownInv'
  BY <1>1, <1>6, NodesStay DEF OnlyMoves, IInv, DownInv
<1>12. TalkInv'
  <2>1. \A d \in Conns, f \in Sides :
          Talks(d, f)' => Talks(d, f) /\ NodeOf(d, f) \in Nodes \ {m}
    BY <1>1, <1>6, NodeOfIsNode DEF OnlyMoves, Talks, IInv, TalkInv
  <2>2. \A d \in Conns, f \in Sides : NodeOf(d, f)' = NodeOf(d, f)
    BY <1>1, NodesStay
  <2>3. \A k \in Nodes \ {m} : updates'[k] = updates[k]
    BY <1>4 DEF Reports
  <2>4. \A i \in DOMAIN updates'[m] : updates'[m][i].type = "gone" => i = l
    BY <1>8, <1>9
  <2> QED
    BY <1>1, <1>2, <1>9, <2>1, <2>2, <2>3, <2>4 DEF IInv, TalkInv
<1>13. HandshakeOf(c)'
  BY <1>1, <1>6 DEF IInv, HandshakeInv, HandshakeOf, OnlyMoves, Sides
<1>14. OthersKeepHandshake(c)
  BY <1>1 DEF IInv, TypeOK, OthersKeepHandshake
<1> QED
  BY <1>5, <1>10, <1>11, <1>12, <1>13, <1>14, HandshakeFrame DEF IInv

-----------------------------------------------------------------------------
(* Steps of a manager, and what stops a module.                            *)

\* The manager has read the head of its queue.
ReadsHead(n) ==
  /\ updates[n] # <<>>
  /\ updates' = [updates EXCEPT ![n] = Tail(@)]

\* Every update that is left was there, one place further on.
Later(n) ==
  /\ \A k \in Nodes \ {n} : updates'[k] = updates[k]
  /\ \A i \in DOMAIN updates'[n] : /\ i \in Nat /\ i + 1 \in DOMAIN updates[n] /\ i + 1 # 1
                                   /\ updates'[n][i] = updates[n][i + 1]

LEMMA ReadsHeadType ==
  ASSUME TypeOK, NEW n \in Nodes, ReadsHead(n), up' = up
  PROVE  /\ updates' \in [Nodes -> Seq(Updates)] /\ up[n]
         /\ \A k \in Nodes : ~up'[k] => updates'[k] = <<>>
         /\ 1 \in DOMAIN updates[n] /\ Head(updates[n]) = updates[n][1]
         /\ updates[n][1].conn \in Conns /\ updates[n][1].side \in Sides
         /\ Later(n)
<1>1. updates[n] \in Seq(Updates) /\ updates[n] # <<>> /\ up[n]
  BY DEF TypeOK, ReadsHead
<1>2. /\ Tail(updates[n]) \in Seq(Updates) /\ Head(updates[n]) = updates[n][1]
      /\ 1 \in DOMAIN updates[n]
      /\ \A i \in DOMAIN Tail(updates[n]) :
           /\ i \in 1..Len(updates[n]) - 1 /\ i + 1 \in DOMAIN updates[n] /\ i + 1 # 1
           /\ Tail(updates[n])[i] = updates[n][i + 1]
  BY <1>1, TailAt
<1>3. updates'[n] = Tail(updates[n]) /\ \A k \in Nodes \ {n} : updates'[k] = updates[k]
  BY DEF TypeOK, ReadsHead
<1>4. updates' \in [Nodes -> Seq(Updates)]
  BY <1>2 DEF TypeOK, ReadsHead
<1>5. updates[n][1].conn \in Conns /\ updates[n][1].side \in Sides
  BY <1>2, UpdateFields
<1>6. \A k \in Nodes : ~up'[k] => updates'[k] = <<>>
  BY <1>1, <1>3 DEF TypeOK
<1>7. Later(n)
  BY <1>2, <1>3 DEF Later
<1> QED
  BY <1>1, <1>2, <1>4, <1>5, <1>6, <1>7

\* The queues stay right when the head that is read alone ceases to wait.
LEMMA LaterQueue ==
  ASSUME IInv, NEW n \in Nodes, ReadsHead(n), up' = up, dialer' = dialer,
         \A d \in Conns, f \in Sides :
           pc[d][f] = "queued" =>
             \/ pc'[d][f] = "queued"
             \/ /\ updates[n][1].type = "new"
                /\ updates[n][1].conn = d /\ updates[n][1].side = f
  PROVE  QueueInv'
<1>1. Later(n) /\ 1 \in DOMAIN updates[n]
  BY ReadsHeadType DEF IInv
<1>2. \A k \in Nodes : \A i \in DOMAIN updates[k] :
        updates[k][i].conn \in Conns /\ updates[k][i].side \in Sides
  BY UpdateFields DEF IInv
<1> SUFFICES ASSUME NEW k \in Nodes, NEW i \in DOMAIN updates'[k],
                    updates'[k][i].type = "new"
             PROVE  /\ NodeOf(updates[k][i].conn, updates[k][i].side)' = k
                    /\ pc'[updates'[k][i].conn][updates'[k][i].side] = "queued"
                    /\ \A j \in DOMAIN updates'[k] :
                         /\ updates'[k][j].type = "new"
                         /\ updates'[k][j].conn = updates'[k][i].conn
                         /\ updates'[k][j].side = updates'[k][i].side
                         => j = i
  BY DEF QueueInv
<1>3. CASE k # n
  <2>1. updates'[k] = updates[k]
    BY <1>1, <1>3 DEF Later
  <2>2. pc[updates[k][i].conn][updates[k][i].side] = "queued"
    BY <2>1 DEF IInv, QueueInv
  <2>3. ~ (/\ updates[n][1].type = "new" /\ updates[n][1].conn = updates[k][i].conn
           /\ updates[n][1].side = updates[k][i].side)
    BY <1>1, <1>3, <2>1 DEF IInv, QueueInv
  <2> QED
    BY <1>2, <2>1, <2>2, <2>3 DEF IInv, QueueInv, NodeOf
<1>4. CASE k = n
  <2>1. i \in Nat /\ i + 1 \in DOMAIN updates[n] /\ i + 1 # 1 /\ updates'[n][i] = updates[n][i + 1]
    BY <1>1, <1>4 DEF Later
  <2>2. /\ NodeOf(updates[n][i + 1].conn, updates[n][i + 1].side) = n
        /\ pc[updates[n][i + 1].conn][updates[n][i + 1].side] = "queued"
    BY <1>4, <2>1 DEF IInv, QueueInv
  <2>3. ~ (/\ updates[n][1].type = "new" /\ updates[n][1].conn = updates[n][i + 1].conn
           /\ updates[n][1].side = updates[n][i + 1].side)
    BY <1>1, <1>4, <2>1 DEF IInv, QueueInv
  <2>4. pc'[updates'[k][i].conn][updates'[k][i].side] = "queued"
    BY <1>2, <1>4, <2>1, <2>2, <2>3
  <2>5. NodeOf(updates[k][i].conn, updates[k][i].side)' = k
    BY <1>4, <2>1, <2>2 DEF NodeOf
  <2>6. ASSUME NEW j \in DOMAIN updates'[k], updates'[k][j].type = "new",
               updates'[k][j].conn = updates'[k][i].conn,
               updates'[k][j].side = updates'[k][i].side
        PROVE  j = i
    <3>1. j \in Nat /\ j + 1 \in DOMAIN updates[n] /\ updates'[n][j] = updates[n][j + 1]
      BY <1>1, <1>4, <2>6 DEF Later
    <3>2. j + 1 = i + 1
      BY <1>4, <2>1, <2>6, <3>1 DEF IInv, QueueInv
    <3> QED
      BY <2>1, <3>1, <3>2
  <2> QED
    BY <2>4, <2>5, <2>6
<1> QED
  BY <1>3, <1>4

LEMMA ManagerHandlesGoneStep ==
  ASSUME IInv, NEW n \in Nodes, ManagerHandlesGone(n)
  PROVE  IInv'
<1>1. /\ ReadsHead(n) /\ Head(updates[n]).type = "gone"
      /\ status' = [status EXCEPT ![n] = "disconnected"]
      /\ UNCHANGED <<up, connVars, losses, stops>>
  BY DEF ManagerHandlesGone, ReadsHead
<1>2. /\ updates' \in [Nodes -> Seq(Updates)] /\ Later(n) /\ updates[n][1].type = "gone"
      /\ \A k \in Nodes : ~up'[k] => updates'[k] = <<>>
      /\ 1 \in DOMAIN updates[n]
  BY <1>1, ReadsHeadType DEF IInv
<1>3. TypeOK'
  BY <1>1, <1>2 DEF IInv, TypeOK, connVars
<1>4. QueueInv'
  BY <1>1, LaterQueue DEF connVars
<1>5. DownInv'
  BY <1>1, NodesStay DEF IInv, DownInv, connVars
<1>6. TalkInv'
  <2>1. \A d \in Conns, f \in Sides :
          /\ NodeOf(d, f)' = NodeOf(d, f) /\ NodeOf(d, f) \in Nodes
          /\ Talks(d, f)' => Talks(d, f)
    BY <1>1, NodesStay, NodeOfIsNode DEF connVars, Talks, IInv
  <2>2. \A d \in Conns, f \in Sides : Talks(d, f) => NodeOf(d, f) # n
    BY <1>2 DEF IInv, TalkInv
  <2>3. \A i \in DOMAIN updates'[n] : updates'[n][i].type # "gone"
    BY <1>2 DEF IInv, TalkInv, Later
  <2>4. \A k \in Nodes \ {n} : status'[k] = status[k] /\ updates'[k] = updates[k]
    BY <1>1, <1>2 DEF IInv, TypeOK, Later
  <2> QED
    BY <2>1, <2>2, <2>3, <2>4 DEF IInv, TalkInv
<1>7. HandshakeInv'
  BY <1>1 DEF IInv, HandshakeInv, HandshakeOf, connVars
<1> QED
  BY <1>3, <1>4, <1>5, <1>6, <1>7 DEF IInv

LEMMA ManagerHandlesNewStep ==
  ASSUME IInv, NEW n \in Nodes, ManagerHandlesNew(n)
  PROVE  IInv'
<1>0. /\ ReadsHead(n) /\ Head(updates[n]).type = "new"
      /\ \/ ManagerAccepts(n, Head(updates[n]).conn, Head(updates[n]).side)
         \/ ManagerRejects(n, Head(updates[n]).conn, Head(updates[n]).side)
      /\ UNCHANGED <<up, dialer, role, losses, stops>>
  BY DEF ManagerHandlesNew, ReadsHead
<1> SUFFICES ASSUME NEW c \in Conns, NEW e \in Sides,
                    Head(updates[n]).conn = c, Head(updates[n]).side = e
             PROVE  IInv'
  BY <1>0, ReadsHeadType DEF IInv
<1>1. /\ ReadsHead(n) /\ Head(updates[n]).type = "new"
      /\ ManagerAccepts(n, c, e) \/ ManagerRejects(n, c, e)
      /\ UNCHANGED <<up, dialer, role, losses, stops>>
  BY <1>0
<1>2. /\ updates' \in [Nodes -> Seq(Updates)] /\ Later(n) /\ updates[n][1].type = "new"
      /\ \A k \in Nodes : ~up'[k] => updates'[k] = <<>>
      /\ 1 \in DOMAIN updates[n] /\ up[n]
      /\ updates[n][1].conn = c /\ updates[n][1].side = e
  BY <1>1, ReadsHeadType DEF IInv
<1>3. NodeOf(c, e) = n /\ pc[c][e] = "queued"
  BY <1>2 DEF IInv, QueueInv
<1>4. \A d \in Conns, f \in Sides : NodeOf(d, f)' = NodeOf(d, f) /\ NodeOf(d, f) \in Nodes
  BY <1>1, NodesStay, NodeOfIsNode DEF IInv
<1>5. /\ \A k \in Nodes \ {n} : updates'[k] = updates[k]
      /\ \A i \in DOMAIN updates'[n] :
           i + 1 \in DOMAIN updates[n] /\ updates'[n][i] = updates[n][i + 1] /\ i \in Nat
  BY <1>2 DEF Later
<1>6. CASE ManagerAccepts(n, c, e)
  <2>1. /\ status[n] = "disconnected" /\ status' = [status EXCEPT ![n] = "connected"]
        /\ pc' = [pc EXCEPT ![c][e] = IF e = "server" THEN "handshake" ELSE "launch"]
        /\ IF e = "server" THEN Writes(c, "server", "accepted") ELSE inbox' = inbox
        /\ open' = open
    BY <1>6 DEF ManagerAccepts, Moves
  <2>2. /\ inbox' \in [Conns -> [Sides -> Seq(Messages)]]
        /\ \A d \in Conns \ {c} : inbox'[d] = inbox[d]
        /\ e = "client" => inbox' = inbox
        /\ inbox'[c].server = inbox[c].server
        /\ inbox'[c].client \in {inbox[c].client, Append(inbox[c].client, "accepted")}
    <3>1. inbox \in [Conns -> [Sides -> Seq(Messages)]]
      BY DEF IInv, TypeOK, Messages
    <3>2. CASE e = "server"
      <4>1. inbox' = IF open[c] THEN [inbox EXCEPT ![c]["client"] = Append(@, "accepted")]
                     ELSE inbox
        BY <2>1, <3>2 DEF Writes, OtherSide
      <4>2. Append(inbox[c]["client"], "accepted") \in Seq(Messages)
        BY <3>1 DEF Sides, Messages
      <4> QED
        BY <3>1, <3>2, <4>1, <4>2 DEF Sides
    <3>3. CASE e = "client"
      BY <2>1, <3>1, <3>3
    <3> QED
      BY <3>2, <3>3 DEF Sides
  <2>3. TypeOK'
    BY <1>1, <1>2, <2>1, <2>2 DEF IInv, TypeOK, Messages
  <2>4. /\ OnlyMoves(c, e) /\ pc'[c][e] = IF e = "server" THEN "handshake" ELSE "launch"
    BY <1>1, <1>2, <2>1 DEF IInv, TypeOK, OnlyMoves
  <2>5. QueueInv'
    <3>1. \A d \in Conns, f \in Sides :
            pc[d][f] = "queued" =>
             \/ pc'[d][f] = "queued"
             \/ /\ updates[n][1].type = "new"
                /\ updates[n][1].conn = d /\ updates[n][1].side = f
      BY <1>2, <2>4 DEF OnlyMoves
    <3> QED
      BY <1>1, <3>1, LaterQueue
  <2>6. DownInv'
    BY <1>1, <1>2, <1>3, <1>4, <2>4 DEF OnlyMoves, IInv, DownInv
  <2>7. TalkInv'
    <3>1. \A d \in Conns, f \in Sides : Talks(d, f) => NodeOf(d, f) # n
      BY <2>1 DEF IInv, TalkInv
    <3>2. \A d \in Conns, f \in Sides : Talks(d, f)' => Talks(d, f) \/ (d = c /\ f = e)
      BY <2>4 DEF OnlyMoves, Talks
    <3>3. \A i \in DOMAIN updates'[n] : updates'[n][i].type # "gone"
      BY <1>5, <2>1 DEF IInv, TalkInv
    <3>4. status'[n] = "connected" /\ \A k \in Nodes \ {n} : status'[k] = status[k]
      BY <2>1 DEF IInv, TypeOK
    <3> QED
      BY <1>3, <1>4, <1>5, <3>1, <3>2, <3>3, <3>4 DEF IInv, TalkInv
  <2>8. HandshakeOf(c)'
    <3>1. CASE e = "client"
      <4>1. /\ pc[c].client = "queued" /\ pc'[c].client = "launch"
            /\ pc'[c].server = pc[c].server /\ inbox' = inbox
        BY <1>3, <2>2, <2>4, <3>1 DEF OnlyMoves, Sides
      <4>2. /\ inbox[c].client = <<>> /\ pc[c].server \notin {"free", "incoming", "queued", "session"}
            /\ ~ \E i \in DOMAIN inbox[c].server : inbox[c].server[i] = "algos"
        BY <4>1 DEF IInv, HandshakeInv, HandshakeOf
      <4> QED
        BY <4>1, <4>2 DEF HandshakeOf
    <3>2. CASE e = "server"
      <4>1. /\ inbox[c].client = <<>> /\ pc[c].client \in {"status", "done"}
            /\ ~ \E i \in DOMAIN inbox[c].server : pc[c].client = "status" /\ inbox[c].server[i] = "algos"
        BY <1>2, <1>3, <3>2 DEF IInv, HandshakeInv, HandshakeOf
      <4>2. inbox'[c].client \in {<<>>, <<"accepted">>}
        BY <2>2, <4>1, AppendToEmpty
      <4>3. pc'[c].client = pc[c].client /\ pc'[c].server = "handshake"
        BY <2>4, <3>2 DEF OnlyMoves, Sides
      <4> QED
        BY <2>2, <4>1, <4>2, <4>3 DEF HandshakeOf
    <3> QED
      BY <1>2, <3>1, <3>2 DEF Sides
  <2>9. OthersKeepHandshake(c)
    BY <1>1, <1>2, <2>1, <2>2 DEF IInv, TypeOK, OthersKeepHandshake
  <2> QED
    BY <1>2, <2>3, <2>5, <2>6, <2>7, <2>8, <2>9, HandshakeFrame DEF IInv
<1>7. CASE ManagerRejects(n, c, e)
  <2>1. /\ status' = status /\ Writes(c, e, "rejected")
        /\ pc' = [pc EXCEPT ![c][e] = "done"] /\ open' = [open EXCEPT ![c] = FALSE]
    BY <1>7 DEF ManagerRejects, Drops, Moves
  <2>2. OtherSide(e) \in Sides /\ OtherSide(e) # e
    BY <1>2 DEF OtherSide, Sides
  <2>3. /\ inbox' \in [Conns -> [Sides -> Seq(Messages)]]
        /\ \A d \in Conns \ {c} : inbox'[d] = inbox[d]
        /\ inbox'[c][e] = inbox[c][e]
        /\ inbox'[c][OtherSide(e)]
             \in {inbox[c][OtherSide(e)], Append(inbox[c][OtherSide(e)], "rejected")}
    BY <1>2, <2>1, <2>2 DEF IInv, TypeOK, Writes, Messages
  <2>4. TypeOK'
    BY <1>1, <1>2, <2>1, <2>3 DEF IInv, TypeOK, Messages
  <2>5. OnlyMoves(c, e) /\ pc'[c][e] = "done"
    BY <1>1, <1>2, <2>1 DEF IInv, TypeOK, OnlyMoves
  <2>6. QueueInv'
    <3>1. \A d \in Conns, f \in Sides :
            pc[d][f] = "queued" =>
             \/ pc'[d][f] = "queued"
             \/ /\ updates[n][1].type = "new"
                /\ updates[n][1].conn = d /\ updates[n][1].side = f
      BY <1>2, <2>5 DEF OnlyMoves
    <3> QED
      BY <1>1, <3>1, LaterQueue
  <2>7. DownInv'
    BY <1>1, <1>4, <2>5 DEF OnlyMoves, IInv, DownInv
  <2>8. TalkInv'
    <3>1. \A d \in Conns, f \in Sides : Talks(d, f)' => Talks(d, f)
      BY <2>5 DEF OnlyMoves, Talks
    <3>2. \A i, j \in DOMAIN updates'[n] :
            updates'[n][i].type = "gone" /\ updates'[n][j].type = "gone" => i = j
      BY <1>5 DEF IInv, TalkInv
    <3>3. \A i \in DOMAIN updates'[n] : updates'[n][i].type = "gone" => status[n] = "connected"
      BY <1>5 DEF IInv, TalkInv
    <3>4. \A d \in Conns, f \in Sides : Talks(d, f) /\ NodeOf(d, f) = n =>
            \A i \in DOMAIN updates'[n] : updates'[n][i].type # "gone"
      BY <1>5 DEF IInv, TalkInv
    <3> QED
      BY <1>4, <1>5, <2>1, <3>1, <3>2, <3>3, <3>4 DEF IInv, TalkInv
  <2>9. HandshakeOf(c)'
    <3>1. CASE e = "client"
      <4>1. inbox[c].server \in Seq(Messages) /\ "rejected" \in Messages
        BY <1>2 DEF IInv, TypeOK, Sides, Messages
      <4>2. /\ inbox'[c].client = inbox[c].client /\ pc'[c].client = "done"
            /\ pc'[c].server = pc[c].server /\ pc[c].client = "queued"
        BY <1>3, <2>3, <2>5, <3>1 DEF OnlyMoves, Sides
      <4> QED
        BY <1>1, <1>2, <4>1, <4>2 DEF IInv, HandshakeInv, HandshakeOf
    <3>2. CASE e = "server"
      <4>1. /\ inbox[c].client = <<>> /\ pc[c].client \in {"status", "done"}
            /\ ~ \E i \in DOMAIN inbox[c].server : pc[c].client = "status" /\ inbox[c].server[i] = "algos"
        BY <1>2, <1>3, <3>2 DEF IInv, HandshakeInv, HandshakeOf
      <4>2. /\ inbox'[c].client \in {<<>>, <<"rejected">>}
            /\ inbox'[c].server = inbox[c].server
        BY <2>3, <3>2, <4>1, AppendToEmpty DEF OtherSide
      <4>3. pc'[c].client = pc[c].client /\ pc'[c].server = "done"
        BY <2>5, <3>2 DEF OnlyMoves, Sides
      <4> QED
        BY <4>1, <4>2, <4>3 DEF HandshakeOf
    <3> QED
      BY <1>2, <3>1, <3>2 DEF Sides
  <2>10. OthersKeepHandshake(c)
    BY <1>1, <1>2, <2>1, <2>3 DEF IInv, TypeOK, OthersKeepHandshake
  <2> QED
    BY <1>2, <2>4, <2>6, <2>7, <2>8, <2>9, <2>10, HandshakeFrame DEF IInv
<1> QED
  BY <1>1, <1>6, <1>7

\* The end of a module.
LEMMA StoppedStep ==
  ASSUME IInv, NEW n \in Nodes, Stopped(n),
         status' \in [Nodes -> {"disconnected", "connected"}],
         \A k \in Nodes \ {n} : status'[k] = status[k],
         stops' \in 0..MaxStops
  PROVE  IInv'
<1>1. /\ up' = [up EXCEPT ![n] = FALSE] /\ updates' = [updates EXCEPT ![n] = <<>>]
      /\ UNCHANGED <<dialer, inbox, role, losses>>
      /\ open' \in [Conns -> BOOLEAN]
  BY DEF Stopped, IInv, TypeOK
<1>2. \A d \in Conns, f \in Sides :
        pc'[d][f] = IF NodeOf(d, f) = n /\ pc[d][f] # "free" THEN "done" ELSE pc[d][f]
  BY DEF Stopped
<1>3. \A d \in Conns, f \in Sides : NodeOf(d, f)' = NodeOf(d, f) /\ NodeOf(d, f) \in Nodes
  BY <1>1, NodesStay, NodeOfIsNode DEF IInv
<1>4. updates'[n] = <<>> /\ \A k \in Nodes \ {n} : updates'[k] = updates[k]
  BY <1>1 DEF IInv, TypeOK
<1>5. up'[n] = FALSE /\ \A k \in Nodes \ {n} : up'[k] = up[k]
  BY <1>1 DEF IInv, TypeOK
<1>6. TypeOK'
  <2>1. pc' \in [Conns -> [Sides -> {"free", "connecting", "status", "incoming", "queued",
                     "launch", "role", "handshake", "session", "done"}]]
    BY DEF Stopped, IInv, TypeOK
  <2>2. updates' \in [Nodes -> Seq(Updates)] /\ up' \in [Nodes -> BOOLEAN]
    BY <1>1 DEF IInv, TypeOK
  <2>3. \A k \in Nodes : ~up'[k] => updates'[k] = <<>>
    BY <1>4, <1>5 DEF IInv, TypeOK
  <2> QED
    BY <1>1, <2>1, <2>2, <2>3 DEF IInv, TypeOK
<1>7. QueueInv'
  <2>1. \A k \in Nodes : \A i \in DOMAIN updates[k] :
          updates[k][i].conn \in Conns /\ updates[k][i].side \in Sides
    BY UpdateFields DEF IInv
  <2>2. \A k \in Nodes : \A i \in DOMAIN updates'[k] : k # n /\ updates'[k] = updates[k]
    BY <1>4
  <2> QED
    BY <1>1, <1>2, <2>1, <2>2 DEF IInv, QueueInv, NodeOf
<1>8. DownInv'
  BY <1>2, <1>3, <1>5 DEF IInv, DownInv
<1>9. TalkInv'
  <2>1. \A d \in Conns, f \in Sides : Talks(d, f)' => Talks(d, f) /\ NodeOf(d, f) # n
    BY <1>2 DEF Talks
  <2> QED
    BY <1>3, <1>4, <2>1 DEF IInv, TalkInv
<1>10. HandshakeInv'
  <2> SUFFICES ASSUME NEW c \in Conns PROVE HandshakeOf(c)'
    BY DEF HandshakeInv
  <2>1. /\ pc'[c].client \in {pc[c].client, "done"} /\ pc'[c].server \in {pc[c].server, "done"}
        /\ pc[c].server = "free" => pc'[c].server = "free"
        /\ pc[c].client = "free" => pc'[c].client = "free"
    BY <1>2 DEF Sides
  <2> QED
    BY <1>1, <2>1 DEF IInv, HandshakeInv, HandshakeOf
<1> QED
  BY <1>6, <1>7, <1>8, <1>9, <1>10 DEF IInv

LEMMA ManagerFailsStep == ASSUME IInv, NEW n \in Nodes, ManagerFails(n) PROVE IInv'
<1>1. /\ status' \in [Nodes -> {"disconnected", "connected"}]
      /\ \A k \in Nodes \ {n} : status'[k] = status[k]
      /\ stops' \in 0..MaxStops
  BY DEF ManagerFails, IInv, TypeOK
<1> QED
  BY <1>1, StoppedStep DEF ManagerFails

LEMMA StopStep == ASSUME IInv, NEW n \in Nodes, Stop(n) PROVE IInv'
<1>1. stops' \in 0..MaxStops
  BY FaultsAssumption DEF Stop, IInv, TypeOK
<1> QED
  BY <1>1, StoppedStep DEF Stop, IInv, TypeOK

LEMMA ListenerFailsStep == ASSUME IInv, NEW c \in Conns, ListenerFails(c) PROVE IInv'
<1>1. pc[c].server = "incoming" /\ status' = status /\ stops' = stops
  BY DEF ListenerFails
<1>2. CASE Stopped(NodeOf(c, "server"))
  BY <1>1, <1>2, NodeOfIsNode, StoppedStep DEF IInv, TypeOK, Sides
<1>3. CASE Drops(c, "server") /\ UNCHANGED <<up, updates, dialer, inbox, role, losses>>
  BY <1>1, <1>3, DropStep DEF Sides
<1> QED
  BY <1>2, <1>3 DEF ListenerFails

\* A restart finds neither tasks nor reports.
LEMMA RestartStep == ASSUME IInv, NEW n \in Nodes, Restart(n) PROVE IInv'
<1>1. /\ ~up[n] /\ up' = [up EXCEPT ![n] = TRUE]
      /\ status' = [status EXCEPT ![n] = "disconnected"]
      /\ UNCHANGED <<updates, dialer, open, pc, inbox, role, losses, stops>>
  BY DEF Restart, connVars
<1>2. TypeOK'
  BY <1>1 DEF IInv, TypeOK
<1>3. QueueInv'
  BY <1>1, QueueFrame
<1>4. \A d \in Conns, f \in Sides : NodeOf(d, f)' = NodeOf(d, f) /\ NodeOf(d, f) \in Nodes
  BY <1>1, NodesStay, NodeOfIsNode DEF IInv
<1>5. DownInv'
  BY <1>1, <1>4 DEF IInv, TypeOK, DownInv
<1>6. TalkInv'
  <2>1. \A d \in Conns, f \in Sides : Talks(d, f)' => Talks(d, f) /\ NodeOf(d, f) # n
    BY <1>1 DEF IInv, DownInv, Talks
  <2>2. \A k \in Nodes : \A i \in DOMAIN updates[k] : k # n
    BY <1>1 DEF IInv, TypeOK
  <2>3. \A k \in Nodes \ {n} : status'[k] = status[k]
    BY <1>1 DEF IInv, TypeOK
  <2> QED
    BY <1>1, <1>4, <2>1, <2>2, <2>3 DEF IInv, TalkInv
<1>7. HandshakeInv'
  BY <1>1 DEF IInv, HandshakeInv, HandshakeOf
<1> QED
  BY <1>2, <1>3, <1>5, <1>6, <1>7 DEF IInv

LEMMA NextIInv == IInv /\ [Next]_vars => IInv'
<1> SUFFICES ASSUME IInv, [Next]_vars PROVE IInv'
  OBVIOUS
<1>1. ASSUME NEW n \in Nodes, NEW c \in Conns, Dial(n, c) PROVE IInv'
  BY <1>1, DialStep
<1>2. ASSUME NEW c \in Conns, Connection(c) PROVE IInv'
  BY <1>2, DialFailsStep, EstablishStep, ReadStatusStep, ListenerReadsStep,
     ListenerFailsStep, SendAlgosStep, HandshakeServerStep, HandshakeClientStep,
     EndFailsStep, SessionEndsStep DEF Connection
<1>3. ASSUME NEW c \in Conns, ConnectionLost(c) PROVE IInv'
  BY <1>3, ConnectionLostStep
<1>4. ASSUME NEW n \in Nodes, Manager(n) PROVE IInv'
  BY <1>4, ManagerHandlesNewStep, ManagerFailsStep, ManagerHandlesGoneStep DEF Manager
<1>5. ASSUME NEW n \in Nodes, Stop(n) \/ Restart(n) PROVE IInv'
  BY <1>5, StopStep, RestartStep
<1>6. CASE UNCHANGED vars
  <2>1. UNCHANGED <<up, status, updates, dialer, open, pc, inbox, role, losses, stops>>
    BY <1>6 DEF vars, connVars
  <2>2. TypeOK'
    BY <2>1 DEF IInv, TypeOK
  <2>3. QueueInv'
    BY <2>1, QueueFrame
  <2>4. DownInv' /\ TalkInv'
    BY <2>1, NodesStay DEF IInv, DownInv, TalkInv, Talks
  <2>5. HandshakeInv'
    BY <2>1 DEF IInv, HandshakeInv, HandshakeOf
  <2> QED
    BY <2>2, <2>3, <2>4, <2>5 DEF IInv
<1> QED
  BY <1>1, <1>2, <1>3, <1>4, <1>5, <1>6 DEF Next

-----------------------------------------------------------------------------
(* What follows.                                                           *)

\* A set whose members are all the same one is finite and has at most one.
LEMMA AtMostOneMember ==
  ASSUME NEW S, \A x, y \in S : x = y
  PROVE  IsFiniteSet(S) /\ (S = {} => Cardinality(S) = 0) /\ (S # {} => Cardinality(S) = 1)
<1>1. CASE S = {}
  BY <1>1, FS_EmptySet
<1>2. CASE S # {}
  <2>1. PICK x : S = {x}
    BY <1>2
  <2> QED
    BY <2>1, FS_Singleton
<1> QED
  BY <1>1, <1>2

LEMMA IInvOneCommunication == IInv => OneCommunication
<1> SUFFICES ASSUME IInv, NEW n \in Nodes
             PROVE  /\ Cardinality(Talking(n)) + Cardinality(Reported(n)) <= 1
                    /\ Talking(n) # {} \/ Reported(n) # {} => status[n] = "connected"
  BY DEF OneCommunication
<1>1. \A x \in Talking(n) : /\ x[1] \in Conns /\ x[2] \in Sides /\ x = <<x[1], x[2]>>
                            /\ NodeOf(x[1], x[2]) = n /\ Talks(x[1], x[2])
  BY DEF Talking, Talks
<1>2. \A x, y \in Talking(n) : x = y
  BY <1>1 DEF IInv, TalkInv
<1>3. \A i, j \in Reported(n) : i = j
  BY DEF Reported, IInv, TalkInv
<1>4. Talking(n) = {} \/ Reported(n) = {}
  BY <1>1 DEF Reported, IInv, TalkInv
<1>5. Talking(n) # {} \/ Reported(n) # {} => status[n] = "connected"
  BY <1>1 DEF Reported, IInv, TalkInv
<1> QED
  BY <1>2, <1>3, <1>4, <1>5, AtMostOneMember

-----------------------------------------------------------------------------
\* Every variable keeps its type, and a stopped module has nothing left
\* (peer_communication.rs, peer.rs).
THEOREM PeersTypeCorrect == Spec => []TypeOK
<1>1. IInv => TypeOK
  BY DEF IInv
<1> QED
  BY InitIInv, NextIInv, <1>1, PTL DEF Spec

\* However many connections are dialed, in either direction, lost or rejected,
\* a module talks to its peer over one at a time (peer_communication.rs 53-182).
THEOREM OneCommunicationAtATime == Spec => []OneCommunication
BY InitIInv, NextIInv, IInvOneCommunication, PTL DEF Spec

\* In every established session one module leads and the other follows
\* (peer_communication.rs 58-76, 246-284).
THEOREM RolesAgree == Spec => []RolesOpposite
<1>1. IInv => RolesOpposite
  BY DEF IInv, HandshakeInv, HandshakeOf, RolesOpposite, Roles, Opposite, Sides
<1> QED
  BY InitIInv, NextIInv, <1>1, PTL DEF Spec

-----------------------------------------------------------------------------
(* What a step can do to an established session.                           *)

LEMMA SessionStays ==
  ASSUME IInv, Next, NEW c \in Conns, InSession(c), losses' = losses, up' = up
  PROVE  InSession(c)'
<1>0. open[c] /\ pc[c].client = "session" /\ pc[c].server = "session"
  BY DEF InSession, Sides
<1> SUFFICES open'[c] /\ pc'[c].client = "session" /\ pc'[c].server = "session"
  BY DEF InSession, Sides
<1>1. ASSUME NEW d \in Conns, NEW e \in Sides, Drops(d, e), pc[d][e] # "session"
      PROVE  open'[c] /\ pc'[c].client = "session" /\ pc'[c].server = "session"
  BY <1>0, <1>1 DEF Drops, Moves, IInv, TypeOK, Sides
<1>2. ASSUME NEW n \in Nodes, NEW d \in Conns, Dial(n, d)
      PROVE  open'[c] /\ pc'[c].client = "session" /\ pc'[c].server = "session"
  <2>1. d # c
    BY <1>0, <1>2 DEF Dial, Sides
  <2> QED
    BY <1>0, <1>2, <2>1 DEF Dial, IInv, TypeOK
<1>3. ASSUME NEW n \in Nodes, Stopped(n), up[n] PROVE FALSE
  BY <1>3 DEF Stopped, IInv, TypeOK
<1>4. ASSUME NEW d \in Conns, Connection(d)
      PROVE  open'[c] /\ pc'[c].client = "session" /\ pc'[c].server = "session"
  <2>1. CASE DialFails(d)
    BY <1>1, <2>1 DEF DialFails, Sides
  <2>2. CASE Establish(d)
    <3>1. pc[d].client = "connecting" /\ open' = open
          /\ pc' = [pc EXCEPT ![d].client = "status", ![d].server = "incoming"]
      BY <2>2 DEF Establish
    <3> QED
      BY <1>0, <3>1 DEF IInv, TypeOK
  <2>3. CASE ReadStatus(d)
    <3>1. pc[d].client = "status"
          /\ (Drops(d, "client") \/ (Moves(d, "client", "queued") /\ open' = open))
      BY <2>3 DEF ReadStatus
    <3> QED
      BY <1>0, <1>1, <3>1 DEF Moves, IInv, TypeOK, Sides
  <2>4. CASE ListenerReads(d)
    BY <1>0, <2>4 DEF ListenerReads, Moves, IInv, TypeOK, Sides
  <2>5. CASE ListenerFails(d)
    <3>1. pc[d].server = "incoming" /\ NodeOf(d, "server") \in Nodes /\ up[NodeOf(d, "server")]
      BY <2>5, NodeOfIsNode DEF ListenerFails, IInv, DownInv, Sides
    <3> QED
      BY <1>1, <1>3, <2>5, <3>1 DEF ListenerFails, Sides
  <2>6. CASE SendAlgos(d)
    BY <1>0, <2>6 DEF SendAlgos, Moves, IInv, TypeOK, Sides
  <2>7. CASE HandshakeServer(d)
    <3>1. pc[d].server = "handshake"
          /\ (Drops(d, "server") \/ (Moves(d, "server", "session") /\ open' = open))
      BY <2>7 DEF HandshakeServer
    <3> QED
      BY <1>0, <1>1, <3>1 DEF Moves, IInv, TypeOK, Sides
  <2>8. CASE HandshakeClient(d)
    BY <1>0, <2>8 DEF HandshakeClient, Moves, IInv, TypeOK, Sides
  <2>9. ASSUME NEW e \in Sides, EndFails(d, e)
        PROVE  open'[c] /\ pc'[c].client = "session" /\ pc'[c].server = "session"
    BY <1>1, <2>9 DEF EndFails
  <2>10. ASSUME NEW e \in Sides, SessionEnds(d, e)
         PROVE  open'[c] /\ pc'[c].client = "session" /\ pc'[c].server = "session"
    BY <1>0, <2>10 DEF SessionEnds, Moves, IInv, TypeOK
  <2> QED
    BY <1>4, <2>1, <2>2, <2>3, <2>4, <2>5, <2>6, <2>7, <2>8, <2>9, <2>10 DEF Connection
<1>5. ASSUME NEW n \in Nodes, Manager(n)
      PROVE  open'[c] /\ pc'[c].client = "session" /\ pc'[c].server = "session"
  <2>1. CASE ManagerHandlesNew(n)
    <3>1. ReadsHead(n)
      BY <2>1 DEF ManagerHandlesNew, ReadsHead
    <3>2. PICK d \in Conns, e \in Sides :
            /\ Head(updates[n]).conn = d /\ Head(updates[n]).side = e /\ pc[d][e] = "queued"
      BY <2>1, <3>1, ReadsHeadType DEF ManagerHandlesNew, IInv, QueueInv
    <3>3. ManagerAccepts(n, d, e) \/ ManagerRejects(n, d, e)
      BY <2>1, <3>2 DEF ManagerHandlesNew
    <3>4. \/ Drops(d, e)
          \/ open' = open /\ pc' = [pc EXCEPT ![d][e] = IF e = "server" THEN "handshake" ELSE "launch"]
      BY <3>3 DEF ManagerAccepts, ManagerRejects, Moves
    <3> QED
      BY <1>0, <1>1, <3>2, <3>4 DEF IInv, TypeOK, Sides
  <2>2. CASE ManagerFails(n)
    BY <1>3, <2>2 DEF ManagerFails, IInv, TypeOK
  <2>3. CASE ManagerHandlesGone(n)
    BY <1>0, <2>3 DEF ManagerHandlesGone, connVars
  <2> QED
    BY <1>5, <2>1, <2>2, <2>3 DEF Manager
<1>6. ASSUME NEW d \in Conns, ConnectionLost(d) PROVE FALSE
  BY <1>6 DEF ConnectionLost, IInv, TypeOK
<1>7. ASSUME NEW n \in Nodes, Stop(n) PROVE FALSE
  BY <1>3, <1>7 DEF Stop
<1>8. ASSUME NEW n \in Nodes, Restart(n) PROVE FALSE
  BY <1>8 DEF Restart, IInv, TypeOK
<1> QED
  BY <1>2, <1>4, <1>5, <1>6, <1>7, <1>8 DEF Next

\* No dial, late or doubled, and no rejection takes an established session
\* down: only lost connections and stopped modules do
\* (peer_communication.rs 53-244).
THEOREM SessionsEndByFaults == Spec => OnlyFaultsEndSessions
<1>1. IInv /\ [Next]_vars =>
        [\A c \in Conns : InSession(c) /\ ~InSession(c)' =>
            losses' # losses \/ up' # up]_vars
  BY SessionStays
<1> QED
  BY InitIInv, NextIInv, <1>1, PTL DEF Spec, OnlyFaultsEndSessions

-----------------------------------------------------------------------------
(* Without faults no module stops.                                         *)

\* An end waits that would stop its module if the connection were gone, or
\* that is about to.
Waiting(c) ==
  \/ pc[c].server \in {"incoming", "queued"}
  \/ pc[c].client = "queued"
  \/ pc[c].client = "status" /\ inbox[c].client = <<"accepted">>

\* What the server has to read, and that only faults close a connection at
\* which an end waits.
QuietOf(c) ==
  /\ pc[c].client = "connecting" => inbox[c].server = <<>>
  /\ pc[c].server = "incoming" => inbox[c].server \in {<<>>, <<"id">>}
  /\ pc[c].client \in {"status", "queued", "launch"}
       /\ pc[c].server \in {"queued", "handshake"} => inbox[c].server = <<>>
  /\ losses = 0 /\ stops = 0 /\ Waiting(c) => open[c]

QuietInv == ModulesStayUp /\ \A c \in Conns : QuietOf(c)

LEMMA InitQuiet == Init => QuietInv
BY DEF Init, QuietInv, QuietOf, Waiting, ModulesStayUp, Sides

\* A step at one connection.
OnlyAt(c) ==
  /\ \A d \in Conns \ {c} : pc'[d] = pc[d] /\ inbox'[d] = inbox[d] /\ open'[d] = open[d]
  /\ UNCHANGED <<up, losses, stops>>

LEMMA QuietFrame ==
  ASSUME QuietInv, NEW c \in Conns, OnlyAt(c), QuietOf(c)'
  PROVE  QuietInv'
BY DEF OnlyAt, QuietInv, QuietOf, Waiting, ModulesStayUp

\* Modules stop only after a fault.
LEMMA QuietStopped ==
  ASSUME IInv, QuietInv, NEW n \in Nodes, Stopped(n),
         ~ (losses' = 0 /\ stops' = 0)
  PROVE  QuietInv'
<1>1. \A c \in Conns :
        /\ pc'[c].client \in {pc[c].client, "done"} /\ pc'[c].server \in {pc[c].server, "done"}
        /\ inbox' = inbox
  BY DEF Stopped, Sides
<1> QED
  BY <1>1 DEF QuietInv, QuietOf, ModulesStayUp

LEMMA QuietConnection ==
  ASSUME IInv, QuietInv, NEW c \in Conns, Connection(c)
  PROVE  QuietInv'
<1>1. /\ pc \in [Conns -> [Sides -> {"free", "connecting", "status", "incoming", "queued",
                     "launch", "role", "handshake", "session", "done"}]]
      /\ inbox \in [Conns -> [Sides -> Seq(Messages)]] /\ open \in [Conns -> BOOLEAN]
  BY DEF IInv, TypeOK, Messages
<1>2. QuietOf(c) /\ HandshakeOf(c)
  BY DEF QuietInv, IInv, HandshakeInv
<1>3. CASE DialFails(c)
  <2>1. /\ pc[c].client = "connecting" /\ pc[c].server = "free"
        /\ pc' = [pc EXCEPT ![c]["client"] = "done"] /\ open' = [open EXCEPT ![c] = FALSE]
        /\ UNCHANGED <<up, inbox, losses, stops>>
    BY <1>2, <1>3 DEF DialFails, Drops, Moves, HandshakeOf
  <2>2. pc'[c].client = "done" /\ pc'[c].server = "free"
    BY <1>1, <2>1 DEF Sides
  <2>3. OnlyAt(c)
    BY <1>1, <2>1 DEF OnlyAt
  <2> QED
    BY <2>2, <2>3, QuietFrame DEF QuietOf, Waiting
<1>4. CASE Establish(c)
  <2>1. /\ pc[c].client = "connecting" /\ open[c]
        /\ pc' = [pc EXCEPT ![c].client = "status", ![c].server = "incoming"]
        /\ inbox' = [inbox EXCEPT ![c]["server"] = Append(@, "id")]
        /\ UNCHANGED <<up, open, losses, stops>>
    BY <1>4 DEF Establish, Writes, OtherSide
  <2>2. inbox'[c].server = <<"id">>
    BY <1>1, <1>2, <2>1, AppendToEmpty DEF QuietOf, Sides
  <2>3. pc'[c].client = "status" /\ pc'[c].server = "incoming" /\ open'[c]
    BY <1>1, <2>1 DEF Sides
  <2>4. OnlyAt(c)
    BY <1>1, <2>1 DEF OnlyAt
  <2> QED
    BY <2>2, <2>3, <2>4, QuietFrame DEF QuietOf
<1>5. CASE ReadStatus(c)
  <2>1. /\ pc[c].client = "status" /\ inbox[c].client # <<>>
        /\ inbox' = [inbox EXCEPT ![c]["client"] = Tail(@)]
        /\ UNCHANGED <<up, losses, stops>>
    BY <1>5 DEF ReadStatus, Reads
  <2>2. /\ pc[c].server \notin {"free", "incoming", "queued"}
        /\ inbox[c].client \in {<<"accepted">>, <<"rejected">>}
    BY <1>2, <2>1 DEF HandshakeOf
  <2>3. inbox'[c].server = inbox[c].server /\ \A d \in Conns \ {c} : inbox'[d] = inbox[d]
    BY <1>1, <2>1 DEF Sides
  <2>4. CASE Head(inbox[c].client) # "accepted"
    <3>1. pc' = [pc EXCEPT ![c]["client"] = "done"] /\ open' = [open EXCEPT ![c] = FALSE]
      BY <1>5, <2>4 DEF ReadStatus, Drops, Moves
    <3>2. pc'[c].client = "done" /\ pc'[c].server = pc[c].server
      BY <1>1, <3>1 DEF Sides
    <3>3. OnlyAt(c)
      BY <1>1, <2>1, <2>3, <3>1 DEF OnlyAt
    <3> QED
      BY <2>2, <3>2, <3>3, QuietFrame DEF QuietOf, Waiting
  <2>5. CASE Head(inbox[c].client) = "accepted"
    <3>1. pc' = [pc EXCEPT ![c]["client"] = "queued"] /\ open' = open
      BY <1>5, <2>5 DEF ReadStatus, Moves
    <3>2. pc'[c].client = "queued" /\ pc'[c].server = pc[c].server
      BY <1>1, <3>1 DEF Sides
    <3>3. OnlyAt(c)
      BY <1>1, <2>1, <2>3, <3>1 DEF OnlyAt
    <3>4. inbox[c].client = <<"accepted">>
      <4>1. \A x : Head(<<x>>) = x
        OBVIOUS
      <4> QED
        BY <2>2, <2>5, <4>1
    <3>5. losses' = 0 /\ stops' = 0 => open'[c]
      BY <1>2, <2>1, <3>1, <3>4 DEF QuietOf, Waiting
    <3>6. pc'[c].server \in {"queued", "handshake"} => inbox'[c].server = <<>>
      BY <1>2, <2>1, <2>3, <3>2 DEF QuietOf
    <3> QED
      BY <2>2, <3>2, <3>3, <3>5, <3>6, QuietFrame DEF QuietOf
  <2> QED
    BY <2>4, <2>5
<1>6. CASE ListenerReads(c)
  <2>1. /\ pc[c].server = "incoming" /\ inbox[c].server # <<>>
        /\ inbox' = [inbox EXCEPT ![c]["server"] = Tail(@)]
        /\ pc' = [pc EXCEPT ![c]["server"] = "queued"]
        /\ UNCHANGED <<up, open, losses, stops>>
    BY <1>6 DEF ListenerReads, Reads, Moves
  <2>2. inbox[c].server = <<"id">> /\ (losses = 0 /\ stops = 0 => open[c])
        /\ pc[c].client \in {"free", "connecting", "status", "done"}
    BY <1>2, <2>1 DEF QuietOf, Waiting, HandshakeOf
  <2>3. Tail(inbox[c].server) = <<>>
    <3>1. \A x : Tail(<<x>>) = <<>>
      OBVIOUS
    <3> QED
      BY <2>2, <3>1
  <2>4. /\ inbox'[c].server = <<>> /\ pc'[c].server = "queued" /\ pc'[c].client = pc[c].client
        /\ OnlyAt(c)
    BY <1>1, <2>1, <2>3 DEF Sides, OnlyAt
  <2> QED
    BY <2>1, <2>2, <2>4, QuietFrame DEF QuietOf
<1>7. CASE ListenerFails(c)
  <2>1. pc[c].server = "incoming" /\ ~open[c]
    BY <1>7 DEF ListenerFails
  <2>2. ~ (losses = 0 /\ stops = 0) /\ stops' = stops
    BY <1>2, <1>7, <2>1 DEF QuietOf, Waiting, ListenerFails
  <2>3. CASE Stopped(NodeOf(c, "server"))
    <3>1. NodeOf(c, "server") \in Nodes /\ losses' = losses
      BY <2>3, NodeOfIsNode DEF IInv, Sides, Stopped
    <3> QED
      BY <2>2, <2>3, <3>1, QuietStopped
  <2>4. CASE Drops(c, "server") /\ UNCHANGED <<up, updates, dialer, inbox, role, losses>>
    <3>1. /\ pc'[c].server = "done" /\ pc'[c].client = pc[c].client /\ OnlyAt(c)
      BY <1>1, <2>2, <2>4 DEF Drops, Moves, Sides, OnlyAt
    <3> QED
      BY <1>2, <2>2, <2>4, <3>1, QuietFrame DEF QuietOf, OnlyAt
  <2> QED
    BY <1>7, <2>3, <2>4 DEF ListenerFails
<1>8. CASE SendAlgos(c)
  <2>1. /\ pc[c].client = "launch"
        /\ pc' = [pc EXCEPT ![c]["client"] = "role"]
        /\ \A d \in Conns \ {c} : inbox'[d] = inbox[d]
        /\ UNCHANGED <<up, open, losses, stops>>
    BY <1>1, <1>8 DEF SendAlgos, Writes, OtherSide, Moves, Sides
  <2>2. pc[c].server \notin {"free", "incoming", "queued"}
    BY <1>2, <2>1 DEF HandshakeOf
  <2>3. pc'[c].client = "role" /\ pc'[c].server = pc[c].server /\ OnlyAt(c)
    BY <1>1, <2>1 DEF Sides, OnlyAt
  <2> QED
    BY <2>2, <2>3, QuietFrame DEF QuietOf, Waiting
<1>9. CASE HandshakeServer(c)
  <2>1. /\ pc[c].server = "handshake" /\ inbox[c].server # <<>>
        /\ UNCHANGED <<up, losses, stops>>
        /\ pc'[c].server \in {"session", "done"} /\ pc'[c].client = pc[c].client
        /\ \A d \in Conns \ {c} : pc'[d] = pc[d] /\ inbox'[d] = inbox[d] /\ open'[d] = open[d]
    BY <1>1, <1>9 DEF HandshakeServer, Reads, Drops, Moves, Sides
  <2>2. pc[c].client \notin {"free", "connecting", "status", "queued", "launch"}
    BY <1>2, <2>1 DEF QuietOf, HandshakeOf
  <2>3. OnlyAt(c)
    BY <2>1 DEF OnlyAt
  <2> QED
    BY <2>1, <2>2, <2>3, QuietFrame DEF QuietOf, Waiting
<1>10. CASE HandshakeClient(c)
  <2>1. /\ pc[c].client = "role" /\ pc' = [pc EXCEPT ![c]["client"] = "session"]
        /\ inbox' = [inbox EXCEPT ![c]["client"] = Tail(@)]
        /\ UNCHANGED <<up, open, losses, stops>>
    BY <1>10 DEF HandshakeClient, Reads, Moves
  <2>2. pc[c].server \notin {"free", "incoming", "queued"}
    BY <1>2, <2>1 DEF HandshakeOf
  <2>3. pc'[c].client = "session" /\ pc'[c].server = pc[c].server /\ OnlyAt(c)
    BY <1>1, <2>1 DEF Sides, OnlyAt
  <2> QED
    BY <2>2, <2>3, QuietFrame DEF QuietOf, Waiting
<1>11. ASSUME NEW e \in Sides, EndFails(c, e) PROVE QuietInv'
  <2>1. /\ ~open[c] /\ pc[c][e] \in {"status", "launch", "role", "handshake"}
        /\ pc' = [pc EXCEPT ![c][e] = "done"] /\ open' = [open EXCEPT ![c] = FALSE]
        /\ UNCHANGED <<up, inbox, losses, stops>>
    BY <1>11 DEF EndFails, Drops, Moves
  <2>2. /\ pc'[c][e] = "done" /\ \A f \in Sides \ {e} : pc'[c][f] = pc[c][f]
        /\ OnlyAt(c) /\ ~open'[c]
    BY <1>1, <2>1 DEF OnlyAt
  <2> QED
    BY <1>2, <2>1, <2>2, QuietFrame DEF QuietOf, Waiting, Sides
<1>12. ASSUME NEW e \in Sides, SessionEnds(c, e) PROVE QuietInv'
  <2>1. /\ pc[c][e] = "session" /\ pc' = [pc EXCEPT ![c][e] = "done"]
        /\ UNCHANGED <<up, open, inbox, losses, stops>>
    BY <1>12 DEF SessionEnds, Moves
  <2>2. /\ pc'[c][e] = "done" /\ \A f \in Sides \ {e} : pc'[c][f] = pc[c][f]
        /\ OnlyAt(c)
    BY <1>1, <2>1 DEF OnlyAt
  <2> QED
    BY <1>2, <2>1, <2>2, QuietFrame DEF QuietOf, Waiting, Sides
<1> QED
  BY <1>3, <1>4, <1>5, <1>6, <1>7, <1>8, <1>9, <1>10, <1>11, <1>12 DEF Connection

LEMMA QuietManager ==
  ASSUME IInv, QuietInv, NEW n \in Nodes, Manager(n)
  PROVE  QuietInv'
<1>1. /\ pc \in [Conns -> [Sides -> {"free", "connecting", "status", "incoming", "queued",
                     "launch", "role", "handshake", "session", "done"}]]
      /\ inbox \in [Conns -> [Sides -> Seq(Messages)]] /\ open \in [Conns -> BOOLEAN]
  BY DEF IInv, TypeOK, Messages
<1>2. CASE ManagerHandlesNew(n)
  <2>1. ReadsHead(n)
    BY <1>2 DEF ManagerHandlesNew, ReadsHead
  <2>2. PICK c \in Conns, e \in Sides :
          /\ Head(updates[n]).conn = c /\ Head(updates[n]).side = e /\ pc[c][e] = "queued"
    BY <1>2, <2>1, ReadsHeadType DEF ManagerHandlesNew, IInv, QueueInv
  <2>3. /\ ManagerAccepts(n, c, e) \/ ManagerRejects(n, c, e)
        /\ UNCHANGED <<up, losses, stops>>
    BY <1>2, <2>2 DEF ManagerHandlesNew
  <2>4. QuietOf(c) /\ HandshakeOf(c)
    BY DEF QuietInv, IInv, HandshakeInv
  <2>5. OnlyAt(c)
    BY <1>1, <2>3 DEF ManagerAccepts, ManagerRejects, Writes, Drops, Moves, OnlyAt
  <2>6. CASE e = "server"
    <3>1. /\ inbox[c].client = <<>> /\ pc[c].client \in {"status", "done"}
          /\ losses = 0 /\ stops = 0 => open[c]
          /\ pc[c].client = "status" => inbox[c].server = <<>>
      BY <2>2, <2>4, <2>6 DEF QuietOf, Waiting, HandshakeOf
    <3>2. CASE ManagerAccepts(n, c, e)
      <4>1. /\ pc'[c].server = "handshake" /\ pc'[c].client = pc[c].client /\ open' = open
            /\ inbox'[c].server = inbox[c].server
        BY <1>1, <2>6, <3>2 DEF ManagerAccepts, Moves, Writes, OtherSide, Sides
      <4> QED
        BY <2>3, <2>5, <3>1, <4>1, QuietFrame DEF QuietOf
    <3>3. CASE ManagerRejects(n, c, e)
      <4>1. /\ pc'[c].server = "done" /\ pc'[c].client = pc[c].client
            /\ inbox' = IF open[c] THEN [inbox EXCEPT ![c]["client"] = Append(@, "rejected")]
                        ELSE inbox
        BY <1>1, <2>6, <3>3 DEF ManagerRejects, Drops, Moves, Writes, OtherSide, Sides
      <4>2. inbox'[c].client \in {<<>>, <<"rejected">>}
        BY <1>1, <3>1, <4>1, AppendToEmpty DEF Sides
      <4>3. ~Waiting(c)'
        <5>1. \A x, y : x # y => <<x>> # <<y>> /\ <<>> # <<x>>
          OBVIOUS
        <5> QED
          BY <3>1, <4>1, <4>2, <5>1 DEF Waiting
      <4> QED
        BY <2>5, <3>1, <4>1, <4>3, QuietFrame DEF QuietOf
    <3> QED
      BY <2>3, <3>2, <3>3
  <2>7. CASE e = "client"
    <3>1. /\ pc[c].server \notin {"free", "incoming", "queued"} /\ pc[c].client = "queued"
          /\ pc[c].server = "handshake" => inbox[c].server = <<>>
          /\ losses = 0 /\ stops = 0 => open[c]
      BY <2>2, <2>4, <2>7 DEF QuietOf, Waiting, HandshakeOf
    <3>2. CASE ManagerAccepts(n, c, e)
      <4>1. /\ pc'[c].client = "launch" /\ pc'[c].server = pc[c].server /\ open' = open
            /\ inbox' = inbox
        BY <1>1, <2>7, <3>2 DEF ManagerAccepts, Moves, Sides
      <4> QED
        BY <2>3, <2>5, <3>1, <4>1, QuietFrame DEF QuietOf
    <3>3. CASE ManagerRejects(n, c, e)
      <4>1. pc'[c].client = "done" /\ pc'[c].server = pc[c].server
        BY <1>1, <2>7, <3>3 DEF ManagerRejects, Drops, Moves, Sides
      <4> QED
        BY <2>5, <3>1, <4>1, QuietFrame DEF QuietOf, Waiting
    <3> QED
      BY <2>3, <3>2, <3>3
  <2> QED
    BY <2>6, <2>7 DEF Sides
<1>3. CASE ManagerFails(n)
  <2>1. updates[n] # <<>> /\ Head(updates[n]).type = "new" /\ ~open[Head(updates[n]).conn]
    BY <1>3 DEF ManagerFails
  <2>2. /\ updates[n][1].type = "new" /\ Head(updates[n]) = updates[n][1] /\ 1 \in DOMAIN updates[n]
        /\ updates[n][1].conn \in Conns /\ updates[n][1].side \in Sides
    <3>1. updates[n] \in Seq(Updates)
      BY DEF IInv, TypeOK
    <3>2. Head(updates[n]) = updates[n][1] /\ 1 \in DOMAIN updates[n]
      BY <2>1, <3>1, TailAt
    <3> QED
      BY <2>1, <3>2, UpdateFields DEF IInv
  <2>3. pc[updates[n][1].conn][updates[n][1].side] = "queued"
    BY <2>2 DEF IInv, QueueInv
  <2>4. ~ (losses = 0 /\ stops = 0)
    BY <2>1, <2>2, <2>3 DEF QuietInv, QuietOf, Waiting, Sides
  <2>5. Stopped(n) /\ losses' = losses /\ stops' = stops
    BY <1>3 DEF ManagerFails, Stopped
  <2> QED
    BY <2>4, <2>5, QuietStopped
<1>4. CASE ManagerHandlesGone(n)
  BY <1>4 DEF ManagerHandlesGone, connVars, QuietInv, QuietOf, Waiting, ModulesStayUp
<1> QED
  BY <1>2, <1>3, <1>4 DEF Manager

LEMMA NextQuiet == IInv /\ QuietInv /\ [Next]_vars => QuietInv'
<1> SUFFICES ASSUME IInv, QuietInv, [Next]_vars PROVE QuietInv'
  OBVIOUS
<1>1. ASSUME NEW n \in Nodes, NEW c \in Conns, Dial(n, c) PROVE QuietInv'
  <2>1. /\ pc' = [pc EXCEPT ![c].client = "connecting", ![c].server = "free"]
        /\ inbox' = [inbox EXCEPT ![c] = [e \in Sides |-> <<>>]]
        /\ open' = [open EXCEPT ![c] = TRUE]
        /\ UNCHANGED <<up, losses, stops>>
    BY <1>1 DEF Dial
  <2>2. /\ pc'[c].client = "connecting" /\ pc'[c].server = "free" /\ inbox'[c].server = <<>>
        /\ OnlyAt(c)
    BY <2>1 DEF IInv, TypeOK, Sides, OnlyAt
  <2> QED
    BY <1>1, <2>2, QuietFrame DEF QuietOf, Waiting
<1>2. ASSUME NEW c \in Conns, ConnectionLost(c) PROVE QuietInv'
  <2>1. losses' = losses + 1 /\ losses \in Nat /\ UNCHANGED <<up, pc, inbox, stops>>
    BY <1>2, FaultsAssumption DEF ConnectionLost, IInv, TypeOK
  <2>2. losses' # 0
    BY <2>1
  <2> QED
    BY <2>1, <2>2 DEF QuietInv, QuietOf, ModulesStayUp
<1>3. ASSUME NEW n \in Nodes, Stop(n) PROVE QuietInv'
  <2>1. stops' = stops + 1 /\ stops \in Nat
    BY <1>3, FaultsAssumption DEF Stop, IInv, TypeOK
  <2>2. stops' # 0
    BY <2>1
  <2> QED
    BY <1>3, <2>2, QuietStopped DEF Stop
<1>4. ASSUME NEW n \in Nodes, Restart(n) PROVE QuietInv'
  <2>1. ~ (losses = 0 /\ stops = 0)
    BY <1>4 DEF Restart, QuietInv, ModulesStayUp
  <2> QED
    BY <1>4, <2>1 DEF Restart, connVars, QuietInv, QuietOf, ModulesStayUp
<1>5. CASE UNCHANGED vars
  BY <1>5 DEF vars, connVars, QuietInv, QuietOf, Waiting, ModulesStayUp
<1> QED
  BY <1>1, <1>2, <1>3, <1>4, <1>5, QuietConnection, QuietManager DEF Next

\* No module is brought down by the other's dials, although a failed write of
\* the manager or a failed accept of the listener would be enough
\* (peer_communication.rs 79-182).
THEOREM DialsStopNobody == Spec => []ModulesStayUp
<1>1. Init => IInv /\ QuietInv
  BY InitIInv, InitQuiet
<1>2. IInv /\ QuietInv /\ [Next]_vars => (IInv /\ QuietInv)'
  BY NextIInv, NextQuiet
<1>3. IInv /\ QuietInv => ModulesStayUp
  BY DEF QuietInv
<1> QED
  BY <1>1, <1>2, <1>3, PTL DEF Spec
=============================================================================

------------------------- MODULE KeyDeliveryProofs -------------------------
(***************************************************************************)
(* Proofs about KeyDelivery, for any number of keys, sessions, lost        *)
(* connections and places in a channel.                                    *)
(***************************************************************************)
EXTENDS KeyDelivery, FiniteSetTheorems, TLAPS

-----------------------------------------------------------------------------
(* Queues.                                                                 *)

Has(q, x) == \E i \in DOMAIN q : q[i] = x

LEMMA EmptyQueue == IsInjective(<<>>) /\ \A x : ~ Has(<<>>, x)
BY DEF IsInjective, Has

LEMMA AppendQueue ==
  ASSUME NEW S, NEW q \in Seq(S), NEW x \in S
  PROVE  /\ Append(q, x) \in Seq(S) /\ Len(Append(q, x)) = Len(q) + 1
         /\ \A y : Has(Append(q, x), y) <=> Has(q, y) \/ y = x
         /\ IsInjective(q) /\ ~ Has(q, x) => IsInjective(Append(q, x))
<1>1. /\ Append(q, x) \in Seq(S)
      /\ DOMAIN Append(q, x) = 1..Len(q) + 1 /\ DOMAIN q = 1..Len(q)
      /\ Len(Append(q, x)) = Len(q) + 1 /\ Len(q) \in Nat
      /\ \A i \in 1..Len(q) : Append(q, x)[i] = q[i]
      /\ Append(q, x)[Len(q) + 1] = x
  OBVIOUS
<1>2. \A i \in 1..Len(q) + 1 : i \in 1..Len(q) \/ i = Len(q) + 1
  BY <1>1
<1>3. \A y : Has(Append(q, x), y) <=> Has(q, y) \/ y = x
  BY <1>1, <1>2 DEF Has
<1>4. IsInjective(q) /\ ~ Has(q, x) => IsInjective(Append(q, x))
  BY <1>1, <1>2 DEF Has, IsInjective
<1> QED
  BY <1>1, <1>3, <1>4

LEMMA TailQueue ==
  ASSUME NEW S, NEW q \in Seq(S), q # <<>>
  PROVE  /\ Tail(q) \in Seq(S) /\ Head(q) \in S /\ Has(q, Head(q)) /\ Len(Tail(q)) = Len(q) - 1
         /\ \A y : Has(Tail(q), y) => Has(q, y)
         /\ IsInjective(q) => IsInjective(Tail(q)) /\ ~ Has(Tail(q), Head(q))
<1>1. /\ Tail(q) \in Seq(S) /\ Head(q) \in S /\ Head(q) = q[1] /\ Len(Tail(q)) = Len(q) - 1
      /\ 1 \in DOMAIN q
      /\ \A i \in DOMAIN Tail(q) : /\ i \in Nat /\ i + 1 \in DOMAIN q /\ i + 1 # 1
                                   /\ Tail(q)[i] = q[i + 1]
  OBVIOUS
<1>2. \A i, j \in DOMAIN Tail(q) : i + 1 = j + 1 => i = j
  BY <1>1
<1> QED
  BY <1>1, <1>2 DEF Has, IsInjective

LEMMA PrefixQueue ==
  ASSUME NEW S, NEW q \in Seq(S), NEW i \in 0..Len(q)
  PROVE  /\ SubSeq(q, 1, i) \in Seq(S)
         /\ \A y : Has(SubSeq(q, 1, i), y) => Has(q, y)
         /\ IsInjective(q) => IsInjective(SubSeq(q, 1, i))
<1>1. /\ SubSeq(q, 1, i) \in Seq(S)
      /\ \A j \in DOMAIN SubSeq(q, 1, i) : j \in DOMAIN q /\ SubSeq(q, 1, i)[j] = q[j]
  OBVIOUS
<1> QED
  BY <1>1 DEF Has, IsInjective

-----------------------------------------------------------------------------
(* The inductive invariant.                                                *)

\* Where node n's copy of key k is: still at the device, on a connection, in
\* the manager's inbox or hand, in a session's channel, or in a session.
At(n, k, place, i) ==
  \/ place = "device" /\ i = 0 /\ k = made /\ Has(toSend, n)
  \/ place = "wire" /\ i \in Links /\ Has(wire[n][i], k)
  \/ place = "inbox" /\ i = 0 /\ Has(inbox[n], k)
  \/ place = "hand" /\ i = 0 /\ holding[n] = k
  \/ place = "queue" /\ i \in Sessions /\ Has(queue[n][i], k)
  \/ place = "session" /\ i \in Sessions /\ Taken(n, i, k)

\* A copy of a key is in one place, once, and only if the key was made.
OnePlace ==
  \A n \in Nodes, k \in Keys : \A p, i, q, j :
    At(n, k, p, i) /\ At(n, k, q, j) => p = q /\ i = j
OnlyMade == \A n \in Nodes, k \in Keys : \A p, i : At(n, k, p, i) => k <= made
Distinct ==
  /\ IsInjective(toSend)
  /\ \A n \in Nodes : /\ \A c \in Links : IsInjective(wire[n][c])
                      /\ IsInjective(inbox[n])
                      /\ \A s \in Sessions : IsInjective(queue[n][s])

\* A request is under way or answered only if its key was registered, and
\* not both.
Requests ==
  \A s \in Sessions :
    /\ IsInjective(streams[s])
    /\ \A k \in Keys :
         /\ Has(streams[s], k) => ltask[s][k] = "registered" /\ ftask[s][k] = "none"
         /\ ftask[s][k] # "none" => ltask[s][k] = "registered"

\* There is a key to send, and a connection for every one that was lost.
DeviceInv ==
  /\ toSend # <<>> => made > 0
  /\ \A n \in Nodes : link[n] + (IF linked[n] THEN 0 ELSE 1) <= cuts + 1

\* A session takes in nothing before it begins.
Unbegun ==
  \A s \in Sessions : s > begun =>
    /\ \A n \in Nodes : ~ reading[n][s]
    /\ deposited[s] = {} /\ \A k \in Keys : ltask[s][k] = "none"

IInv == TypeOK /\ OnePlace /\ OnlyMade /\ Distinct /\ Requests /\ DeviceInv /\ Unbegun

LEMMA FollowerIsOther ==
  ASSUME leader \in [Sessions -> Nodes], NEW s \in Sessions
  PROVE  /\ Follower(s) \in Nodes /\ Follower(s) # leader[s]
         /\ \A n \in Nodes : n = leader[s] \/ n = Follower(s)
<1> DEFINE l == leader[s]
<1>1. l \in Nodes
  OBVIOUS
<1>2. IsFiniteSet(Nodes \ {l}) /\ Cardinality(Nodes \ {l}) = 1
  BY <1>1, NodesAssumption, FS_RemoveElement
<1>3. PICK m : Nodes \ {l} = {m}
  BY <1>2, FS_Singleton
<1>4. m \in Nodes /\ m # l /\ \A n \in Nodes : n # l => n = m
  BY <1>3
<1>5. Follower(s) = m
  BY <1>4 DEF Follower
<1> QED
  BY <1>4, <1>5

\* The invariant implies what the runs check.
LEMMA IInvUsedOnce == IInv => UsedOnce
<1> SUFFICES ASSUME IInv, NEW n \in Nodes, NEW k \in Keys,
                    NEW s \in Holders(n, k), NEW t \in Holders(n, k)
             PROVE  s = t
  BY DEF UsedOnce
<1>1. \A r \in Holders(n, k) : At(n, k, "queue", r) \/ At(n, k, "session", r)
  BY DEF Holders, At, Has, Taken
<1> QED
  BY <1>1 DEF IInv, OnePlace

LEMMA IInvNoneTwice == IInv => NoneTwice
<1> SUFFICES ASSUME IInv, NEW s \in Sessions
             PROVE  /\ \A i \in DOMAIN queue[Follower(s)][s] :
                         queue[Follower(s)][s][i] \notin deposited[s]
                    /\ \A i \in DOMAIN streams[s] : ~Requested(s, streams[s][i])
                    /\ IsInjective(streams[s])
                    /\ \A n \in Nodes : IsInjective(queue[n][s])
  BY DEF NoneTwice
<1>1. /\ Follower(s) \in Nodes /\ Follower(s) # leader[s]
  BY FollowerIsOther DEF IInv, TypeOK
<1>2. ASSUME NEW i \in DOMAIN queue[Follower(s)][s],
             queue[Follower(s)][s][i] \in deposited[s]
      PROVE  FALSE
  <2> DEFINE k == queue[Follower(s)][s][i]
  <2>1. k \in Keys
    BY <1>1, <1>2 DEF IInv, TypeOK
  <2>2. At(Follower(s), k, "queue", s) /\ At(Follower(s), k, "session", s)
    BY <1>1, <1>2 DEF At, Has, Taken
  <2> QED
    BY <1>1, <2>1, <2>2 DEF IInv, OnePlace
<1>3. ASSUME NEW i \in DOMAIN streams[s] PROVE ~ Requested(s, streams[s][i])
  <2>1. streams[s][i] \in Keys
    BY <1>3 DEF IInv, TypeOK
  <2> QED
    BY <1>3, <2>1 DEF IInv, Requests, Requested, Has
<1> QED
  BY <1>2, <1>3 DEF IInv, Requests, Distinct

-----------------------------------------------------------------------------
(* How copies move.                                                        *)

\* Copies stay where they are or are dropped, but for one that may arrive.
OnlyArrival(n, k, q, j) ==
  \A m \in Nodes, x \in Keys : \A r, l :
    At(m, x, r, l)' => At(m, x, r, l) \/ (m = n /\ x = k /\ r = q /\ l = j)

\* It has left where it was.
LEMMA CopyMoves ==
  ASSUME OnePlace, OnlyMade, made' = made,
         NEW n \in Nodes, NEW k \in Keys, NEW p, NEW i, NEW q, NEW j,
         At(n, k, p, i), ~ At(n, k, p, i)', OnlyArrival(n, k, q, j)
  PROVE  OnePlace' /\ OnlyMade'
<1>1. ASSUME NEW m \in Nodes, NEW x \in Keys, NEW r, NEW l, NEW t, NEW h,
             At(m, x, r, l)', At(m, x, t, h)'
      PROVE  r = t /\ l = h
  BY <1>1 DEF OnePlace, OnlyArrival
<1>2. ASSUME NEW m \in Nodes, NEW x \in Keys, NEW r, NEW l, At(m, x, r, l)'
      PROVE  x <= made'
  BY <1>2 DEF OnlyMade, OnlyArrival
<1> QED
  BY <1>1, <1>2 DEF OnePlace, OnlyMade

LEMMA CopiesStay ==
  ASSUME OnePlace, OnlyMade, made' = made,
         \A m \in Nodes, x \in Keys : \A r, l : At(m, x, r, l)' => At(m, x, r, l)
  PROVE  OnePlace' /\ OnlyMade'
<1>1. ASSUME NEW m \in Nodes, NEW x \in Keys, NEW r, NEW l, NEW t, NEW h,
             At(m, x, r, l)', At(m, x, t, h)'
      PROVE  r = t /\ l = h
  BY <1>1 DEF OnePlace
<1>2. ASSUME NEW m \in Nodes, NEW x \in Keys, NEW r, NEW l, At(m, x, r, l)'
      PROVE  x <= made'
  BY <1>2 DEF OnlyMade
<1> QED
  BY <1>1, <1>2 DEF OnePlace, OnlyMade

LEMMA InitIInv == Init => IInv
<1> SUFFICES ASSUME Init PROVE IInv
  OBVIOUS
<1>1. TypeOK
  BY BoundsAssumption, FollowerIsOther DEF Init, QkdInit, TypeOK, Keys, Sessions, Links
<1>2. \A n \in Nodes, k \in Keys : \A p, i : ~ At(n, k, p, i)
  BY EmptyQueue DEF Init, QkdInit, At, Taken, Keys
<1>3. Distinct /\ Requests
  BY EmptyQueue DEF Init, QkdInit, Distinct, Requests
<1>4. DeviceInv /\ Unbegun
  BY DEF Init, QkdInit, DeviceInv, Unbegun
<1> QED
  BY <1>1, <1>2, <1>3, <1>4 DEF IInv, OnePlace, OnlyMade

-----------------------------------------------------------------------------
(* The steps of the device.                                                *)

LEMMA MakeKeyIInv == IInv /\ MakeKey /\ UNCHANGED Others => IInv'
<1> SUFFICES ASSUME IInv, MakeKey, UNCHANGED Others PROVE IInv'
  OBVIOUS
<1>1. /\ toSend = <<>> /\ made < MaxKeys /\ made' = made + 1
      /\ UNCHANGED <<link, linked, cuts, wire, inbox, channel, holding, queue, reading>>
      /\ UNCHANGED <<begun, alive, leader, ltask, streams, deposited, ftask>>
  BY DEF MakeKey, managerVars, Others, sessionVars, followerVars
<1>2. toSend' \in Seq(Nodes) /\ IsInjective(toSend')
  <2>1. toSend' \in [1..2 -> Nodes] /\ \A i, j \in 1..2 : i # j => toSend'[i] # toSend'[j]
    BY NodesAssumption DEF MakeKey, SetToSeqs
  <2> QED
    BY <2>1 DEF IsInjective
<1>3. made \in Nat /\ made' \in 0..MaxKeys /\ made' > 0
  BY <1>1, BoundsAssumption DEF IInv, TypeOK
<1>4. TypeOK'
  BY <1>1, <1>2, <1>3 DEF IInv, TypeOK
<1>5. \A m \in Nodes, x \in Keys : \A r, l :
        At(m, x, r, l)' => At(m, x, r, l) \/ (x = made + 1 /\ r = "device" /\ l = 0)
  BY <1>1 DEF At, Taken
<1>6. OnePlace'
  <2>1. ASSUME NEW m \in Nodes, NEW x \in Keys, NEW r, NEW l, NEW t, NEW h,
               At(m, x, r, l)', At(m, x, t, h)'
        PROVE  r = t /\ l = h
    <3>1. \A p, i : ~ At(m, made + 1, p, i) \/ made + 1 \notin Keys
      BY <1>3 DEF IInv, OnlyMade
    <3> QED
      BY <1>5, <2>1, <3>1 DEF IInv, OnePlace
  <2> QED
    BY <2>1 DEF OnePlace
<1>7. OnlyMade'
  <2>1. ASSUME NEW m \in Nodes, NEW x \in Keys, NEW r, NEW l, At(m, x, r, l)'
        PROVE  x <= made'
    <3>1. At(m, x, r, l) \/ x = made + 1
      BY <1>5, <2>1
    <3>2. At(m, x, r, l) => x <= made
      BY DEF IInv, OnlyMade
    <3> QED
      BY <1>1, <1>3, <3>1, <3>2 DEF Keys
  <2> QED
    BY <2>1 DEF OnlyMade
<1>8. Distinct' /\ Requests' /\ DeviceInv' /\ Unbegun'
  BY <1>1, <1>2, <1>3 DEF IInv, Distinct, Requests, DeviceInv, Unbegun
<1> QED
  BY <1>4, <1>6, <1>7, <1>8 DEF IInv

LEMMA SendKeyIInv ==
  ASSUME IInv, NEW n \in Nodes, SendKey(n), UNCHANGED Others
  PROVE  IInv'
<1>1. /\ toSend # <<>> /\ n = Head(toSend) /\ toSend' = Tail(toSend)
      /\ UNCHANGED <<made, link, linked, cuts, inbox, channel, holding, queue, reading>>
      /\ UNCHANGED <<begun, alive, leader, ltask, streams, deposited, ftask>>
  BY DEF SendKey, managerVars, Others, sessionVars, followerVars
<1>2. toSend \in Seq(Nodes) /\ made \in Keys /\ link[n] \in Links
  BY <1>1, BoundsAssumption DEF IInv, TypeOK, DeviceInv, Keys
<1>3. /\ toSend' \in Seq(Nodes) /\ IsInjective(toSend') /\ ~ Has(toSend', n)
      /\ Has(toSend, n) /\ \A y : Has(toSend', y) => Has(toSend, y)
  BY <1>1, <1>2, TailQueue DEF IInv, Distinct
<1>4. At(n, made, "device", 0)
  BY <1>3 DEF At
<1>5. \A i \in Links : ~ Has(wire[n][i], made)
  BY <1>2, <1>4 DEF IInv, OnePlace, At
<1> DEFINE w == wire[n][link[n]]
<1>6. /\ wire \in [Nodes -> [Links -> Seq(Keys)]]
      /\ w \in Seq(Keys) /\ Append(w, made) \in Seq(Keys)
      /\ \A y : Has(Append(w, made), y) <=> Has(w, y) \/ y = made
      /\ IsInjective(Append(w, made))
  BY <1>2, <1>5, AppendQueue DEF IInv, TypeOK, Distinct
<1>7. \A m \in Nodes, c \in Links :
        /\ wire'[m][c] \in {wire[m][c], IF m = n /\ c = link[n] THEN Append(w, made) ELSE wire[m][c]}
  BY <1>6, <1>2 DEF SendKey
<1>8. wire' \in [Nodes -> [Links -> Seq(Keys)]]
  BY <1>6, <1>2 DEF SendKey
<1>9. TypeOK'
  BY <1>1, <1>3, <1>8 DEF IInv, TypeOK
<1>10. OnePlace' /\ OnlyMade'
  <2>1. PICK k \in Keys, j \in Links : k = made /\ j = link[n]
    BY <1>2
  <2>2. \A m \in Nodes, c \in Links, x \in Keys :
          Has(wire'[m][c], x) => Has(wire[m][c], x) \/ (m = n /\ x = k /\ c = j)
    BY <1>6, <1>7, <2>1
  <2>3. OnlyArrival(n, k, "wire", j)
    BY <1>1, <1>3, <2>2 DEF OnlyArrival, At, Taken
  <2>4. At(n, k, "device", 0) /\ ~ At(n, k, "device", 0)'
    BY <1>1, <1>3, <2>1 DEF At
  <2>5. OnePlace /\ OnlyMade /\ made' = made
    BY <1>1 DEF IInv
  <2> QED
    BY <2>3, <2>4, <2>5, CopyMoves
<1>11. Distinct'
  BY <1>1, <1>3, <1>6, <1>7 DEF IInv, Distinct
<1>12. Requests' /\ DeviceInv' /\ Unbegun'
  BY <1>1, <1>2 DEF IInv, Requests, DeviceInv, Unbegun, Keys
<1> QED
  BY <1>9, <1>10, <1>11, <1>12 DEF IInv

LEMMA ReconnectIInv ==
  ASSUME IInv, NEW n \in Nodes, Reconnect(n), UNCHANGED Others
  PROVE  IInv'
<1>1. /\ ~ linked[n] /\ link' = [link EXCEPT ![n] = link[n] + 1]
      /\ linked' = [linked EXCEPT ![n] = TRUE]
      /\ UNCHANGED <<made, toSend, cuts, wire, inbox, channel, holding, queue, reading>>
      /\ UNCHANGED <<begun, alive, leader, ltask, streams, deposited, ftask>>
  BY DEF Reconnect, managerVars, Others, sessionVars, followerVars
<1>2. /\ link \in [Nodes -> Links] /\ linked \in [Nodes -> BOOLEAN] /\ cuts \in 0..MaxCuts
      /\ link[n] + 1 <= cuts + 1
  BY <1>1 DEF IInv, TypeOK, DeviceInv
<1>3. link[n] + 1 \in Links
  BY <1>2, BoundsAssumption DEF Links
<1>4. TypeOK'
  BY <1>1, <1>2, <1>3 DEF IInv, TypeOK
<1>5. DeviceInv'
  BY <1>1, <1>2 DEF IInv, DeviceInv, Links
<1>6. \A m \in Nodes, x \in Keys : \A r, l : At(m, x, r, l)' => At(m, x, r, l)
  BY <1>1 DEF At, Taken
<1>7. Distinct' /\ Requests' /\ Unbegun'
  BY <1>1 DEF IInv, Distinct, Requests, Unbegun
<1> QED
  BY <1>1, <1>4, <1>5, <1>6, <1>7, CopiesStay DEF IInv

LEMMA CutIInv ==
  ASSUME IInv, NEW n \in Nodes, Cut(n), UNCHANGED Others
  PROVE  IInv'
<1>1. /\ linked[n] /\ cuts < MaxCuts /\ cuts' = cuts + 1
      /\ linked' = [linked EXCEPT ![n] = FALSE]
      /\ UNCHANGED <<made, toSend, link, inbox, channel, holding, queue, reading>>
      /\ UNCHANGED <<begun, alive, leader, ltask, streams, deposited, ftask>>
  BY DEF Cut, managerVars, Others, sessionVars, followerVars
<1> DEFINE w == wire[n][link[n]]
<1>2. PICK i \in 0..Len(w) : wire' = [wire EXCEPT ![n][link[n]] = SubSeq(w, 1, i)]
  BY DEF Cut, IInv, TypeOK
<1>3. /\ wire \in [Nodes -> [Links -> Seq(Keys)]] /\ link[n] \in Links
      /\ linked \in [Nodes -> BOOLEAN] /\ cuts \in 0..MaxCuts /\ link \in [Nodes -> Links]
  BY DEF IInv, TypeOK
<1>4. /\ w \in Seq(Keys) /\ SubSeq(w, 1, i) \in Seq(Keys)
      /\ \A y : Has(SubSeq(w, 1, i), y) => Has(w, y)
      /\ IsInjective(SubSeq(w, 1, i))
  BY <1>3, PrefixQueue DEF IInv, Distinct
<1>5. \A m \in Nodes, c \in Links :
        wire'[m][c] = IF m = n /\ c = link[n] THEN SubSeq(w, 1, i) ELSE wire[m][c]
  BY <1>2, <1>3
<1>6. wire' \in [Nodes -> [Links -> Seq(Keys)]]
  BY <1>2, <1>3, <1>4
<1>7. cuts' \in 0..MaxCuts
  BY <1>1, <1>3, BoundsAssumption
<1>8. TypeOK'
  BY <1>1, <1>3, <1>6, <1>7 DEF IInv, TypeOK
<1>9. DeviceInv'
  BY <1>1, <1>3 DEF IInv, DeviceInv, Links
<1>10. \A m \in Nodes, x \in Keys : \A r, l : At(m, x, r, l)' => At(m, x, r, l)
  BY <1>1, <1>4, <1>5 DEF At, Taken
<1>11. Distinct' /\ Requests' /\ Unbegun'
  BY <1>1, <1>4, <1>5 DEF IInv, Distinct, Requests, Unbegun
<1> QED
  BY <1>1, <1>8, <1>9, <1>10, <1>11, CopiesStay DEF IInv

-----------------------------------------------------------------------------
(* The steps of handle_qkd and qkd_manager.                                *)

LEMMA ReadKeyIInv ==
  ASSUME IInv, NEW n \in Nodes, NEW c \in Links, ReadKey(n, c), UNCHANGED Others
  PROVE  IInv'
<1>1. /\ wire[n][c] # <<>>
      /\ inbox' = [inbox EXCEPT ![n] = Append(inbox[n], Head(wire[n][c]))]
      /\ wire' = [wire EXCEPT ![n][c] = Tail(wire[n][c])]
      /\ UNCHANGED <<made, toSend, link, linked, cuts, channel, holding, queue, reading>>
      /\ UNCHANGED <<begun, alive, leader, ltask, streams, deposited, ftask>>
  BY DEF ReadKey, IInv, TypeOK, emulatorVars, Others, sessionVars, followerVars
<1>2. /\ wire \in [Nodes -> [Links -> Seq(Keys)]] /\ inbox \in [Nodes -> Seq(Keys)]
      /\ IsInjective(wire[n][c]) /\ IsInjective(inbox[n])
  BY DEF IInv, TypeOK, Distinct
<1>3. /\ Tail(wire[n][c]) \in Seq(Keys) /\ Head(wire[n][c]) \in Keys
      /\ Has(wire[n][c], Head(wire[n][c])) /\ ~ Has(Tail(wire[n][c]), Head(wire[n][c]))
      /\ \A y : Has(Tail(wire[n][c]), y) => Has(wire[n][c], y)
      /\ IsInjective(Tail(wire[n][c]))
  BY <1>1, <1>2, TailQueue
<1>4. PICK k \in Keys : k = Head(wire[n][c])
  BY <1>3
<1>5. At(n, k, "wire", c)
  BY <1>3, <1>4 DEF At
<1>6. ~ Has(inbox[n], k)
  BY <1>5 DEF IInv, OnePlace, At
<1>7. /\ Append(inbox[n], k) \in Seq(Keys)
      /\ \A y : Has(Append(inbox[n], k), y) <=> Has(inbox[n], y) \/ y = k
      /\ IsInjective(Append(inbox[n], k))
  BY <1>2, <1>6, AppendQueue
<1>8. /\ \A m \in Nodes, d \in Links :
           wire'[m][d] = IF m = n /\ d = c THEN Tail(wire[n][c]) ELSE wire[m][d]
      /\ \A m \in Nodes : inbox'[m] = IF m = n THEN Append(inbox[n], k) ELSE inbox[m]
      /\ wire' \in [Nodes -> [Links -> Seq(Keys)]] /\ inbox' \in [Nodes -> Seq(Keys)]
  BY <1>1, <1>2, <1>3, <1>4, <1>7
<1>9. TypeOK'
  BY <1>1, <1>8 DEF IInv, TypeOK
<1>10. OnePlace' /\ OnlyMade'
  <2>1. OnlyArrival(n, k, "inbox", 0)
    BY <1>1, <1>3, <1>7, <1>8 DEF OnlyArrival, At, Taken
  <2>2. ~ At(n, k, "wire", c)'
    BY <1>3, <1>4, <1>8 DEF At
  <2>3. OnePlace /\ OnlyMade /\ made' = made
    BY <1>1 DEF IInv
  <2> QED
    BY <1>5, <2>1, <2>2, <2>3, CopyMoves
<1>11. Distinct'
  BY <1>1, <1>3, <1>7, <1>8 DEF IInv, Distinct
<1>12. Requests' /\ DeviceInv' /\ Unbegun'
  BY <1>1 DEF IInv, Requests, DeviceInv, Unbegun
<1> QED
  BY <1>9, <1>10, <1>11, <1>12 DEF IInv

LEMMA HandlerEndsIInv ==
  ASSUME IInv, NEW n \in Nodes, NEW c \in Links, HandlerEnds(n, c), UNCHANGED Others
  PROVE  IInv'
<1>1. /\ wire' = [wire EXCEPT ![n][c] = <<>>]
      /\ UNCHANGED <<made, toSend, link, linked, cuts, inbox, channel, holding, queue, reading>>
      /\ UNCHANGED <<begun, alive, leader, ltask, streams, deposited, ftask>>
  BY DEF HandlerEnds, emulatorVars, managerVars, Others, sessionVars, followerVars
<1>2. wire \in [Nodes -> [Links -> Seq(Keys)]] /\ <<>> \in Seq(Keys)
  BY DEF IInv, TypeOK
<1>3. /\ \A m \in Nodes, d \in Links :
           wire'[m][d] = IF m = n /\ d = c THEN <<>> ELSE wire[m][d]
      /\ wire' \in [Nodes -> [Links -> Seq(Keys)]]
  BY <1>1, <1>2
<1>4. TypeOK'
  BY <1>1, <1>3 DEF IInv, TypeOK
<1>5. \A m \in Nodes, x \in Keys : \A r, l : At(m, x, r, l)' => At(m, x, r, l)
  BY <1>1, <1>3, EmptyQueue DEF At, Taken
<1>6. Distinct' /\ Requests' /\ DeviceInv' /\ Unbegun'
  BY <1>1, <1>3, EmptyQueue DEF IInv, Distinct, Requests, DeviceInv, Unbegun
<1> QED
  BY <1>1, <1>4, <1>5, <1>6, CopiesStay DEF IInv

\* A manager's inbox and hand only lose.
ManagersLose ==
  \A m \in Nodes : /\ \A x : Has(inbox'[m], x) => Has(inbox[m], x)
                   /\ holding'[m] \in {holding[m], 0}
                   /\ IsInjective(inbox'[m])

\* A key enters the channel of the registered session, from where it was.
LEMMA DeliverIInv ==
  ASSUME IInv, NEW n \in Nodes, NEW k \in Keys, NEW p,
         Open(n), Room(n), Deliver(n, k), TypeOK',
         At(n, k, p, 0), ~ At(n, k, p, 0)', p # "queue", ManagersLose,
         UNCHANGED <<emulatorVars, wire, channel, reading>>, UNCHANGED Others
  PROVE  IInv'
<1>1. /\ UNCHANGED <<made, toSend, link, linked, cuts, wire, channel, reading>>
      /\ UNCHANGED <<begun, alive, leader, ltask, streams, deposited, ftask>>
  BY DEF emulatorVars, Others, sessionVars, followerVars
<1>2. PICK s \in Sessions : s = channel[n]
  BY BoundsAssumption DEF IInv, TypeOK, Open, Sessions
<1>3. /\ queue \in [Nodes -> [Sessions -> Seq(Keys)]]
      /\ queue' = [queue EXCEPT ![n][s] = Append(queue[n][s], k)]
  BY <1>2 DEF IInv, TypeOK, Deliver
<1>4. ~ Has(queue[n][s], k)
  BY DEF IInv, OnePlace, At
<1>5. /\ \A y : Has(Append(queue[n][s], k), y) <=> Has(queue[n][s], y) \/ y = k
      /\ IsInjective(Append(queue[n][s], k))
  BY <1>3, <1>4, AppendQueue DEF IInv, Distinct
<1>6. \A m \in Nodes, t \in Sessions :
        queue'[m][t] = IF m = n /\ t = s THEN Append(queue[n][s], k) ELSE queue[m][t]
  BY <1>3
<1>7. OnePlace' /\ OnlyMade'
  <2>1. OnlyArrival(n, k, "queue", s)
    BY <1>1, <1>5, <1>6 DEF OnlyArrival, ManagersLose, At, Taken, Keys
  <2>2. OnePlace /\ OnlyMade /\ made' = made
    BY <1>1 DEF IInv
  <2> QED
    BY <2>1, <2>2, CopyMoves
<1>8. Distinct'
  BY <1>1, <1>5, <1>6 DEF IInv, Distinct, ManagersLose
<1>9. Requests' /\ DeviceInv' /\ Unbegun'
  BY <1>1 DEF IInv, Requests, DeviceInv, Unbegun
<1> QED
  BY <1>7, <1>8, <1>9 DEF IInv

LEMMA TakeKeyIInv ==
  ASSUME IInv, NEW n \in Nodes, TakeKey(n), UNCHANGED Others
  PROVE  IInv'
<1>1. /\ holding[n] = 0 /\ inbox[n] # <<>> /\ inbox' = [inbox EXCEPT ![n] = Tail(inbox[n])]
      /\ UNCHANGED <<made, toSend, link, linked, cuts, wire, channel, reading>>
      /\ UNCHANGED <<begun, alive, leader, ltask, streams, deposited, ftask>>
  BY DEF TakeKey, emulatorVars, IInv, TypeOK, Others, sessionVars, followerVars
<1>2. /\ inbox \in [Nodes -> Seq(Keys)] /\ IsInjective(inbox[n])
      /\ holding \in [Nodes -> 0..MaxKeys]
  BY DEF IInv, TypeOK, Distinct
<1>3. /\ Tail(inbox[n]) \in Seq(Keys) /\ Head(inbox[n]) \in Keys
      /\ Has(inbox[n], Head(inbox[n])) /\ ~ Has(Tail(inbox[n]), Head(inbox[n]))
      /\ \A y : Has(Tail(inbox[n]), y) => Has(inbox[n], y)
      /\ IsInjective(Tail(inbox[n]))
  BY <1>1, <1>2, TailQueue
<1>4. PICK k \in Keys : k = Head(inbox[n])
  BY <1>3
<1>5. /\ \A m \in Nodes : inbox'[m] = IF m = n THEN Tail(inbox[n]) ELSE inbox[m]
      /\ inbox' \in [Nodes -> Seq(Keys)]
      /\ \A m \in Nodes : /\ \A x : Has(inbox'[m], x) => Has(inbox[m], x)
                          /\ IsInjective(inbox'[m])
  BY <1>1, <1>2, <1>3 DEF IInv, Distinct
<1>6. At(n, k, "inbox", 0) /\ ~ At(n, k, "inbox", 0)'
  BY <1>3, <1>4, <1>5 DEF At
<1>7. CASE ~Open(n) /\ UNCHANGED <<queue, holding>>
  <2>1. TypeOK'
    BY <1>1, <1>5, <1>7 DEF IInv, TypeOK
  <2>2. \A m \in Nodes, x \in Keys : \A r, l : At(m, x, r, l)' => At(m, x, r, l)
    BY <1>1, <1>5, <1>7 DEF At, Taken
  <2>3. Distinct' /\ Requests' /\ DeviceInv' /\ Unbegun'
    BY <1>1, <1>5, <1>7 DEF IInv, Distinct, Requests, DeviceInv, Unbegun
  <2> QED
    BY <1>1, <2>1, <2>2, <2>3, CopiesStay DEF IInv
<1>8. CASE Open(n) /\ Room(n) /\ Deliver(n, k) /\ UNCHANGED holding
  <2>1. TypeOK'
    <3>1. PICK s \in Sessions : s = channel[n]
      BY <1>8, BoundsAssumption DEF IInv, TypeOK, Open, Sessions
    <3>2. /\ queue \in [Nodes -> [Sessions -> Seq(Keys)]]
          /\ queue' = [queue EXCEPT ![n][s] = Append(queue[n][s], k)]
          /\ \A m \in Nodes, t \in Sessions : Len(queue[m][t]) <= Capacity
          /\ Len(queue[n][s]) < Capacity
      BY <1>8, <3>1 DEF IInv, TypeOK, Deliver, Room
    <3>3. Append(queue[n][s], k) \in Seq(Keys) /\ Len(Append(queue[n][s], k)) <= Capacity
      BY <3>2, BoundsAssumption
    <3>4. /\ queue' \in [Nodes -> [Sessions -> Seq(Keys)]]
          /\ \A m \in Nodes, t \in Sessions : Len(queue'[m][t]) <= Capacity
      BY <3>2, <3>3
    <3> QED
      BY <1>1, <1>5, <1>8, <3>4 DEF IInv, TypeOK
  <2>2. ManagersLose
    BY <1>5, <1>8 DEF ManagersLose
  <2>3. UNCHANGED <<emulatorVars, wire, channel, reading>>
    BY <1>1 DEF emulatorVars
  <2> QED
    BY <1>6, <1>8, <2>1, <2>2, <2>3, DeliverIInv
<1>9. CASE Open(n) /\ ~Room(n) /\ holding' = [holding EXCEPT ![n] = k] /\ UNCHANGED queue
  <2>1. TypeOK'
    <3>1. k \in 0..MaxKeys
      BY BoundsAssumption DEF Keys
    <3>2. holding' \in [Nodes -> 0..MaxKeys]
      BY <1>2, <1>9, <3>1
    <3> QED
      BY <1>1, <1>5, <1>9, <3>2 DEF IInv, TypeOK
  <2>2. OnlyArrival(n, k, "hand", 0)
    BY <1>1, <1>2, <1>5, <1>9 DEF OnlyArrival, At, Taken
  <2>3. OnePlace /\ OnlyMade /\ made' = made
    BY <1>1 DEF IInv
  <2>4. OnePlace' /\ OnlyMade'
    BY <1>6, <2>2, <2>3, CopyMoves
  <2>5. Distinct' /\ Requests' /\ DeviceInv' /\ Unbegun'
    BY <1>1, <1>5, <1>9 DEF IInv, Distinct, Requests, DeviceInv, Unbegun
  <2> QED
    BY <2>1, <2>4, <2>5 DEF IInv
<1> QED
  BY <1>4, <1>7, <1>8, <1>9 DEF TakeKey

LEMMA SendResumesIInv ==
  ASSUME IInv, NEW n \in Nodes, SendResumes(n), UNCHANGED Others
  PROVE  IInv'
<1>1. /\ holding[n] # 0 /\ holding' = [holding EXCEPT ![n] = 0]
      /\ UNCHANGED <<made, toSend, link, linked, cuts, wire, inbox, channel, reading>>
      /\ UNCHANGED <<begun, alive, leader, ltask, streams, deposited, ftask>>
  BY DEF SendResumes, emulatorVars, Others, sessionVars, followerVars
<1>2. holding \in [Nodes -> 0..MaxKeys]
  BY DEF IInv, TypeOK
<1>3. PICK k \in Keys : k = holding[n]
  BY <1>1, <1>2, BoundsAssumption DEF Keys
<1>4. /\ \A m \in Nodes : holding'[m] = IF m = n THEN 0 ELSE holding[m]
      /\ holding' \in [Nodes -> 0..MaxKeys]
  BY <1>1, <1>2, BoundsAssumption
<1>5. At(n, k, "hand", 0) /\ ~ At(n, k, "hand", 0)'
  <2>1. k # 0
    BY <1>1, <1>3
  <2> QED
    BY <1>3, <1>4, <2>1 DEF At
<1>6. CASE ~Open(n) /\ UNCHANGED queue
  <2>1. TypeOK'
    BY <1>1, <1>4, <1>6 DEF IInv, TypeOK
  <2>2. \A m \in Nodes, x \in Keys : \A r, l : At(m, x, r, l)' => At(m, x, r, l)
    BY <1>1, <1>4, <1>6 DEF At, Taken, Keys
  <2>3. Distinct' /\ Requests' /\ DeviceInv' /\ Unbegun'
    BY <1>1, <1>6 DEF IInv, Distinct, Requests, DeviceInv, Unbegun
  <2> QED
    BY <1>1, <2>1, <2>2, <2>3, CopiesStay DEF IInv
<1>7. CASE Open(n) /\ Room(n) /\ Deliver(n, k)
  <2>1. TypeOK'
    <3>1. PICK s \in Sessions : s = channel[n]
      BY <1>7, BoundsAssumption DEF IInv, TypeOK, Open, Sessions
    <3>2. /\ queue \in [Nodes -> [Sessions -> Seq(Keys)]]
          /\ queue' = [queue EXCEPT ![n][s] = Append(queue[n][s], k)]
          /\ \A m \in Nodes, t \in Sessions : Len(queue[m][t]) <= Capacity
          /\ Len(queue[n][s]) < Capacity
      BY <1>7, <3>1 DEF IInv, TypeOK, Deliver, Room
    <3>3. Append(queue[n][s], k) \in Seq(Keys) /\ Len(Append(queue[n][s], k)) <= Capacity
      BY <3>2, BoundsAssumption
    <3>4. /\ queue' \in [Nodes -> [Sessions -> Seq(Keys)]]
          /\ \A m \in Nodes, t \in Sessions : Len(queue'[m][t]) <= Capacity
      BY <3>2, <3>3
    <3> QED
      BY <1>1, <1>4, <3>4 DEF IInv, TypeOK
  <2>2. ManagersLose
    BY <1>1, <1>4 DEF ManagersLose, IInv, Distinct
  <2>3. UNCHANGED <<emulatorVars, wire, channel, reading>>
    BY <1>1 DEF emulatorVars
  <2> QED
    BY <1>5, <1>7, <2>1, <2>2, <2>3, DeliverIInv
<1> QED
  BY <1>3, <1>6, <1>7 DEF SendResumes

-----------------------------------------------------------------------------
(* The steps of sessions and their tasks.                                  *)

LEMMA SessionBeginsIInv == IInv /\ SessionBegins => IInv'
<1> SUFFICES ASSUME IInv, SessionBegins PROVE IInv'
  OBVIOUS
<1>1. /\ begun < MaxSessions /\ begun' = begun + 1
      /\ alive' = [alive EXCEPT ![begun + 1] = TRUE]
      /\ UNCHANGED <<made, toSend, link, linked, cuts, wire, inbox, channel, holding, queue, reading>>
      /\ UNCHANGED <<ltask, streams, deposited, ftask>>
  BY DEF SessionBegins, qkdVars, emulatorVars, managerVars, followerVars
<1>2. /\ begun + 1 \in Sessions /\ begun \in 0..MaxSessions /\ begun' \in 0..MaxSessions
  BY <1>1, BoundsAssumption DEF IInv, TypeOK, Sessions
<1>3. PICK n \in Nodes : leader' = [leader EXCEPT ![begun + 1] = n]
  BY DEF SessionBegins
<1>4. TypeOK'
  BY <1>1, <1>2, <1>3 DEF IInv, TypeOK
<1>5. \A m \in Nodes, s \in Sessions, x \in Keys : Taken(m, s, x)' => Taken(m, s, x)
  <2>1. SUFFICES ASSUME NEW m \in Nodes, NEW s \in Sessions, NEW x \in Keys, Taken(m, s, x)'
                 PROVE  Taken(m, s, x)
    OBVIOUS
  <2>2. s = begun + 1 => ltask[s][x] = "none" /\ x \notin deposited[s]
    BY <1>2 DEF IInv, Unbegun
  <2>3. s # begun + 1 => leader'[s] = leader[s]
    BY <1>3 DEF IInv, TypeOK
  <2> QED
    BY <1>1, <2>1, <2>2, <2>3 DEF Taken
<1>6. \A m \in Nodes, x \in Keys : \A r, l : At(m, x, r, l)' => At(m, x, r, l)
  BY <1>1, <1>5 DEF At
<1>7. Distinct' /\ Requests' /\ DeviceInv'
  BY <1>1 DEF IInv, Distinct, Requests, DeviceInv
<1>8. Unbegun'
  BY <1>1, <1>2 DEF IInv, Unbegun, Sessions
<1> QED
  BY <1>1, <1>4, <1>6, <1>7, <1>8, CopiesStay DEF IInv

LEMMA SessionDiesIInv ==
  ASSUME IInv, NEW s \in Sessions, SessionDies(s)
  PROVE  IInv'
<1>1. /\ alive' = [alive EXCEPT ![s] = FALSE]
      /\ UNCHANGED <<made, toSend, link, linked, cuts, wire, inbox, channel, holding, queue, reading>>
      /\ UNCHANGED <<begun, leader, ltask, streams, deposited, ftask>>
  BY DEF SessionDies, qkdVars, emulatorVars, managerVars, followerVars
<1>2. TypeOK'
  BY <1>1 DEF IInv, TypeOK
<1>3. \A m \in Nodes, x \in Keys : \A r, l : At(m, x, r, l)' => At(m, x, r, l)
  BY <1>1 DEF At, Taken
<1>4. Distinct' /\ Requests' /\ DeviceInv' /\ Unbegun'
  BY <1>1 DEF IInv, Distinct, Requests, DeviceInv, Unbegun
<1> QED
  BY <1>1, <1>2, <1>3, <1>4, CopiesStay DEF IInv

LEMMA RoleStartsIInv ==
  ASSUME IInv, NEW n \in Nodes, NEW s \in Sessions, RoleStarts(n, s)
  PROVE  IInv'
<1>1. /\ s <= begun
      /\ channel' = [channel EXCEPT ![n] = s] /\ reading' = [reading EXCEPT ![n][s] = TRUE]
      /\ UNCHANGED <<made, toSend, link, linked, cuts, wire, inbox, holding, queue>>
      /\ UNCHANGED <<begun, alive, leader, ltask, streams, deposited, ftask>>
  BY DEF RoleStarts, Register, emulatorVars, sessionVars, followerVars
<1>2. /\ reading \in [Nodes -> [Sessions -> BOOLEAN]] /\ s \in 0..MaxSessions
      /\ begun \in 0..MaxSessions
  BY BoundsAssumption DEF IInv, TypeOK, Sessions
<1>3. TypeOK'
  BY <1>1, <1>2 DEF IInv, TypeOK
<1>4. \A m \in Nodes, x \in Keys : \A r, l : At(m, x, r, l)' => At(m, x, r, l)
  BY <1>1 DEF At, Taken
<1>5. Distinct' /\ Requests' /\ DeviceInv'
  BY <1>1 DEF IInv, Distinct, Requests, DeviceInv
<1>6. Unbegun'
  BY <1>1, <1>2 DEF IInv, Unbegun, Sessions
<1> QED
  BY <1>1, <1>3, <1>4, <1>5, <1>6, CopiesStay DEF IInv

LEMMA RoleEndsIInv ==
  ASSUME IInv, NEW n \in Nodes, NEW s \in Sessions, RoleEnds(n, s)
  PROVE  IInv'
<1>1. /\ reading' = [reading EXCEPT ![n][s] = FALSE] /\ queue' = [queue EXCEPT ![n][s] = <<>>]
      /\ streams' = IF n = leader[s] THEN streams ELSE [streams EXCEPT ![s] = <<>>]
      /\ UNCHANGED <<made, toSend, link, linked, cuts, wire, inbox, channel, holding>>
      /\ UNCHANGED <<begun, alive, leader, ltask, deposited, ftask>>
  BY DEF RoleEnds, emulatorVars, managerVars, sessionVars, followerVars
<1>2. /\ reading \in [Nodes -> [Sessions -> BOOLEAN]]
      /\ queue \in [Nodes -> [Sessions -> Seq(Keys)]] /\ streams \in [Sessions -> Seq(Keys)]
      /\ <<>> \in Seq(Keys) /\ Len(<<>>) <= Capacity
  BY BoundsAssumption DEF IInv, TypeOK
<1>3. /\ reading' \in [Nodes -> [Sessions -> BOOLEAN]]
      /\ queue' \in [Nodes -> [Sessions -> Seq(Keys)]] /\ streams' \in [Sessions -> Seq(Keys)]
      /\ \A m \in Nodes, t \in Sessions :
           /\ queue'[m][t] = IF m = n /\ t = s THEN <<>> ELSE queue[m][t]
           /\ reading'[m][t] => reading[m][t]
      /\ \A t \in Sessions : streams'[t] \in {streams[t], <<>>}
  BY <1>1, <1>2
<1>4. TypeOK'
  <2>1. \A m \in Nodes, t \in Sessions : Len(queue'[m][t]) <= Capacity
    BY <1>2, <1>3 DEF IInv, TypeOK
  <2> QED
    BY <1>1, <1>3, <2>1 DEF IInv, TypeOK
<1>5. \A m \in Nodes, x \in Keys : \A r, l : At(m, x, r, l)' => At(m, x, r, l)
  BY <1>1, <1>3, EmptyQueue DEF At, Taken
<1>6. Distinct'
  BY <1>1, <1>3, EmptyQueue DEF IInv, Distinct
<1>7. Requests'
  BY <1>1, <1>3, EmptyQueue DEF IInv, Requests
<1>8. DeviceInv' /\ Unbegun'
  BY <1>1, <1>3 DEF IInv, DeviceInv, Unbegun
<1> QED
  BY <1>1, <1>4, <1>5, <1>6, <1>7, <1>8, CopiesStay DEF IInv

\* What a role takes out of its channel.
LEMMA TakesOne ==
  ASSUME IInv, NEW n \in Nodes, NEW s \in Sessions, Takes(n, s)
  PROVE  /\ s <= begun /\ Head(queue[n][s]) \in Keys
         /\ queue' \in [Nodes -> [Sessions -> Seq(Keys)]]
         /\ At(n, Head(queue[n][s]), "queue", s) /\ ~ Has(queue'[n][s], Head(queue[n][s]))
         /\ \A m \in Nodes, t \in Sessions :
              /\ \A y : Has(queue'[m][t], y) => Has(queue[m][t], y)
              /\ IsInjective(queue'[m][t]) /\ Len(queue'[m][t]) <= Capacity
<1>1. /\ reading[n][s] /\ queue[n][s] # <<>>
      /\ queue' = [queue EXCEPT ![n][s] = Tail(queue[n][s])]
      /\ queue \in [Nodes -> [Sessions -> Seq(Keys)]]
  BY DEF Takes, IInv, TypeOK
<1>2. IsInjective(queue[n][s]) /\ Len(queue[n][s]) <= Capacity
  BY DEF IInv, Distinct, TypeOK
<1>3. /\ Tail(queue[n][s]) \in Seq(Keys) /\ Head(queue[n][s]) \in Keys
      /\ Has(queue[n][s], Head(queue[n][s])) /\ ~ Has(Tail(queue[n][s]), Head(queue[n][s]))
      /\ \A y : Has(Tail(queue[n][s]), y) => Has(queue[n][s], y)
      /\ IsInjective(Tail(queue[n][s])) /\ Len(Tail(queue[n][s])) = Len(queue[n][s]) - 1
  BY <1>1, <1>2, TailQueue
<1>4. Len(Tail(queue[n][s])) <= Capacity
  BY <1>1, <1>2, <1>3, BoundsAssumption
<1>5. s <= begun
  BY <1>1 DEF IInv, TypeOK, Unbegun, Sessions
<1>6. \A m \in Nodes, t \in Sessions :
        queue'[m][t] = IF m = n /\ t = s THEN Tail(queue[n][s]) ELSE queue[m][t]
  BY <1>1
<1>7. \A m \in Nodes, t \in Sessions : IsInjective(queue[m][t]) /\ Len(queue[m][t]) <= Capacity
  BY DEF IInv, Distinct, TypeOK
<1>8. queue' \in [Nodes -> [Sessions -> Seq(Keys)]]
  BY <1>1, <1>3
<1>9. At(n, Head(queue[n][s]), "queue", s)
  BY <1>3 DEF At
<1> QED
  BY <1>3, <1>4, <1>5, <1>6, <1>7, <1>8, <1>9

LEMMA LeaderTakesIInv ==
  ASSUME IInv, NEW s \in Sessions, LeaderTakes(s)
  PROVE  IInv'
<1>1. PICK n \in Nodes : n = leader[s]
  BY DEF IInv, TypeOK
<1>2. Takes(n, s)
  BY <1>1 DEF LeaderTakes
<1>3. PICK k \in Keys : k = Head(queue[n][s])
  BY <1>2, TakesOne
<1>4. /\ s <= begun /\ queue' \in [Nodes -> [Sessions -> Seq(Keys)]]
      /\ At(n, k, "queue", s) /\ ~ Has(queue'[n][s], k)
      /\ \A m \in Nodes, t \in Sessions :
           /\ \A y : Has(queue'[m][t], y) => Has(queue[m][t], y)
           /\ IsInjective(queue'[m][t]) /\ Len(queue'[m][t]) <= Capacity
  BY <1>2, <1>3, TakesOne
<1>5. /\ ltask' = [ltask EXCEPT ![s][k] = "started"]
      /\ ltask \in [Sessions -> [Keys -> {"none", "started", "registered"}]]
      /\ UNCHANGED <<made, toSend, link, linked, cuts, wire, inbox, channel, holding, reading>>
      /\ UNCHANGED <<begun, alive, leader, streams, deposited, ftask>>
  BY <1>1, <1>3 DEF LeaderTakes, IInv, TypeOK, emulatorVars, managerVars, sessionVars, followerVars
<1>6. \A t \in Sessions, x \in Keys :
        ltask'[t][x] = IF t = s /\ x = k THEN "started" ELSE ltask[t][x]
  BY <1>5
<1>7. ltask' \in [Sessions -> [Keys -> {"none", "started", "registered"}]]
  BY <1>5
<1>8. TypeOK'
  BY <1>4, <1>5, <1>7 DEF IInv, TypeOK
<1>9. ltask[s][k] = "none"
  <2>1. ~ At(n, k, "session", s)
    BY <1>4 DEF IInv, OnePlace
  <2> QED
    BY <1>1, <2>1 DEF At, Taken
<1>10. OnePlace' /\ OnlyMade'
  <2>1. OnlyArrival(n, k, "session", s)
    <3>1. \A m \in Nodes, t \in Sessions, x \in Keys :
            Taken(m, t, x)' => Taken(m, t, x) \/ (m = n /\ t = s /\ x = k)
      BY <1>1, <1>5, <1>6 DEF Taken
    <3> QED
      <4>1. ASSUME NEW m \in Nodes, NEW x \in Keys, NEW r, NEW l, At(m, x, r, l)'
            PROVE  At(m, x, r, l) \/ (m = n /\ x = k /\ r = "session" /\ l = s)
        <5>1. CASE r = "session"
          BY <3>1, <4>1, <5>1 DEF At
        <5>2. CASE r # "session"
          BY <1>4, <1>5, <4>1, <5>2 DEF At
        <5> QED
          BY <5>1, <5>2
      <4> QED
        BY <4>1 DEF OnlyArrival
  <2>2. ~ At(n, k, "queue", s)'
    BY <1>4 DEF At
  <2>3. OnePlace /\ OnlyMade /\ made' = made
    BY <1>5 DEF IInv
  <2> QED
    BY <1>4, <2>1, <2>2, <2>3, CopyMoves
<1>11. Distinct'
  BY <1>4, <1>5 DEF IInv, Distinct
<1>12. Requests'
  BY <1>5, <1>6, <1>9 DEF IInv, Requests
<1>13. DeviceInv'
  BY <1>5 DEF IInv, DeviceInv
<1>14. Unbegun'
  BY <1>4, <1>5, <1>6 DEF IInv, Unbegun, TypeOK, Sessions
<1> QED
  BY <1>8, <1>10, <1>11, <1>12, <1>13, <1>14 DEF IInv

LEMMA FollowerTakesIInv ==
  ASSUME IInv, NEW s \in Sessions, FollowerTakes(s)
  PROVE  IInv'
<1>1. PICK n \in Nodes : n = Follower(s) /\ n # leader[s]
  BY FollowerIsOther DEF IInv, TypeOK
<1>2. Takes(n, s)
  BY <1>1 DEF FollowerTakes
<1>3. PICK k \in Keys : k = Head(queue[n][s])
  BY <1>2, TakesOne
<1>4. /\ s <= begun /\ queue' \in [Nodes -> [Sessions -> Seq(Keys)]]
      /\ At(n, k, "queue", s) /\ ~ Has(queue'[n][s], k)
      /\ \A m \in Nodes, t \in Sessions :
           /\ \A y : Has(queue'[m][t], y) => Has(queue[m][t], y)
           /\ IsInjective(queue'[m][t]) /\ Len(queue'[m][t]) <= Capacity
  BY <1>2, <1>3, TakesOne
<1>5. /\ deposited' = [deposited EXCEPT ![s] = deposited[s] \cup {k}]
      /\ deposited \in [Sessions -> SUBSET Keys]
      /\ UNCHANGED <<made, toSend, link, linked, cuts, wire, inbox, channel, holding, reading>>
      /\ UNCHANGED <<begun, alive, leader, streams, ltask, ftask>>
  BY <1>1, <1>3 DEF FollowerTakes, IInv, TypeOK, emulatorVars, managerVars, sessionVars
<1>6. \A t \in Sessions, x \in Keys :
        x \in deposited'[t] <=> x \in deposited[t] \/ (t = s /\ x = k)
  BY <1>5
<1>7. deposited' \in [Sessions -> SUBSET Keys]
  BY <1>5
<1>8. TypeOK'
  BY <1>4, <1>5, <1>7 DEF IInv, TypeOK
<1>9. OnePlace' /\ OnlyMade'
  <2>1. \A m \in Nodes : m # leader[s] => m = n
    BY <1>1, FollowerIsOther DEF IInv, TypeOK
  <2>2. OnlyArrival(n, k, "session", s)
    <3>1. \A m \in Nodes, t \in Sessions, x \in Keys :
            Taken(m, t, x)' => Taken(m, t, x) \/ (m = n /\ t = s /\ x = k)
      <4>1. \A t \in Sessions \ {s}, x \in Keys : x \in deposited'[t] => x \in deposited[t]
        BY <1>6
      <4>2. \A x \in Keys : x \in deposited'[s] => x \in deposited[s] \/ x = k
        BY <1>6
      <4> QED
        BY <1>1, <1>5, <2>1, <4>1, <4>2 DEF Taken
    <3> QED
      <4>1. ASSUME NEW m \in Nodes, NEW x \in Keys, NEW r, NEW l, At(m, x, r, l)'
            PROVE  At(m, x, r, l) \/ (m = n /\ x = k /\ r = "session" /\ l = s)
        <5>1. CASE r = "session"
          BY <3>1, <4>1, <5>1 DEF At
        <5>2. CASE r # "session"
          BY <1>4, <1>5, <4>1, <5>2 DEF At
        <5> QED
          BY <5>1, <5>2
      <4> QED
        BY <4>1 DEF OnlyArrival
  <2>3. ~ At(n, k, "queue", s)'
    BY <1>4 DEF At
  <2>4. OnePlace /\ OnlyMade /\ made' = made
    BY <1>5 DEF IInv
  <2> QED
    BY <1>4, <2>2, <2>3, <2>4, CopyMoves
<1>10. Distinct'
  BY <1>4, <1>5 DEF IInv, Distinct
<1>11. Requests' /\ DeviceInv'
  BY <1>5 DEF IInv, Requests, DeviceInv
<1>12. Unbegun'
  BY <1>4, <1>5 DEF IInv, Unbegun, TypeOK, Sessions
<1> QED
  BY <1>8, <1>9, <1>10, <1>11, <1>12 DEF IInv

LEMMA LeaderRegistersIInv ==
  ASSUME IInv, NEW s \in Sessions, NEW k \in Keys, LeaderRegisters(s, k)
  PROVE  IInv'
<1>1. /\ ltask[s][k] = "started" /\ ltask' = [ltask EXCEPT ![s][k] = "registered"]
      /\ ltask \in [Sessions -> [Keys -> {"none", "started", "registered"}]]
      /\ streams' \in {streams, [streams EXCEPT ![s] = Append(streams[s], k)]}
      /\ streams \in [Sessions -> Seq(Keys)]
      /\ UNCHANGED <<made, toSend, link, linked, cuts, wire, inbox, channel, holding, queue, reading>>
      /\ UNCHANGED <<begun, alive, leader, deposited, ftask>>
  BY DEF LeaderRegisters, IInv, TypeOK, qkdVars, emulatorVars, managerVars, sessionVars, followerVars
<1>2. ~ Has(streams[s], k) /\ ftask[s][k] = "none"
  BY <1>1 DEF IInv, Requests
<1>3. /\ Append(streams[s], k) \in Seq(Keys)
      /\ \A y : Has(Append(streams[s], k), y) <=> Has(streams[s], y) \/ y = k
      /\ IsInjective(Append(streams[s], k))
  BY <1>1, <1>2, AppendQueue DEF IInv, Requests
<1>4. /\ \A t \in Sessions, x \in Keys :
           ltask'[t][x] = IF t = s /\ x = k THEN "registered" ELSE ltask[t][x]
      /\ ltask' \in [Sessions -> [Keys -> {"none", "started", "registered"}]]
      /\ \A t \in Sessions :
           streams'[t] \in {streams[t], IF t = s THEN Append(streams[s], k) ELSE streams[t]}
      /\ streams' \in [Sessions -> Seq(Keys)]
  BY <1>1, <1>3
<1>5. TypeOK'
  BY <1>1, <1>4 DEF IInv, TypeOK
<1>6. \A m \in Nodes, x \in Keys : \A r, l : At(m, x, r, l)' => At(m, x, r, l)
  BY <1>1, <1>4 DEF At, Taken
<1>7. Distinct' /\ DeviceInv'
  BY <1>1 DEF IInv, Distinct, DeviceInv
<1>8. Requests'
  <2>1. \A t \in Sessions : IsInjective(streams'[t])
    BY <1>3, <1>4 DEF IInv, Requests
  <2>2. \A t \in Sessions, x \in Keys :
          Has(streams'[t], x) => Has(streams[t], x) \/ (t = s /\ x = k)
    BY <1>3, <1>4
  <2> QED
    BY <1>1, <1>2, <1>4, <2>1, <2>2 DEF IInv, Requests
<1>9. Unbegun'
  BY <1>1, <1>4 DEF IInv, Unbegun
<1> QED
  BY <1>1, <1>5, <1>6, <1>7, <1>8, <1>9, CopiesStay DEF IInv

LEMMA FollowerStartsIInv ==
  ASSUME IInv, NEW s \in Sessions, FollowerStarts(s)
  PROVE  IInv'
<1>1. /\ streams[s] # <<>> /\ streams' = [streams EXCEPT ![s] = Tail(streams[s])]
      /\ streams \in [Sessions -> Seq(Keys)]
      /\ ftask \in [Sessions -> [Keys -> {"none", "waiting", "found", "notfound"}]]
      /\ UNCHANGED <<made, toSend, link, linked, cuts, wire, inbox, channel, holding, queue, reading>>
      /\ UNCHANGED <<begun, alive, leader, ltask, deposited>>
  BY DEF FollowerStarts, IInv, TypeOK, qkdVars, emulatorVars, managerVars, sessionVars
<1>2. /\ Tail(streams[s]) \in Seq(Keys) /\ Head(streams[s]) \in Keys
      /\ Has(streams[s], Head(streams[s])) /\ ~ Has(Tail(streams[s]), Head(streams[s]))
      /\ \A y : Has(Tail(streams[s]), y) => Has(streams[s], y)
      /\ IsInjective(Tail(streams[s]))
  BY <1>1, TailQueue DEF IInv, Requests
<1>3. PICK k \in Keys : k = Head(streams[s])
  BY <1>2
<1>4. ftask' = [ftask EXCEPT ![s][k] = "waiting"]
  BY <1>3 DEF FollowerStarts
<1>5. /\ \A t \in Sessions : streams'[t] = IF t = s THEN Tail(streams[s]) ELSE streams[t]
      /\ streams' \in [Sessions -> Seq(Keys)]
      /\ \A t \in Sessions, x \in Keys :
           ftask'[t][x] = IF t = s /\ x = k THEN "waiting" ELSE ftask[t][x]
      /\ ftask' \in [Sessions -> [Keys -> {"none", "waiting", "found", "notfound"}]]
  BY <1>1, <1>2, <1>4
<1>6. TypeOK'
  BY <1>1, <1>5 DEF IInv, TypeOK
<1>7. \A m \in Nodes, x \in Keys : \A r, l : At(m, x, r, l)' => At(m, x, r, l)
  BY <1>1 DEF At, Taken
<1>8. Distinct' /\ DeviceInv' /\ Unbegun'
  BY <1>1 DEF IInv, Distinct, DeviceInv, Unbegun
<1>9. Requests'
  BY <1>1, <1>2, <1>3, <1>5 DEF IInv, Requests
<1> QED
  BY <1>1, <1>6, <1>7, <1>8, <1>9, CopiesStay DEF IInv

LEMMA FollowerWaitsIInv ==
  ASSUME IInv, NEW s \in Sessions, NEW k \in Keys,
         FollowerFinds(s, k) \/ FollowerTimeout(s, k)
  PROVE  IInv'
<1>1. /\ ftask[s][k] = "waiting"
      /\ ftask' \in {[ftask EXCEPT ![s][k] = "found"], [ftask EXCEPT ![s][k] = "notfound"]}
      /\ ftask \in [Sessions -> [Keys -> {"none", "waiting", "found", "notfound"}]]
      /\ UNCHANGED <<made, toSend, link, linked, cuts, wire, inbox, channel, holding, queue, reading>>
      /\ UNCHANGED <<begun, alive, leader, ltask, deposited, streams>>
  BY DEF FollowerFinds, FollowerTimeout, IInv, TypeOK, qkdVars, emulatorVars, managerVars, sessionVars
<1>2. /\ \A t \in Sessions, x \in Keys :
           ftask'[t][x] = "none" <=> ftask[t][x] = "none"
      /\ ftask' \in [Sessions -> [Keys -> {"none", "waiting", "found", "notfound"}]]
  BY <1>1
<1>3. TypeOK'
  BY <1>1, <1>2 DEF IInv, TypeOK
<1>4. \A m \in Nodes, x \in Keys : \A r, l : At(m, x, r, l)' => At(m, x, r, l)
  BY <1>1 DEF At, Taken
<1>5. Distinct' /\ DeviceInv' /\ Unbegun'
  BY <1>1 DEF IInv, Distinct, DeviceInv, Unbegun
<1>6. Requests'
  BY <1>1, <1>2 DEF IInv, Requests
<1> QED
  BY <1>1, <1>3, <1>4, <1>5, <1>6, CopiesStay DEF IInv

-----------------------------------------------------------------------------
LEMMA NextIInv == IInv /\ [Next]_vars => IInv'
<1> SUFFICES ASSUME IInv, [Next]_vars PROVE IInv'
  OBVIOUS
<1>1. CASE Emulator /\ UNCHANGED Others
  BY <1>1, MakeKeyIInv, SendKeyIInv, ReconnectIInv DEF Emulator
<1>2. ASSUME NEW n \in Nodes, Handler(n) \/ Manager(n) \/ Cut(n), UNCHANGED Others
      PROVE  IInv'
  BY <1>2, ReadKeyIInv, HandlerEndsIInv, TakeKeyIInv, SendResumesIInv, CutIInv DEF Handler, Manager
<1>3. CASE SessionBegins
  BY <1>3, SessionBeginsIInv
<1>4. ASSUME NEW s \in Sessions, Session(s) \/ SessionDies(s) PROVE IInv'
  BY <1>4, RoleStartsIInv, RoleEndsIInv, LeaderTakesIInv, FollowerTakesIInv, FollowerStartsIInv,
     SessionDiesIInv DEF Session
<1>5. ASSUME NEW s \in Sessions, NEW k \in Keys, ProcessKey(s, k) PROVE IInv'
  BY <1>5, LeaderRegistersIInv, FollowerWaitsIInv DEF ProcessKey
<1>6. CASE UNCHANGED vars
  <2>1. /\ UNCHANGED <<made, toSend, link, linked, cuts, wire, inbox, channel, holding, queue, reading>>
        /\ UNCHANGED <<begun, alive, leader, ltask, streams, deposited, ftask>>
    BY <1>6 DEF vars, qkdVars, emulatorVars, managerVars, sessionVars, followerVars
  <2>2. TypeOK' /\ Distinct' /\ Requests' /\ DeviceInv' /\ Unbegun'
    BY <2>1 DEF IInv, TypeOK, Distinct, Requests, DeviceInv, Unbegun
  <2>3. \A m \in Nodes, x \in Keys : \A r, l : At(m, x, r, l)' => At(m, x, r, l)
    BY <2>1 DEF At, Taken
  <2> QED
    BY <2>1, <2>2, <2>3, CopiesStay DEF IInv
<1> QED
  BY <1>1, <1>2, <1>3, <1>4, <1>5, <1>6 DEF Next

\* Every variable keeps its type, and no channel holds more keys than its
\* capacity (emulator.rs, qkd_communication.rs, leader.rs, follower.rs).
THEOREM DeliveryTypeCorrect == SafetySpec => []TypeOK
<1>1. IInv => TypeOK
  BY DEF IInv
<1> QED
  BY InitIInv, NextIInv, <1>1, PTL DEF SafetySpec

\* However sessions and connections of the device come and go, a module takes
\* a key in for one session at most (qkd_communication.rs 66-125,
\* leader.rs 104-136, follower.rs 109-152).
THEOREM KeysUsedOnce == SafetySpec => []UsedOnce
BY InitIInv, NextIInv, IInvUsedOnce, PTL DEF SafetySpec

\* Neither a key nor a request reaches a session twice, so that follower.rs
\* never meets its todo!() (follower.rs 120-152).
THEOREM NothingComesTwice == SafetySpec => []NoneTwice
BY InitIInv, NextIInv, IInvNoneTwice, PTL DEF SafetySpec

-----------------------------------------------------------------------------
(* The refinement of KeyUse.                                               *)

Found(s, k) == ftask[s][k] = "found"

\* The follower's process_key that has the key took the one of its session.
FoundHasKey == \A s \in Sessions, k \in Keys : Found(s, k) => k \in deposited[s]

RInv == IInv /\ FoundHasKey

\* The four kinds of step: nothing that the promise sees, a new key, a key
\* that is taken in, and copies that meet.
SameTaken == \A n \in Nodes, s \in Sessions, k \in Keys : Taken(n, s, k)' <=> Taken(n, s, k)
SameFound == \A s \in Sessions, k \in Keys : Found(s, k)' <=> Found(s, k)

TakesIn(n, s, k) ==
  /\ k <= made /\ \A t \in Sessions : ~ Taken(n, t, k)
  /\ \A m \in Nodes, t \in Sessions, x \in Keys :
       Taken(m, t, x)' <=> Taken(m, t, x) \/ (m = n /\ t = s /\ x = k)

Meets(s, k) ==
  /\ \A n \in Nodes : Taken(n, s, k)
  /\ \A t \in Sessions : ~ Found(t, k)
  /\ \A t \in Sessions, x \in Keys : Found(t, x)' <=> Found(t, x) \/ (t = s /\ x = k)

StepKind ==
  \/ SameTaken /\ SameFound /\ made' \in {made, made + 1}
  \/ \E n \in Nodes, s \in Sessions, k \in Keys : TakesIn(n, s, k) /\ SameFound /\ made' = made
  \/ \E s \in Sessions, k \in Keys : Meets(s, k) /\ SameTaken /\ made' = made

\* A request is answered only in a session in which both modules have the key.
LEMMA FoundIsTaken ==
  ASSUME RInv, NEW s \in Sessions, NEW k \in Keys, Found(s, k), NEW n \in Nodes
  PROVE  Taken(n, s, k)
<1>1. k \in deposited[s] /\ ltask[s][k] = "registered"
  BY DEF RInv, IInv, FoundHasKey, Found, Requests
<1> QED
  BY <1>1 DEF Taken

LEMMA TakenOnce ==
  ASSUME IInv, NEW n \in Nodes, NEW k \in Keys, NEW s \in Sessions, NEW t \in Sessions,
         Taken(n, s, k), Taken(n, t, k)
  PROVE  s = t
<1>1. At(n, k, "session", s) /\ At(n, k, "session", t)
  BY DEF At
<1> QED
  BY <1>1 DEF IInv, OnePlace

LEMMA FoundOnce ==
  ASSUME RInv, NEW k \in Keys, NEW s \in Sessions, NEW t \in Sessions, Found(s, k), Found(t, k)
  PROVE  s = t
<1>1. leader[s] \in Nodes
  BY DEF RInv, IInv, TypeOK
<1> QED
  BY <1>1, FoundIsTaken, TakenOnce DEF RInv

LEMMA UseIs ==
  IInv => \A n \in Nodes, k \in Keys :
    /\ UseOf(n, k) \in Sessions \cup {0}
    /\ \A s \in Sessions : UseOf(n, k) = s <=> Taken(n, s, k)
<1> SUFFICES ASSUME IInv, NEW n \in Nodes, NEW k \in Keys
             PROVE  /\ UseOf(n, k) \in Sessions \cup {0}
                    /\ \A s \in Sessions : UseOf(n, k) = s <=> Taken(n, s, k)
  OBVIOUS
<1>1. 0 \notin Sessions
  BY BoundsAssumption DEF Sessions
<1>2. CASE \E s \in Sessions : Taken(n, s, k)
  <2>1. UseOf(n, k) \in Sessions /\ Taken(n, UseOf(n, k), k)
    BY <1>2 DEF UseOf
  <2> QED
    BY <2>1, TakenOnce
<1>3. CASE ~ \E s \in Sessions : Taken(n, s, k)
  BY <1>1, <1>3 DEF UseOf
<1> QED
  BY <1>2, <1>3

LEMMA MetIs ==
  RInv => \A k \in Keys :
    /\ MetIn(k) \in Sessions \cup {0}
    /\ \A s \in Sessions : MetIn(k) = s <=> Found(s, k)
<1> SUFFICES ASSUME RInv, NEW k \in Keys
             PROVE  /\ MetIn(k) \in Sessions \cup {0}
                    /\ \A s \in Sessions : MetIn(k) = s <=> Found(s, k)
  OBVIOUS
<1>1. 0 \notin Sessions
  BY BoundsAssumption DEF Sessions
<1>2. CASE \E s \in Sessions : Found(s, k)
  <2>1. MetIn(k) \in Sessions /\ Found(MetIn(k), k)
    BY <1>2 DEF MetIn, Found
  <2> QED
    BY <2>1, FoundOnce
<1>3. CASE ~ \E s \in Sessions : Found(s, k)
  BY <1>1, <1>3 DEF MetIn, Found
<1> QED
  BY <1>2, <1>3

LEMMA MapIs ==
  RInv =>
    /\ \A n \in Nodes, k \in Keys :
         /\ UseOf(n, k) \in Sessions \cup {0}
         /\ \A s \in Sessions : UseOf(n, k) = s <=> Taken(n, s, k)
    /\ \A k \in Keys :
         /\ MetIn(k) \in Sessions \cup {0}
         /\ \A s \in Sessions : MetIn(k) = s <=> Found(s, k)
BY UseIs, MetIs DEF RInv

LEMMA MapIsNext ==
  RInv' =>
    (/\ \A n \in Nodes, k \in Keys :
          /\ UseOf(n, k) \in Sessions \cup {0}
          /\ \A s \in Sessions : UseOf(n, k) = s <=> Taken(n, s, k)
     /\ \A k \in Keys :
          /\ MetIn(k) \in Sessions \cup {0}
          /\ \A s \in Sessions : MetIn(k) = s <=> Found(s, k))'
BY MapIs, PTL

\* What every step does to the copies that are taken in.
LEMMA StepIsKind == RInv /\ [Next]_vars => StepKind /\ FoundHasKey'
<1> SUFFICES ASSUME RInv, [Next]_vars PROVE StepKind /\ FoundHasKey'
  OBVIOUS
<1>1. /\ leader \in [Sessions -> Nodes] /\ deposited \in [Sessions -> SUBSET Keys]
      /\ ltask \in [Sessions -> [Keys -> {"none", "started", "registered"}]]
      /\ ftask \in [Sessions -> [Keys -> {"none", "waiting", "found", "notfound"}]]
      /\ FoundHasKey
  BY DEF RInv, IInv, TypeOK
<1> DEFINE Quiet == /\ UNCHANGED <<leader, ltask, deposited, ftask>>
                    /\ made' \in {made, made + 1}
<1>2. ASSUME Quiet PROVE StepKind /\ FoundHasKey'
  BY <1>1, <1>2 DEF StepKind, SameTaken, SameFound, Taken, Found, FoundHasKey
<1>3. CASE Emulator /\ UNCHANGED Others
  <2>1. Quiet
    BY <1>3 DEF Emulator, MakeKey, SendKey, Reconnect, Others, sessionVars, followerVars
  <2> QED
    BY <1>2, <2>1
<1>4. ASSUME NEW n \in Nodes, Handler(n) \/ Manager(n) \/ Cut(n), UNCHANGED Others
      PROVE  StepKind /\ FoundHasKey'
  <2>1. Quiet
    BY <1>4 DEF Handler, Manager, ReadKey, HandlerEnds, TakeKey, SendResumes, Cut, Others,
       sessionVars, followerVars, emulatorVars, managerVars
  <2> QED
    BY <1>2, <2>1
<1>5. CASE SessionBegins
  <2>1. /\ UNCHANGED <<made, ltask, deposited, ftask>>
        /\ \E n \in Nodes : leader' = [leader EXCEPT ![begun + 1] = n]
    BY <1>5 DEF SessionBegins, qkdVars, emulatorVars, followerVars
  <2>2. \A s \in Sessions : leader'[s] = leader[s] \/ s = begun + 1
    BY <1>1, <2>1
  <2>3. \A s \in Sessions : s = begun + 1 => deposited[s] = {} /\ \A k \in Keys : ltask[s][k] = "none"
    BY DEF RInv, IInv, TypeOK, Unbegun, Sessions
  <2>4. SameTaken
    BY <2>1, <2>2, <2>3 DEF SameTaken, Taken
  <2> QED
    BY <1>1, <2>1, <2>4 DEF StepKind, SameFound, Found, FoundHasKey
<1>6. ASSUME NEW s \in Sessions, LeaderTakes(s)
      PROVE  StepKind /\ FoundHasKey'
  <2>1. PICK n \in Nodes : n = leader[s]
    BY <1>1
  <2>2. Takes(n, s)
    BY <1>6, <2>1 DEF LeaderTakes
  <2>3. PICK k \in Keys : k = Head(queue[n][s]) /\ At(n, k, "queue", s)
    BY <2>2, TakesOne DEF RInv
  <2>4. /\ ltask' = [ltask EXCEPT ![s][k] = "started"]
        /\ UNCHANGED <<made, leader, deposited, ftask>>
    BY <1>6, <2>1, <2>3 DEF LeaderTakes, emulatorVars, sessionVars, followerVars
  <2>5. \A t \in Sessions, x \in Keys :
          ltask'[t][x] = IF t = s /\ x = k THEN "started" ELSE ltask[t][x]
    BY <1>1, <2>4
  <2>6. k <= made /\ \A t \in Sessions : ~ Taken(n, t, k)
    BY <2>3 DEF RInv, IInv, OnlyMade, OnePlace, At
  <2>7. TakesIn(n, s, k)
    BY <2>1, <2>4, <2>5, <2>6 DEF TakesIn, Taken
  <2> QED
    BY <1>1, <2>4, <2>7 DEF StepKind, SameFound, Found, FoundHasKey
<1>7. ASSUME NEW s \in Sessions, FollowerTakes(s)
      PROVE  StepKind /\ FoundHasKey'
  <2>1. PICK n \in Nodes : n = Follower(s) /\ n # leader[s] /\ \A m \in Nodes : m # leader[s] => m = n
    BY <1>1, FollowerIsOther
  <2>2. Takes(n, s)
    BY <1>7, <2>1 DEF FollowerTakes
  <2>3. PICK k \in Keys : k = Head(queue[n][s]) /\ At(n, k, "queue", s)
    BY <2>2, TakesOne DEF RInv
  <2>4. /\ deposited' = [deposited EXCEPT ![s] = deposited[s] \cup {k}]
        /\ UNCHANGED <<made, leader, ltask, ftask>>
    BY <1>7, <2>1, <2>3 DEF FollowerTakes, emulatorVars, sessionVars
  <2>5. /\ \A t \in Sessions \ {s}, x \in Keys : x \in deposited'[t] <=> x \in deposited[t]
        /\ \A x \in Keys : x \in deposited'[s] <=> x \in deposited[s] \/ x = k
    BY <1>1, <2>4
  <2>6. k <= made /\ \A t \in Sessions : ~ Taken(n, t, k)
    BY <2>3 DEF RInv, IInv, OnlyMade, OnePlace, At
  <2>7. TakesIn(n, s, k)
    BY <2>1, <2>4, <2>5, <2>6 DEF TakesIn, Taken
  <2> QED
    BY <1>1, <2>4, <2>5, <2>7 DEF StepKind, SameFound, Found, FoundHasKey
<1>8. ASSUME NEW s \in Sessions,
             (\E n \in Nodes : RoleStarts(n, s) \/ RoleEnds(n, s)) \/ SessionDies(s)
      PROVE  StepKind /\ FoundHasKey'
  <2>1. Quiet
    BY <1>8 DEF RoleStarts, RoleEnds, SessionDies, Register, qkdVars, emulatorVars, sessionVars,
       followerVars
  <2> QED
    BY <1>2, <2>1
<1>9. ASSUME NEW s \in Sessions, FollowerStarts(s)
      PROVE  StepKind /\ FoundHasKey'
  <2>1. /\ UNCHANGED <<made, leader, ltask, deposited>>
        /\ ftask' = [ftask EXCEPT ![s][Head(streams[s])] = "waiting"]
        /\ ftask[s][Head(streams[s])] = "none"
    BY <1>9 DEF FollowerStarts, Requested, qkdVars, emulatorVars, sessionVars
  <2>2. SameFound
    BY <1>1, <2>1 DEF SameFound, Found
  <2> QED
    BY <1>1, <2>1, <2>2 DEF StepKind, SameTaken, SameFound, Taken, FoundHasKey
<1>10. ASSUME NEW s \in Sessions, NEW k \in Keys, LeaderRegisters(s, k)
       PROVE  StepKind /\ FoundHasKey'
  <2>1. /\ UNCHANGED <<made, leader, ftask, deposited>>
        /\ ltask[s][k] = "started" /\ ltask' = [ltask EXCEPT ![s][k] = "registered"]
    BY <1>10 DEF LeaderRegisters, qkdVars, emulatorVars, sessionVars, followerVars
  <2>2. \A t \in Sessions, x \in Keys : ltask'[t][x] # "none" <=> ltask[t][x] # "none"
    BY <1>1, <2>1
  <2> QED
    BY <1>1, <2>1, <2>2 DEF StepKind, SameTaken, SameFound, Taken, Found, FoundHasKey
<1>11. ASSUME NEW s \in Sessions, NEW k \in Keys, FollowerFinds(s, k)
       PROVE  StepKind /\ FoundHasKey'
  <2>1. /\ UNCHANGED <<made, leader, ltask, deposited>>
        /\ ftask[s][k] = "waiting" /\ ftask' = [ftask EXCEPT ![s][k] = "found"]
        /\ k \in deposited[s]
    BY <1>11 DEF FollowerFinds, qkdVars, emulatorVars, sessionVars
  <2>2. \A t \in Sessions, x \in Keys : Found(t, x)' <=> Found(t, x) \/ (t = s /\ x = k)
    BY <1>1, <2>1 DEF Found
  <2>3. \A n \in Nodes : Taken(n, s, k)
    BY <2>1 DEF RInv, IInv, Requests, Taken
  <2>4. \A t \in Sessions : ~ Found(t, k)
    <3>1. ASSUME NEW t \in Sessions, Found(t, k) PROVE FALSE
      <4>1. Taken(leader[s], t, k) /\ Taken(leader[s], s, k) /\ leader[s] \in Nodes
        BY <1>1, <2>3, <3>1, FoundIsTaken
      <4>2. t = s
        BY <4>1, TakenOnce DEF RInv
      <4> QED
        BY <2>1, <3>1, <4>2 DEF Found
    <3> QED
      BY <3>1
  <2>5. FoundHasKey'
    BY <1>1, <2>1, <2>2 DEF FoundHasKey
  <2>6. SameTaken /\ Meets(s, k)
    BY <2>1, <2>2, <2>3, <2>4 DEF SameTaken, Taken, Meets
  <2> QED
    BY <2>1, <2>5, <2>6 DEF StepKind
<1>12. ASSUME NEW s \in Sessions, NEW k \in Keys, FollowerTimeout(s, k)
       PROVE  StepKind /\ FoundHasKey'
  <2>1. /\ UNCHANGED <<made, leader, ltask, deposited>>
        /\ ftask[s][k] = "waiting" /\ ftask' = [ftask EXCEPT ![s][k] = "notfound"]
    BY <1>12 DEF FollowerTimeout, qkdVars, emulatorVars, sessionVars
  <2>2. SameFound
    BY <1>1, <2>1 DEF SameFound, Found
  <2> QED
    BY <1>1, <2>1, <2>2 DEF StepKind, SameTaken, SameFound, Taken, FoundHasKey
<1>13. CASE UNCHANGED vars
  <2>1. Quiet
    BY <1>13 DEF vars, qkdVars, emulatorVars, sessionVars, followerVars
  <2> QED
    BY <1>2, <2>1
<1>14. ASSUME NEW s \in Sessions, Session(s) \/ SessionDies(s) PROVE StepKind /\ FoundHasKey'
  BY <1>6, <1>7, <1>8, <1>9, <1>14 DEF Session
<1>15. ASSUME NEW s \in Sessions, NEW k \in Keys, ProcessKey(s, k) PROVE StepKind /\ FoundHasKey'
  BY <1>10, <1>11, <1>12, <1>15 DEF ProcessKey
<1> QED
  BY <1>3, <1>4, <1>5, <1>13, <1>14, <1>15 DEF Next

\* Every kind of step is a step of the promise, or none.
LEMMA KindIsPromised == RInv /\ RInv' /\ StepKind => [Promise!Next]_(Promise!vars)
<1> SUFFICES ASSUME RInv, RInv', StepKind PROVE [Promise!Next]_(Promise!vars)
  OBVIOUS
<1> DEFINE use == [n \in Nodes |-> [k \in Keys |-> UseOf(n, k)]]
           met == [k \in Keys |-> MetIn(k)]
<1>1. /\ \A n \in Nodes, k \in Keys :
           /\ UseOf(n, k) \in Sessions \cup {0}
           /\ \A s \in Sessions : UseOf(n, k) = s <=> Taken(n, s, k)
      /\ \A k \in Keys :
           /\ MetIn(k) \in Sessions \cup {0}
           /\ \A s \in Sessions : MetIn(k) = s <=> Found(s, k)
  BY MapIs
<1>2. /\ \A n \in Nodes, k \in Keys :
           /\ UseOf(n, k)' \in Sessions \cup {0}
           /\ \A s \in Sessions : UseOf(n, k)' = s <=> Taken(n, s, k)'
      /\ \A k \in Keys :
           /\ MetIn(k)' \in Sessions \cup {0}
           /\ \A s \in Sessions : MetIn(k)' = s <=> Found(s, k)'
  BY MapIsNext
<1>3. 0 \notin Sessions
  BY BoundsAssumption DEF Sessions
<1>4. ASSUME SameTaken PROVE use' = use
  BY <1>1, <1>2, <1>4 DEF SameTaken
<1>5. ASSUME SameFound PROVE met' = met
  BY <1>1, <1>2, <1>5 DEF SameFound
<1>6. CASE SameTaken /\ SameFound /\ made' \in {made, made + 1}
  BY <1>4, <1>5, <1>6 DEF Promise!Next, Promise!Make, Promise!vars
<1>7. ASSUME NEW n \in Nodes, NEW s \in Sessions, NEW k \in Keys,
             TakesIn(n, s, k), SameFound, made' = made
      PROVE  Promise!Next
  <2>1. UseOf(n, k) = 0 /\ UseOf(n, k)' = s
    BY <1>1, <1>2, <1>7 DEF TakesIn
  <2>2. \A m \in Nodes, x \in Keys : m # n \/ x # k => UseOf(m, x)' = UseOf(m, x)
    BY <1>1, <1>2, <1>7 DEF TakesIn
  <2>3. use' = [use EXCEPT ![n][k] = use'[n][k]]
    BY <2>2
  <2>4. Promise!Use(n, k)
    BY <1>5, <1>7, <2>1, <2>3 DEF TakesIn, Promise!Use
  <2> QED
    BY <2>4 DEF Promise!Next
<1>8. ASSUME NEW s \in Sessions, NEW k \in Keys, Meets(s, k), SameTaken, made' = made
      PROVE  Promise!Next
  <2>1. MetIn(k) = 0 /\ MetIn(k)' = s /\ \A n \in Nodes : UseOf(n, k) = s
    BY <1>1, <1>2, <1>8 DEF Meets
  <2>2. \A x \in Keys : x # k => MetIn(x)' = MetIn(x)
    BY <1>1, <1>2, <1>8 DEF Meets
  <2>3. met' = [met EXCEPT ![k] = met'[k]]
    BY <2>2
  <2>4. Promise!Meet(k)
    BY <1>4, <1>8, <2>1, <2>3 DEF Promise!Meet
  <2> QED
    BY <2>4 DEF Promise!Next
<1> QED
  BY <1>6, <1>7, <1>8 DEF StepKind

LEMMA InitPromised == Init => Promise!Init /\ RInv
<1> SUFFICES ASSUME Init PROVE Promise!Init /\ RInv
  OBVIOUS
<1>1. \A s \in Sessions, k \in Keys : ~ Found(s, k) /\ \A n \in Nodes : ~ Taken(n, s, k)
  BY DEF Init, Taken, Found
<1>2. RInv
  BY <1>1, InitIInv DEF RInv, FoundHasKey
<1>3. \A k \in Keys : MetIn(k) = 0 /\ \A n \in Nodes : UseOf(n, k) = 0
  BY <1>1 DEF UseOf, MetIn, Found
<1>4. made = 0
  BY DEF Init, QkdInit
<1> QED
  BY <1>2, <1>3, <1>4 DEF Promise!Init

\* The delivery of keys implements KeyUse: a module uses its copy of a key in
\* one session and never again, and copies are worked on together only in the
\* session in which both are used (qkd_communication.rs 66-125, leader.rs
\* 104-136, follower.rs 109-214).
THEOREM DeliveryImplementsKeyUse == SafetySpec => ImplementsKeyUse
<1>1. RInv /\ [Next]_vars => RInv' /\ [Promise!Next]_(Promise!vars)
  BY NextIInv, StepIsKind, KindIsPromised DEF RInv
<1> QED
  BY InitPromised, <1>1, PTL DEF SafetySpec, ImplementsKeyUse, Promise!Spec
=============================================================================

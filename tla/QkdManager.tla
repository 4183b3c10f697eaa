----------------------------- MODULE QkdManager -----------------------------
(***************************************************************************)
(* The way of a key from the QKD device to the sessions of the two modules *)
(* it belongs to.  The emulator stands for the device: handle_link makes a *)
(* key and sends it to both modules over a connection to each.  In every   *)
(* module one handle_qkd per connection reads keys and qkd_manager hands   *)
(* them to the channel of the session that was registered last.            *)
(***************************************************************************)
EXTENDS Integers, Sequences, SequencesExt

CONSTANTS
  Nodes,        \* the two modules of the link
  Capacity,     \* of a session's channel: 64 in the code
  MaxKeys,      \* bound: keys the emulator makes
  MaxSessions,  \* bound: sessions between the two modules
  MaxCuts       \* bound: connections of the emulator that are lost

ASSUME NodesAssumption == IsFiniteSet(Nodes) /\ Cardinality(Nodes) = 2
ASSUME BoundsAssumption ==
  /\ Capacity \in Nat \ {0}
  /\ MaxKeys \in Nat /\ MaxSessions \in Nat /\ MaxCuts \in Nat

Keys == 1..MaxKeys
Sessions == 1..MaxSessions
Links == 1..(MaxCuts + 1)

VARIABLES
  made,      \* keys made so far; a key is its number
  toSend,    \* nodes the last key is still to be sent to
  link,      \* node -> number of the emulator's connection to it
  linked,    \* node -> that connection is up
  cuts,      \* connections of the emulator lost so far
  wire,      \* node -> connection -> keys not yet read from it
  inbox,     \* node -> key_receiver
  channel,   \* node -> session in channels, 0 if there is none
  queue,     \* node -> session -> keys in the session's channel
  reading,   \* node -> session -> the channel's receiver exists
  holding    \* node -> key whose send waits for room, 0 if there is none

emulatorVars == <<made, toSend, link, linked, cuts>>
managerVars == <<inbox, channel, holding>>
qkdVars == <<emulatorVars, wire, managerVars, queue, reading>>

-----------------------------------------------------------------------------
(* The emulator: handle_link.                                              *)

\* sleep(frequency) is over; the two modules are served in any order.
MakeKey ==
  /\ made < MaxKeys
  /\ toSend = <<>>
  /\ made' = made + 1
  /\ toSend' \in SetToSeqs(Nodes)
  /\ UNCHANGED <<link, linked, cuts, wire, managerVars, queue, reading>>

\* Variant: a key is sent again when the answer is slow.
SendKeyTwice(n) ==
  /\ toSend # <<>> /\ n = Head(toSend)
  /\ toSend' = Tail(toSend)
  /\ wire' = IF linked[n] THEN [wire EXCEPT ![n][link[n]] = @ \o <<made, made>>]
             ELSE wire
  /\ UNCHANGED <<made, link, linked, cuts, managerVars, queue, reading>>

\* send_key_or_log: a key that cannot be sent is gone.
SendKey(n) ==
  /\ toSend # <<>> /\ n = Head(toSend)
  /\ toSend' = Tail(toSend)
  /\ wire' = IF linked[n] THEN [wire EXCEPT ![n][link[n]] = Append(@, made)]
             ELSE wire
  /\ UNCHANGED <<made, link, linked, cuts, managerVars, queue, reading>>

\* closed() is noticed between two keys; try_until_success then connects.
Reconnect(n) ==
  /\ ~linked[n]
  /\ toSend = <<>>
  /\ link' = [link EXCEPT ![n] = @ + 1]
  /\ linked' = [linked EXCEPT ![n] = TRUE]
  /\ UNCHANGED <<made, toSend, cuts, wire, managerVars, queue, reading>>

\* The connection is lost: of the keys under way a prefix arrives.
Cut(n) ==
  /\ linked[n]
  /\ cuts < MaxCuts
  /\ cuts' = cuts + 1
  /\ linked' = [linked EXCEPT ![n] = FALSE]
  /\ \E i \in 0..Len(wire[n][link[n]]) :
       wire' = [wire EXCEPT ![n][link[n]] = SubSeq(@, 1, i)]
  /\ UNCHANGED <<made, toSend, link, managerVars, queue, reading>>

-----------------------------------------------------------------------------
(* handle_qkd                                                              *)

\* get_key and new_key.send; the channel of 1024 keys never fills here.
ReadKey(n, c) ==
  /\ wire[n][c] # <<>>
  /\ inbox' = [inbox EXCEPT ![n] = Append(@, Head(wire[n][c]))]
  /\ wire' = [wire EXCEPT ![n][c] = Tail(@)]
  /\ UNCHANGED <<emulatorVars, channel, holding, queue, reading>>

\* closed() wins the select: the keys that could be read are dropped.
HandlerEnds(n, c) ==
  /\ wire[n][c] # <<>>
  /\ c < link[n] \/ ~linked[n]
  /\ wire' = [wire EXCEPT ![n][c] = <<>>]
  /\ UNCHANGED <<emulatorVars, managerVars, queue, reading>>

-----------------------------------------------------------------------------
(* qkd_manager                                                             *)

\* Variant: a channel takes one key more.
RoomOffByOne(n) == Len(queue[n][channel[n]]) <= Capacity

\* There is a channel and somebody holds its receiver.
Open(n) == IF channel[n] = 0 THEN FALSE ELSE reading[n][channel[n]]
Room(n) == Len(queue[n][channel[n]]) < Capacity
Deliver(n, k) == queue' = [queue EXCEPT ![n][channel[n]] = Append(@, k)]

\* Variant: try_send, which gives up on a full channel.
TakeKeyTrySend(n) ==
  /\ holding[n] = 0
  /\ inbox[n] # <<>>
  /\ inbox' = [inbox EXCEPT ![n] = Tail(@)]
  /\ \/ ~Open(n) /\ UNCHANGED queue
     \/ Open(n) /\ Room(n) /\ Deliver(n, Head(inbox[n]))
     \/ Open(n) /\ ~Room(n) /\ UNCHANGED queue
  /\ UNCHANGED <<emulatorVars, wire, channel, holding, reading>>

\* Without a channel, or with one whose receiver is gone, the key is dropped.
\* With a full channel the manager waits and does nothing else.
TakeKey(n) ==
  /\ holding[n] = 0
  /\ inbox[n] # <<>>
  /\ inbox' = [inbox EXCEPT ![n] = Tail(@)]
  /\ LET k == Head(inbox[n]) IN
       \/ /\ ~Open(n)
          /\ UNCHANGED <<queue, holding>>
       \/ /\ Open(n) /\ Room(n)
          /\ Deliver(n, k)
          /\ UNCHANGED holding
       \/ /\ Open(n) /\ ~Room(n)
          /\ holding' = [holding EXCEPT ![n] = k]
          /\ UNCHANGED queue
  /\ UNCHANGED <<emulatorVars, wire, channel, reading>>

\* Variant: the send does not notice that the receiver is gone.
SendResumesUnnoticed(n) ==
  /\ holding[n] # 0
  /\ Open(n) /\ Room(n) /\ Deliver(n, holding[n])
  /\ holding' = [holding EXCEPT ![n] = 0]
  /\ UNCHANGED <<emulatorVars, wire, inbox, channel, reading>>

\* The send that waited goes through, or fails for the receiver is gone.
SendResumes(n) ==
  /\ holding[n] # 0
  /\ \/ Open(n) /\ Room(n) /\ Deliver(n, holding[n])
     \/ ~Open(n) /\ UNCHANGED queue
  /\ holding' = [holding EXCEPT ![n] = 0]
  /\ UNCHANGED <<emulatorVars, wire, inbox, channel, reading>>

\* Variant: the new channel starts with the keys the old one still holds.
RegisterCopies(n, s) ==
  /\ holding[n] = 0
  /\ channel' = [channel EXCEPT ![n] = s]
  /\ reading' = [reading EXCEPT ![n][s] = TRUE]
  /\ queue' = IF channel[n] = 0 THEN queue
              ELSE [queue EXCEPT ![n][s] = queue[n][channel[n]]]
  /\ UNCHANGED <<emulatorVars, wire, inbox, holding>>

\* A new channel replaces the old one, whose sender is dropped.
Register(n, s) ==
  /\ holding[n] = 0
  /\ channel' = [channel EXCEPT ![n] = s]
  /\ reading' = [reading EXCEPT ![n][s] = TRUE]
  /\ UNCHANGED <<emulatorVars, wire, inbox, holding, queue>>

QkdInit ==
  /\ made = 0
  /\ toSend = <<>>
  /\ link = [n \in Nodes |-> 1]
  /\ linked = [n \in Nodes |-> TRUE]
  /\ cuts = 0
  /\ wire = [n \in Nodes |-> [c \in Links |-> <<>>]]
  /\ inbox = [n \in Nodes |-> <<>>]
  /\ channel = [n \in Nodes |-> 0]
  /\ queue = [n \in Nodes |-> [s \in Sessions |-> <<>>]]
  /\ reading = [n \in Nodes |-> [s \in Sessions |-> FALSE]]
  /\ holding = [n \in Nodes |-> 0]
=============================================================================

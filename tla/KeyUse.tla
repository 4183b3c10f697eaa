------------------------------- MODULE KeyUse -------------------------------
(***************************************************************************)
(* What the delivery of keys promises to the sessions of two modules: a    *)
(* module uses its copy of a key in one session and never again, and the   *)
(* two copies are worked on together only if both are used in the same     *)
(* session.  This is the state in which KeySession begins.                 *)
(***************************************************************************)
EXTENDS Naturals

CONSTANTS
  Nodes,     \* the two modules
  Keys,      \* numbers of keys
  Sessions   \* numbers of sessions, from 1

VARIABLES
  made,   \* number of keys made
  use,    \* node -> key -> session that uses the node's copy, 0 if none does
  met     \* key -> session in which its copies have met, 0 if they have not

vars == <<made, use, met>>

Init ==
  /\ made = 0
  /\ use = [n \in Nodes |-> [k \in Keys |-> 0]]
  /\ met = [k \in Keys |-> 0]

Make ==
  /\ made' = made + 1
  /\ UNCHANGED <<use, met>>

\* The key is taken into some session.
Use(n, k) ==
  /\ k <= made
  /\ use[n][k] = 0
  /\ use'[n][k] \in Sessions
  /\ use' = [use EXCEPT ![n][k] = use'[n][k]]
  /\ UNCHANGED <<made, met>>

\* Both copies are in the session in which they meet.
Meet(k) ==
  /\ met[k] = 0
  /\ met'[k] \in Sessions
  /\ \A n \in Nodes : use[n][k] = met'[k]
  /\ met' = [met EXCEPT ![k] = met'[k]]
  /\ UNCHANGED <<made, use>>

Next ==
  \/ Make
  \/ \E n \in Nodes, k \in Keys : Use(n, k)
  \/ \E k \in Keys : Meet(k)

Spec == Init /\ [][Next]_vars
=============================================================================

--------------------------- MODULE Reconciliation ---------------------------
(***************************************************************************)
(* What the reconciliation of one key promises to the pipeline around it:  *)
(* it asks for parities one request at a time, every answered parity is    *)
(* added to the leak, wrong bits are only ever corrected, and it ends by   *)
(* itself.  KeySession builds on no more than this.                        *)
(***************************************************************************)
EXTENDS Naturals

VARIABLES
  state,     \* "idle", "waiting" for an answer, "done" or "failed"
  open,      \* parities in the open request, 0 if there is none
  leak,      \* parities the follower has told
  wrong      \* positions in which the keys differ

vars == <<state, open, leak, wrong>>

Init ==
  /\ state = "idle"
  /\ open = 0
  /\ leak = 0
  /\ wrong \in Nat

\* Cascade::step asks for at least one parity.
Ask ==
  /\ state = "idle"
  /\ open' \in Nat \ {0}
  /\ state' = "waiting"
  /\ UNCHANGED <<leak, wrong>>

\* Cascade::update
Learn ==
  /\ state = "waiting"
  /\ leak' = leak + open
  /\ wrong' \in 0..wrong
  /\ open' = 0
  /\ state' = "idle"

\* An answer that does not fit the request.
Refuse ==
  /\ state = "waiting"
  /\ state' = "failed"
  /\ open' = 0
  /\ UNCHANGED <<leak, wrong>>

End ==
  /\ state = "idle"
  /\ state' = "done"
  /\ UNCHANGED <<open, leak, wrong>>

Next == Ask \/ Learn \/ Refuse \/ End

SafeSpec == Init /\ [][Next]_vars

\* The pipeline always gets on with the key.
Ends == <>(state \in {"done", "failed"})

Spec == SafeSpec /\ Ends
=============================================================================

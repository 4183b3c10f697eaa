---------------------------- MODULE MCKeyDelivery ----------------------------
(***************************************************************************)
(* KeyDelivery for TLC.  The two modules are alike.                        *)
(***************************************************************************)
EXTENDS KeyDelivery

Symmetry == Permutations(Nodes)
=============================================================================

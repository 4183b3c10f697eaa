---------------------------- MODULE MCKeySession ----------------------------
(* An instance of KeySession: an empty key, keys the estimation samples     *)
(* completely (20), all but three bits of (40) and all but seven of (60).   *)
EXTENDS KeySession

MCLengths == {0, 20, 40, 60}
=============================================================================

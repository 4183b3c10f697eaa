------------------------------ MODULE MCCascade ------------------------------
(* An instance of Cascade: nine positions in three iterations with blocks   *)
(* of 2, 4 and 8 and a last block of 1 in each; the later shuffles part     *)
(* pairs the first one puts together.                                       *)
EXTENDS Cascade

MCShuffles ==
  {<<1, 2, 3, 4, 5, 6, 7, 8, 9>>, <<1, 3, 5, 7, 9, 2, 4, 6, 8>>,
   <<8, 1, 6, 3, 5, 7, 4, 9, 2>>}
MCReferences == {{}, {1, 4, 5, 8, 9}}
=============================================================================

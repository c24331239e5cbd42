------------------------------ MODULE MCNcclSim -----------------------------
(***************************************************************************)
(* NcclSim with a counter of three bits instead of 32 and a communicator   *)
(* of four ranks: two shrinks by two empty it, two by three wrap, and      *)
(* expands reach the saturation bound.                                     *)
(***************************************************************************)
EXTENDS NcclSim, TLC

MCAmount       == {0, 1, 2, 3}
MCAmountSerial == {0, 1, 3}

\* Calls differ in nothing but their name.
CallSymmetry == Permutations(Call)
=============================================================================

------------------------------ MODULE MCClaims ------------------------------
(***************************************************************************)
(* Instances of Claims for TLC.                                           *)
(***************************************************************************)
EXTENDS Claims, TLC

Symmetry == Permutations(Thread) \cup Permutations(Holder) \cup Permutations(Key)
=============================================================================

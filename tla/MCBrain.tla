-------------------------------- MODULE MCBrain --------------------------------
(***************************************************************************)
(* Instances of Brain for TLC.                                             *)
(***************************************************************************)
EXTENDS Brain

CONSTANTS t, u, v

\* The order of the letters.
Ordered == [some \in SUBSET Tab |-> SelectSeq(<<t, u, v>>, LAMBDA x : x \in some)]
=============================================================================

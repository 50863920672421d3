------------------------------ MODULE MCFleet ------------------------------
(***************************************************************************)
(* Instances of Fleet for TLC: two hosts with endpoints for each other, and *)
(* agents on either.                                                      *)
(***************************************************************************)
EXTENDS Fleet, TLC

CONSTANTS a, b, x, y, z

BothWays == {<<a, b>>, <<b, a>>}
TwoAgents == x :> a @@ y :> b
ThreeAgents == TwoAgents @@ z :> b

\* y and z are alike.
Symmetry == Permutations({y, z})
=============================================================================

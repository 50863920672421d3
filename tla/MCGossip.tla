------------------------------ MODULE MCGossip ------------------------------
(***************************************************************************)
(* Instances of Gossip for TLC.                                            *)
(***************************************************************************)
EXTENDS Gossip, TLC

CONSTANTS a, b, c, x, y

\* Two hosts with an endpoint for each other, as the docs advise.
BothWays == {<<a, b>>, <<b, a>>}

\* A registration on one side only, which the docs call legal.
OneWay == {<<a, b>>}

\* A chain of three: the ends never talk to each other.
Chain == {<<a, b>>, <<c, b>>}
Symmetry == Permutations(Agent)
=============================================================================

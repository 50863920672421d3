------------------------------- MODULE MCQos -------------------------------
(***************************************************************************)
(* Instances of Qos for TLC.                                               *)
(***************************************************************************)
EXTENDS Qos, TLC

CONSTANTS ada, grace, c1, c2, c3

\* Two calls of one account compete with one of another.
CallOwner == [c \in Call |-> IF c = c3 THEN grace ELSE ada]
Weights == ada :> 1 @@ grace :> 1
Estimates == [c \in Call |-> 2]
\* An answer may carry no rate-limit headers, or one that does not parse.
SomeReports == {<<-1, -1>>, <<3, 2>>, <<3, -1>>}
Costs == {3}
Symmetry == Permutations({c1, c2})
=============================================================================

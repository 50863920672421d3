------------------------------- MODULE MCRemote -------------------------------
(***************************************************************************)
(* Instances of Remote for TLC.                                            *)
(***************************************************************************)
EXTENDS Remote

CONSTANTS x, y, z

Two == <<y, x>>
First == <<x, y>>
Three == <<y, x, z>>

\* What the tabs begin with.
Behind == [t \in {x, y, z} |-> IF t = z THEN <<CHOOSE c \in Byte : TRUE>> ELSE <<>>]
Blank == [t \in Tab |-> <<>>]
=============================================================================

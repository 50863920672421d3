------------------------------ MODULE MCViewers ------------------------------
(***************************************************************************)
(* Instances of Viewers for TLC.                                           *)
(***************************************************************************)
EXTENDS Viewers

CONSTANTS v, w

\* The first bytes are one character, and the next two set a mode.
Mouse == {4, 5}
Some == {1, 2, 4}

\* Two viewers of the same frames; one connects a second time.
Shared == [viewers |-> {v, w}, selecting |-> {}, flaky |-> {v}, bursts |-> {2, 3},
    drops |-> 1, boots |-> 0, locks |-> 0]

\* One that selects text, reconnects, and survives a restart of the daemon.
Alone == [viewers |-> {v}, selecting |-> {v}, flaky |-> {v}, bursts |-> {3, 6},
    drops |-> 1, boots |-> 1, locks |-> 0]

\* The lock changes while the viewers' metas go out, over a restart.
Locked == [viewers |-> {v}, selecting |-> {}, flaky |-> {v}, bursts |-> {3},
    drops |-> 1, boots |-> 1, locks |-> 2]

Scenarios == {Shared, Alone, Locked}
Reconnect == {[viewers |-> {v}, selecting |-> {}, flaky |-> {v}, bursts |-> {3},
    drops |-> 1, boots |-> 0, locks |-> 0]}
=============================================================================

---------------------------- MODULE LeaseService ----------------------------
(***************************************************************************)
(* What the lease registry promises (the module comment and the doc        *)
(* comments of src/src/claims.rs): per key at most one lease, which lapses *)
(* by the clock; a lease passes to another holder only when it is free; it *)
(* is given back by its holder only; and every grant carries a fence above *)
(* all earlier ones.  What each holder believes it holds moves with it.    *)
(* There is no daemon, no lock and no file here.                           *)
(***************************************************************************)
EXTENDS Naturals

CONSTANTS Key, Holder, NoClaim, MinTtl, MaxTtl

VARIABLES
    now,    \* the clock
    lease,  \* the live lease of each key
    top,    \* the highest fence given out
    held    \* the leases their holders believe in

vars == <<now, lease, top, held>>

Free(k) == lease[k] = NoClaim

BeliefsOf(h, k) == {c \in held : c.holder = h /\ c.key = k}

Init ==
    /\ now = 0
    /\ lease = [k \in Key |-> NoClaim]
    /\ top = 0
    /\ held = {}

\* The clock moves, and the leases that end by then are over.
Tick ==
    /\ now' = now + 1
    /\ lease' = [k \in Key |-> IF ~Free(k) /\ lease[k].expires_ms > now'
                               THEN lease[k] ELSE NoClaim]
    /\ UNCHANGED <<top, held>>

\* A holder takes a free lease or renews its own.  The lease runs from the
\* moment at which it was asked for, so that it may be over already.
Grant(k, h, at, ttl) ==
    LET c == [key |-> k, holder |-> h, granted_ms |-> at,
              expires_ms |-> at + ttl, fence |-> top + 1]
    IN  /\ Free(k) \/ lease[k].holder = h
        /\ lease' = [lease EXCEPT ![k] = IF c.expires_ms > now THEN c ELSE NoClaim]
        /\ top' = top + 1
        /\ held' = (held \ BeliefsOf(h, k)) \cup {c}
        /\ UNCHANGED now

\* The holder, and nobody else, gives its lease back.
Release(k) ==
    /\ ~Free(k)
    /\ held' = held \ BeliefsOf(lease[k].holder, k)
    /\ lease' = [lease EXCEPT ![k] = NoClaim]
    /\ UNCHANGED <<now, top>>

Next ==
    \/ Tick
    \/ \E k \in Key, h \in Holder, at \in 0..now, ttl \in MinTtl..MaxTtl : Grant(k, h, at, ttl)
    \/ \E k \in Key : Release(k)

Spec == Init /\ [][Next]_vars
=============================================================================

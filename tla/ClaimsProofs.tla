---------------------------- MODULE ClaimsProofs ----------------------------
(***************************************************************************)
(* Theorems about Claims, for every set of keys, holders and threads and   *)
(* every bound, while one daemon runs (Spec: no restart).                  *)
(*                                                                         *)
(* Neither LeaseExclusive nor the two fence properties are inductive.      *)
(* The invariant that is, Inv, ties the three places that know about a     *)
(* grant together: the table (Current), the set of all grants (issued) and *)
(* the beliefs of the holders (held).                                      *)
(***************************************************************************)
EXTENDS Claims, TLAPS

\* Only a thread that went through the critical section has a body to write.
WritersLoaded == \A t \in Thread : pc[t] \in {"persist", "write"} => loaded

\* The clock a handler read is not ahead of the clock.
AskedInThePast == \A t \in Thread : pc[t] = "asked" => req[t].now <= now

\* The table holds grants only, each under its own key.
TableWasIssued ==
    \A k \in Key : Current.claims[k] # NoClaim =>
        Current.claims[k] \in issued /\ Current.claims[k].key = k

\* next_fence is above every fence given out.
FencesBelowNext == \A c \in issued : c.fence <= Current.next_fence

\* In the table or not, an entry has the highest fence of its key.
TableIsNewest ==
    \A c \in issued : Current.claims[c.key] # NoClaim =>
        c = Current.claims[c.key] \/ c.fence < Current.claims[c.key].fence

Inv ==
    /\ TypeOK
    /\ WritersLoaded
    /\ AskedInThePast
    /\ TableWasIssued
    /\ FencesBelowNext
    /\ TableIsNewest
    /\ FenceNamesOneGrant
    /\ NoLiveLeaseForgotten

----------------------------------------------------------------------------

LEMMA EmptyType == EmptyRegistry \in Registry
BY DEF EmptyRegistry, Registry

\* gc keeps the live claims, drops the others and touches nothing else.
LEMMA GcFacts ==
    ASSUME NEW r \in Registry, NEW t \in Nat
    PROVE  /\ Gc(r, t) \in Registry
           /\ Gc(r, t).next_fence = r.next_fence
           /\ \A k \in Key : Gc(r, t).claims[k] = IF LiveAt(r.claims[k], t) THEN r.claims[k] ELSE NoClaim
BY DEF Gc, Registry

\* clamp stays within its bounds.
LEMMA ClampFacts ==
    ASSUME NEW ttl \in Nat
    PROVE  Clamp(ttl) \in Nat /\ MinTtl <= Clamp(ttl) /\ Clamp(ttl) <= MaxTtl
BY TtlAssumption DEF Clamp

LEMMA CurrentType == TypeOK => Current \in Registry
BY DEF TypeOK, Current

LEMMA OpenedFacts ==
    ASSUME TypeOK
    PROVE  /\ Opened \in Registry
           /\ Opened.next_fence = Current.next_fence
           /\ \A k \in Key : Opened.claims[k] = IF LiveAt(Current.claims[k], now) THEN Current.claims[k] ELSE NoClaim
BY CurrentType, GcFacts DEF Opened, TypeOK

LEMMA GrantedType ==
    ASSUME NEW q \in Request, NEW f \in Nat
    PROVE  Granted(q, f) \in Claim
BY ClampFacts DEF Granted, Request, Claim

----------------------------------------------------------------------------

LEMMA InitInv == Init => Inv
<1> SUFFICES ASSUME Init PROVE Inv
    OBVIOUS
<1>1. TypeOK
    BY EmptyType DEF Init, TypeOK
<1>2. Current = EmptyRegistry
    BY DEF Init, Current
<1>3. WritersLoaded /\ AskedInThePast
    BY DEF Init, WritersLoaded, AskedInThePast
<1>4. TableWasIssued
    BY <1>2 DEF TableWasIssued, EmptyRegistry
<1>5. FencesBelowNext /\ TableIsNewest /\ FenceNamesOneGrant /\ NoLiveLeaseForgotten
    BY DEF Init, FencesBelowNext, TableIsNewest, FenceNamesOneGrant, NoLiveLeaseForgotten
<1> QED
    BY <1>1, <1>3, <1>4, <1>5 DEF Inv

\* What a critical section that changes nothing, or a look, leaves.
OnlyCollected == loaded' = TRUE /\ reg' = Opened /\ UNCHANGED <<now, issued, held>>

\* The five facts about table, grants and beliefs survive gc.
LEMMA CollectedInv ==
    ASSUME Inv, OnlyCollected
    PROVE  /\ TableWasIssued' /\ FencesBelowNext' /\ TableIsNewest'
           /\ FenceNamesOneGrant' /\ NoLiveLeaseForgotten'
<1>1. Current' = Opened
    BY DEF OnlyCollected, Current
<1>2. TypeOK
    BY DEF Inv
<1>3. TableWasIssued'
    BY <1>1, <1>2, OpenedFacts DEF Inv, TableWasIssued, OnlyCollected
<1>4. FencesBelowNext'
    BY <1>1, <1>2, OpenedFacts DEF Inv, FencesBelowNext, OnlyCollected
<1>5. TableIsNewest'
    BY <1>1, <1>2, OpenedFacts DEF Inv, TableIsNewest, OnlyCollected, TypeOK, Claim
<1>6. FenceNamesOneGrant'
    BY DEF Inv, FenceNamesOneGrant, OnlyCollected
<1>7. NoLiveLeaseForgotten'
    BY <1>1, <1>2, OpenedFacts DEF Inv, NoLiveLeaseForgotten, OnlyCollected, TypeOK, Claim
<1> QED
    BY <1>3, <1>4, <1>5, <1>6, <1>7

\* A step that leaves the table, the grants and the beliefs alone, and does
\* not turn the clock back, preserves the five facts as well.
LEMMA SameTableInv ==
    ASSUME Inv, Current' = Current, UNCHANGED <<issued, held>>,
           now' \in Nat, now' >= now
    PROVE  /\ TableWasIssued' /\ FencesBelowNext' /\ TableIsNewest'
           /\ FenceNamesOneGrant' /\ NoLiveLeaseForgotten'
<1>1. TableWasIssued' /\ FencesBelowNext' /\ TableIsNewest' /\ FenceNamesOneGrant'
    BY DEF Inv, TableWasIssued, FencesBelowNext, TableIsNewest, FenceNamesOneGrant
<1>2. NoLiveLeaseForgotten'
    BY DEF Inv, NoLiveLeaseForgotten, LiveAt, TypeOK, Claim
<1> QED
    BY <1>1, <1>2

----------------------------------------------------------------------------

LEMMA TickInv == Inv /\ Tick => Inv'
<1> SUFFICES ASSUME Inv, Tick PROVE Inv'
    OBVIOUS
<1>1. TypeOK'
    BY DEF Inv, TypeOK, Tick
<1>2. Current' = Current /\ now' \in Nat /\ now' >= now
    BY DEF Current, Tick, Inv, TypeOK
<1>3. WritersLoaded' /\ AskedInThePast'
    BY <1>2 DEF Inv, Tick, WritersLoaded, AskedInThePast, TypeOK, Request
<1> QED
    BY <1>1, <1>2, <1>3, SameTableInv DEF Inv, Tick

LEMMA LookInv == Inv /\ Look => Inv'
<1> SUFFICES ASSUME Inv, Look PROVE Inv'
    OBVIOUS
<1>1. TypeOK'
    BY OpenedFacts DEF Inv, TypeOK, Look
<1>2. WritersLoaded' /\ AskedInThePast'
    BY DEF Inv, Look, WritersLoaded, AskedInThePast
<1> QED
    BY <1>1, <1>2, CollectedInv DEF Inv, Look, OnlyCollected

LEMMA AskInv ==
    ASSUME NEW t \in Thread, NEW q \in Request, q.now = now, Inv, Ask(t, q)
    PROVE  Inv'
<1>1. TypeOK'
    BY DEF Inv, TypeOK, Ask
<1>2. Current' = Current
    BY DEF Current, Ask
<1>3. WritersLoaded' /\ AskedInThePast'
    BY DEF Inv, Ask, WritersLoaded, AskedInThePast, TypeOK, Request
<1> QED
    BY <1>1, <1>2, <1>3, SameTableInv DEF Inv, Ask, TypeOK

LEMMA UnchangedInv ==
    ASSUME NEW t \in Thread, Inv, pc[t] = "asked", Unchanged(t)
    PROVE  Inv'
<1>1. TypeOK'
    BY OpenedFacts, EmptyType DEF Inv, TypeOK, Unchanged, Replied
<1>2. WritersLoaded' /\ AskedInThePast'
    BY DEF Inv, Unchanged, Replied, WritersLoaded, AskedInThePast, TypeOK
<1> QED
    BY <1>1, <1>2, CollectedInv DEF Inv, Unchanged, OnlyCollected

\* The new claim has a fence above all others, so that it is the newest of
\* its key; the old beliefs of other holders in that key are over, for their
\* claim was not live in the table.
LEMMA GrantOkInv ==
    ASSUME NEW t \in Thread, Inv, GrantOk(t)
    PROVE  Inv'
<1> DEFINE q == req[t]
           r == Opened
           f == r.next_fence + 1
           c == Granted(q, f)
           new == [claims |-> [r.claims EXCEPT ![q.key] = c], next_fence |-> f]
<1>1. /\ pc[t] = "asked" /\ ~Blocks(r.claims[q.key], q)
      /\ Changed(t, new)
      /\ issued' = issued \cup {c}
      /\ held' = (held \ HeldBy(q.holder, q.key)) \cup {c}
    BY DEF GrantOk
<1>2. TypeOK /\ q \in Request /\ q.now <= now /\ now \in Nat
    BY <1>1 DEF Inv, TypeOK, AskedInThePast
<1>3. r \in Registry /\ f \in Nat /\ f = Current.next_fence + 1
    BY <1>2, OpenedFacts DEF Registry
<1>4. c \in Claim /\ c.key = q.key /\ c.holder = q.holder /\ c.fence = f
    BY <1>2, <1>3, GrantedType DEF Granted
<1>5. new \in Registry /\ q.key \in Key
    BY <1>2, <1>3, <1>4 DEF Registry, Request
<1>6. Current' = new
    BY <1>1 DEF Changed, Current
<1>7. \A k \in Key : new.claims[k] = IF k = q.key THEN c ELSE r.claims[k]
    BY <1>3, <1>5 DEF Registry
<1>8. \A k \in Key : r.claims[k] = IF LiveAt(Current.claims[k], now) THEN Current.claims[k] ELSE NoClaim
    BY <1>2, OpenedFacts
<1>9. \A d \in issued : d \in Claim /\ d.fence < f
    BY <1>2, <1>3, CurrentType DEF Inv, FencesBelowNext, TypeOK, Claim, Registry
<1> HIDE DEF q, r, f, c, new
<1>10. TypeOK'
    <2>1. held' \subseteq issued' /\ issued' \subseteq Claim
        BY <1>1, <1>2, <1>4 DEF TypeOK
    <2> QED
        BY <1>1, <1>2, <1>5, <2>1 DEF TypeOK, Changed, q
<1>11. WritersLoaded' /\ AskedInThePast'
    BY <1>1, <1>2 DEF Inv, Changed, WritersLoaded, AskedInThePast, TypeOK
<1>12. TableWasIssued'
    BY <1>1, <1>4, <1>5, <1>6, <1>7, <1>8 DEF Inv, TableWasIssued
<1>13. FencesBelowNext'
    <2>1. new.next_fence = f
        BY DEF new
    <2> QED
        BY <1>1, <1>3, <1>4, <1>6, <1>9, <2>1 DEF FencesBelowNext, Claim
<1>14. TableIsNewest'
    <2> SUFFICES ASSUME NEW d \in issued', new.claims[d.key] # NoClaim
                 PROVE  d = new.claims[d.key] \/ d.fence < new.claims[d.key].fence
        BY <1>6 DEF TableIsNewest
    <2>1. CASE d = c
        BY <2>1, <1>4, <1>5, <1>7
    <2>2. CASE d # c /\ d.key = q.key
        BY <2>2, <1>1, <1>4, <1>5, <1>7, <1>9
    <2>3. CASE d # c /\ d.key # q.key
        <3>1. d \in issued /\ d.key \in Key
            BY <2>3, <1>1, <1>9 DEF Claim
        <3>2. new.claims[d.key] = Current.claims[d.key]
            BY <2>3, <3>1, <1>7, <1>8
        <3> QED
            BY <3>1, <3>2 DEF Inv, TableIsNewest
    <2> QED
        BY <2>1, <2>2, <2>3
<1>15. FenceNamesOneGrant'
    BY <1>1, <1>3, <1>4, <1>9 DEF Inv, FenceNamesOneGrant
<1>16. NoLiveLeaseForgotten'
    <2> SUFFICES ASSUME NEW d \in held', LiveAt(d, now)
                 PROVE  new.claims[d.key] = d
        BY <1>1, <1>6 DEF NoLiveLeaseForgotten, Changed
    <2>1. CASE d = c
        BY <2>1, <1>4, <1>5, <1>7
    <2>2. CASE d # c
        <3>1. d \in held /\ d \in Claim /\ ~(d.holder = q.holder /\ d.key = q.key)
            BY <2>2, <1>1, <1>2 DEF HeldBy, TypeOK
        <3>2. Current.claims[d.key] = d /\ d.key \in Key
            BY <3>1 DEF Inv, NoLiveLeaseForgotten, Claim
        <3>3. r.claims[d.key] = d
            BY <3>2, <1>8
        <3>4. d.key # q.key
            <4> SUFFICES ASSUME d.key = q.key PROVE FALSE
                OBVIOUS
            <4>1. LiveAt(d, q.now)
                BY <1>2, <3>1 DEF LiveAt, Claim, Request
            <4>2. Blocks(r.claims[q.key], q)
                BY <3>1, <3>3, <4>1 DEF Blocks
            <4> QED
                BY <1>1, <4>2
        <3> QED
            BY <3>2, <3>3, <3>4, <1>7
    <2> QED
        BY <2>1, <2>2
<1> QED
    BY <1>10, <1>11, <1>12, <1>13, <1>14, <1>15, <1>16 DEF Inv

\* A release takes away the releasing holder's own claim and its belief.
LEMMA ReleaseOkInv ==
    ASSUME NEW t \in Thread, Inv, ReleaseOk(t)
    PROVE  Inv'
<1> DEFINE q == req[t]
           r == Opened
           new == [r EXCEPT !.claims[q.key] = NoClaim]
<1>1. /\ pc[t] = "asked" /\ MayRelease(r.claims[q.key], q)
      /\ Changed(t, new)
      /\ issued' = issued
      /\ held' = held \ HeldBy(q.holder, q.key)
    BY DEF ReleaseOk
<1>2. TypeOK /\ q \in Request /\ q.key \in Key
    BY <1>1 DEF Inv, TypeOK, Request
<1>3. r \in Registry /\ r.next_fence = Current.next_fence
    BY <1>2, OpenedFacts
<1>4. /\ new \in Registry
      /\ new.next_fence = Current.next_fence
      /\ \A k \in Key : new.claims[k] = IF k = q.key THEN NoClaim ELSE r.claims[k]
    BY <1>2, <1>3 DEF Registry
<1>5. Current' = new
    BY <1>1 DEF Changed, Current
<1>6. \A k \in Key : r.claims[k] = IF LiveAt(Current.claims[k], now) THEN Current.claims[k] ELSE NoClaim
    BY <1>2, OpenedFacts
<1>7. \A d \in issued : d \in Claim /\ d.key \in Key
    BY <1>2 DEF TypeOK, Claim
<1> HIDE DEF q, r, new
<1>8. TypeOK'
    BY <1>1, <1>2, <1>4 DEF TypeOK, Changed, q
<1>9. WritersLoaded' /\ AskedInThePast'
    BY <1>1, <1>2 DEF Inv, Changed, WritersLoaded, AskedInThePast, TypeOK
<1>10. TableWasIssued'
    BY <1>1, <1>4, <1>5, <1>6 DEF Inv, TableWasIssued
<1>11. FencesBelowNext' /\ FenceNamesOneGrant'
    BY <1>1, <1>4, <1>5 DEF Inv, FencesBelowNext, FenceNamesOneGrant
<1>12. TableIsNewest'
    BY <1>1, <1>4, <1>5, <1>6, <1>7 DEF Inv, TableIsNewest
<1>13. NoLiveLeaseForgotten'
    <2> SUFFICES ASSUME NEW d \in held', LiveAt(d, now)
                 PROVE  new.claims[d.key] = d
        BY <1>1, <1>5 DEF NoLiveLeaseForgotten, Changed
    <2>1. d \in held /\ d.key \in Key /\ ~(d.holder = q.holder /\ d.key = q.key)
        BY <1>1, <1>2, <1>7 DEF HeldBy, TypeOK
    <2>2. r.claims[d.key] = d
        BY <2>1, <1>6 DEF Inv, NoLiveLeaseForgotten
    <2>3. d.key # q.key
        BY <2>1, <2>2, <1>1 DEF MayRelease
    <2> QED
        BY <2>1, <2>2, <2>3, <1>4
<1> QED
    BY <1>8, <1>9, <1>10, <1>11, <1>12, <1>13 DEF Inv

\* The file plays no part while the daemon runs.
LEMMA FileInv ==
    ASSUME NEW t \in Thread, Inv, Truncate(t) \/ Write(t) \/ WriteFails(t)
    PROVE  Inv'
<1>1. pc[t] \in {"persist", "write"} /\ loaded
    BY DEF Inv, WritersLoaded, Truncate, Write, WriteFails
<1>2. TypeOK'
    <2>1. CASE Truncate(t)
        BY <2>1, EmptyType DEF Inv, TypeOK, Truncate
    <2>2. CASE Write(t)
        <3>1. disk' \in Registry
            BY <2>2, EmptyType DEF Inv, TypeOK, Write
        <3> QED
            BY <2>2, <3>1, EmptyType DEF Inv, TypeOK, Write, Replied
    <2>3. CASE WriteFails(t)
        BY <2>3, EmptyType DEF Inv, TypeOK, WriteFails, Replied
    <2> QED
        BY <2>1, <2>2, <2>3
<1>3. Current' = Current
    BY <1>1 DEF Current, Truncate, Write, WriteFails
<1>4. WritersLoaded' /\ AskedInThePast'
    BY <1>1 DEF Inv, TypeOK, Truncate, Write, WriteFails, Replied, WritersLoaded, AskedInThePast
<1> QED
    BY <1>2, <1>3, <1>4, SameTableInv DEF Inv, Truncate, Write, WriteFails, TypeOK

LEMMA NextInv == Inv /\ [Next]_vars => Inv'
<1> SUFFICES ASSUME Inv, [Next]_vars PROVE Inv'
    OBVIOUS
<1>1. CASE Tick
    BY <1>1, TickInv
<1>2. CASE Look
    BY <1>2, LookInv
<1>3. ASSUME NEW t \in Thread, AskGrant(t) PROVE Inv'
    <2>1. PICK k \in Key, h \in Holder, ttl \in AskedTtl :
            Ask(t, [op |-> "grant", key |-> k, holder |-> h, ttl |-> ttl, now |-> now])
        BY <1>3 DEF AskGrant
    <2>2. [op |-> "grant", key |-> k, holder |-> h, ttl |-> ttl, now |-> now] \in Request
        BY TtlAssumption DEF Request, Inv, TypeOK
    <2> QED
        BY <2>1, <2>2, AskInv
<1>4. ASSUME NEW t \in Thread, AskRelease(t) PROVE Inv'
    <2>1. PICK k \in Key, h \in Holder :
            Ask(t, [op |-> "release", key |-> k, holder |-> h, ttl |-> 0, now |-> now])
        BY <1>4 DEF AskRelease
    <2>2. [op |-> "release", key |-> k, holder |-> h, ttl |-> 0, now |-> now] \in Request
        BY DEF Request, Inv, TypeOK
    <2> QED
        BY <2>1, <2>2, AskInv
<1>5. ASSUME NEW t \in Thread, Serve(t) PROVE Inv'
    <2>1. CASE GrantOk(t)
        BY <2>1, GrantOkInv
    <2>2. CASE GrantHeld(t) \/ ReleaseNoop(t)
        BY <2>2, UnchangedInv DEF GrantHeld, ReleaseNoop
    <2>3. CASE ReleaseOk(t)
        BY <2>3, ReleaseOkInv
    <2>4. CASE Truncate(t) \/ Write(t) \/ WriteFails(t)
        BY <2>4, FileInv
    <2> QED
        BY <1>5, <2>1, <2>2, <2>3, <2>4 DEF Serve
<1>6. CASE UNCHANGED vars
    BY <1>6 DEF vars, Inv, TypeOK, WritersLoaded, AskedInThePast, TableWasIssued, FencesBelowNext,
                TableIsNewest, FenceNamesOneGrant, NoLiveLeaseForgotten, Current, LiveAt
<1> QED
    BY <1>1, <1>2, <1>3, <1>4, <1>5, <1>6 DEF Next

LEMMA InvHolds == Spec => []Inv
BY InitInv, NextInv, PTL DEF Spec

----------------------------------------------------------------------------

\* The state of the daemon always has the declared shape.
THEOREM TypeCorrect == Spec => []TypeOK
<1>1. Inv => TypeOK
    BY DEF Inv
<1> QED
    BY <1>1, InvHolds, PTL

\* Two agents never both believe in a live lease on one key, however many
\* threads serve them and however late each takes the lock.
THEOREM MutualExclusion == Spec => []LeaseExclusive
<1>1. Inv => LeaseExclusive
    BY DEF Inv, NoLiveLeaseForgotten, LeaseExclusive
<1> QED
    BY <1>1, InvHolds, PTL

\* No fence is given out twice while the daemon runs.
THEOREM FenceUnique == Spec => []FenceNamesOneGrant
<1>1. Inv => FenceNamesOneGrant
    BY DEF Inv
<1> QED
    BY <1>1, InvHolds, PTL

\* A claim that is no longer the one in the table has a smaller fence.
THEOREM FenceOrder == Spec => []StaleFenceIsSmaller
<1>1. Inv => StaleFenceIsSmaller
    BY DEF Inv, TableIsNewest, StaleFenceIsSmaller, LiveAt
<1> QED
    BY <1>1, InvHolds, PTL

\* The table has every live lease that a holder believes in.
THEOREM NothingForgotten == Spec => []NoLiveLeaseForgotten
<1>1. Inv => NoLiveLeaseForgotten
    BY DEF Inv
<1> QED
    BY <1>1, InvHolds, PTL

----------------------------------------------------------------------------
(* The daemon implements LeaseService.                                     *)

\* A step that only collects is invisible: Lease already hid what gc drops.
LEMMA CollectedIsInvisible ==
    ASSUME TypeOK, now' = now, loaded' = TRUE, reg' = Opened
    PROVE  Lease' = Lease /\ Current'.next_fence = Current.next_fence
<1>1. Current' = Opened
    BY DEF Current
<1>2. \A k \in Key : Opened.claims[k] = IF LiveAt(Current.claims[k], now) THEN Current.claims[k] ELSE NoClaim
    BY OpenedFacts
<1>3. \A k \in Key : LiveAt(Opened.claims[k], now) <=> LiveAt(Current.claims[k], now)
    BY <1>2 DEF LiveAt
<1> QED
    BY <1>1, <1>2, <1>3, OpenedFacts DEF Lease

LEMMA SameTableIsInvisible ==
    ASSUME now' = now, Current' = Current
    PROVE  UNCHANGED <<now, Lease, Current.next_fence>>
BY DEF Lease

LEMMA TickRefines == Inv /\ Tick => Service!Tick
<1> SUFFICES ASSUME Inv, Tick PROVE Service!Tick
    OBVIOUS
<1>1. Current' = Current /\ now' = now + 1 /\ now \in Nat /\ held' = held
    BY DEF Tick, Current, Inv, TypeOK
<1>2. \A k \in Key : Current.claims[k] \in Claim \cup {NoClaim}
    BY CurrentType DEF Inv, Registry
<1>3. Lease' = [k \in Key |-> IF ~Service!Free(k) /\ Lease[k].expires_ms > now' THEN Lease[k] ELSE NoClaim]
    <2>1. \A k \in Key : (LiveAt(Current.claims[k], now))' <=> LiveAt(Current.claims[k], now')
        BY <1>1 DEF LiveAt
    <2>2. ASSUME NEW k \in Key
          PROVE  LiveAt(Current.claims[k], now') <=> ~Service!Free(k) /\ Lease[k].expires_ms > now'
        BY <1>1, <1>2 DEF LiveAt, Lease, Service!Free, Claim
    <2>3. ASSUME NEW k \in Key, LiveAt(Current.claims[k], now')
          PROVE  Lease[k] = Current.claims[k]
        BY <2>3, <1>1, <1>2 DEF LiveAt, Lease, Claim
    <2> QED
        BY <1>1, <2>1, <2>2, <2>3 DEF Lease
<1> QED
    BY <1>1, <1>3 DEF Service!Tick

LEMMA GrantOkRefines ==
    ASSUME NEW t \in Thread, Inv, GrantOk(t)
    PROVE  Service!Next
<1> DEFINE q == req[t]
           r == Opened
           c == Granted(q, r.next_fence + 1)
           new == [claims |-> [r.claims EXCEPT ![q.key] = c], next_fence |-> r.next_fence + 1]
<1>1. /\ pc[t] = "asked" /\ ~Blocks(r.claims[q.key], q) /\ Changed(t, new)
      /\ held' = (held \ Service!BeliefsOf(q.holder, q.key)) \cup {c}
    BY DEF GrantOk, HeldBy, Service!BeliefsOf
<1>2. TypeOK /\ q \in Request /\ q.now \in 0..now /\ now \in Nat /\ now' = now
    BY <1>1 DEF Inv, TypeOK, AskedInThePast, Request, Changed
<1>3. /\ q.key \in Key /\ q.holder \in Holder /\ q.ttl \in Nat
      /\ Clamp(q.ttl) \in MinTtl..MaxTtl
    BY <1>2, ClampFacts, TtlAssumption DEF Request
<1>4. r \in Registry /\ r.next_fence = Current.next_fence
    BY <1>2, OpenedFacts
<1>5. c \in Claim /\ c # NoClaim
    BY <1>2, <1>4, GrantedType, NoClaimAssumption DEF Registry
<1>6. Current' = new
    BY <1>1 DEF Changed, Current
<1>7. \A k \in Key : new.claims[k] = IF k = q.key THEN c ELSE r.claims[k]
    BY <1>3, <1>4, <1>5 DEF Registry
<1>8. \A k \in Key : r.claims[k] = Lease[k]
    BY <1>2, OpenedFacts DEF Lease
<1>9. \A k \in Key : Lease[k] # NoClaim => Lease[k] \in Claim /\ LiveAt(Lease[k], now)
    BY <1>2, CurrentType DEF Lease, LiveAt, Registry
<1>10. Service!Free(q.key) \/ Lease[q.key].holder = q.holder
    BY <1>1, <1>2, <1>3, <1>8, <1>9 DEF Service!Free, Blocks, LiveAt, Claim
<1>11. c = [key |-> q.key, holder |-> q.holder, granted_ms |-> q.now,
            expires_ms |-> q.now + Clamp(q.ttl), fence |-> Current.next_fence + 1]
    BY <1>4 DEF Granted
<1>12. Lease' = [Lease EXCEPT ![q.key] = IF c.expires_ms > now THEN c ELSE NoClaim]
    <2>1. Lease' = [k \in Key |-> IF LiveAt(new.claims[k], now) THEN new.claims[k] ELSE NoClaim]
        BY <1>2, <1>6 DEF Lease, LiveAt
    <2>2. ASSUME NEW k \in Key, k # q.key
          PROVE  (IF LiveAt(new.claims[k], now) THEN new.claims[k] ELSE NoClaim) = Lease[k]
        BY <2>2, <1>7, <1>8, <1>9
    <2>3. LiveAt(new.claims[q.key], now) <=> c.expires_ms > now
        BY <1>3, <1>5, <1>7 DEF LiveAt
    <2>4. new.claims[q.key] = c
        BY <1>3, <1>7
    <2> HIDE DEF c, new
    <2> QED
        BY <1>3, <2>1, <2>2, <2>3, <2>4 DEF Lease
<1>13. Current'.next_fence = Current.next_fence + 1
    BY <1>4, <1>6
<1> HIDE DEF q, c, new, r
<1>14. Service!Grant(q.key, q.holder, q.now, Clamp(q.ttl))
    BY <1>1, <1>2, <1>10, <1>11, <1>12, <1>13 DEF Service!Grant
<1> QED
    BY <1>2, <1>3, <1>14 DEF Service!Next

LEMMA ReleaseOkRefines ==
    ASSUME NEW t \in Thread, Inv, ReleaseOk(t)
    PROVE  Service!Next
<1> DEFINE q == req[t]
           r == Opened
           new == [r EXCEPT !.claims[q.key] = NoClaim]
<1>1. /\ pc[t] = "asked" /\ MayRelease(r.claims[q.key], q) /\ Changed(t, new)
      /\ held' = held \ HeldBy(q.holder, q.key)
    BY DEF ReleaseOk
<1>2. TypeOK /\ q.key \in Key /\ now' = now
    BY <1>1 DEF Inv, TypeOK, Request, Changed
<1>3. r \in Registry /\ r.next_fence = Current.next_fence
    BY <1>2, OpenedFacts
<1>4. Current' = new
    BY <1>1 DEF Changed, Current
<1>5. \A k \in Key : new.claims[k] = IF k = q.key THEN NoClaim ELSE r.claims[k]
    BY <1>2, <1>3 DEF Registry
<1>6. \A k \in Key : r.claims[k] = Lease[k]
    BY <1>2, OpenedFacts DEF Lease
<1>7. \A k \in Key : Lease[k] # NoClaim => LiveAt(Lease[k], now)
    BY DEF Lease
<1>8. ~Service!Free(q.key)
    BY <1>1, <1>2, <1>6 DEF MayRelease, LiveAt, Service!Free
<1>9. Lease' = [Lease EXCEPT ![q.key] = NoClaim]
    <2>1. Lease' = [k \in Key |-> IF LiveAt(new.claims[k], now) THEN new.claims[k] ELSE NoClaim]
        BY <1>2, <1>4 DEF Lease, LiveAt
    <2>2. ASSUME NEW k \in Key
          PROVE  (IF LiveAt(new.claims[k], now) THEN new.claims[k] ELSE NoClaim)
                    = IF k = q.key THEN NoClaim ELSE Lease[k]
        BY <1>5, <1>6, <1>7
    <2> HIDE DEF new
    <2> QED
        BY <1>2, <2>1, <2>2 DEF Lease
<1>10. Current'.next_fence = Current.next_fence
    BY <1>3, <1>4
<1>11. held' = held \ Service!BeliefsOf(Lease[q.key].holder, q.key)
    BY <1>1, <1>2, <1>6 DEF MayRelease, HeldBy, Service!BeliefsOf
<1> HIDE DEF q, new, r
<1> QED
    BY <1>2, <1>8, <1>9, <1>10, <1>11 DEF Service!Next, Service!Release

LEMMA InitRefines == Init => Service!Init
BY DEF Init, Service!Init, Lease, Current, EmptyRegistry, LiveAt

LEMMA StepRefines == Inv /\ [Next]_vars => [Service!Next]_(Service!vars)
<1> SUFFICES ASSUME Inv, [Next]_vars PROVE [Service!Next]_(Service!vars)
    OBVIOUS
<1> USE DEF Service!vars
<1>1. CASE Tick
    BY <1>1, TickRefines DEF Service!Next
<1>2. CASE Look
    BY <1>2, CollectedIsInvisible DEF Look, Inv
<1>3. ASSUME NEW t \in Thread, AskGrant(t) \/ AskRelease(t)
      PROVE  UNCHANGED Service!vars
    <2>1. now' = now /\ Current' = Current /\ held' = held
        BY <1>3 DEF AskGrant, AskRelease, Ask, Current
    <2> QED
        BY <2>1, SameTableIsInvisible
<1>4. ASSUME NEW t \in Thread, Serve(t) PROVE [Service!Next]_(Service!vars)
    <2>1. CASE GrantOk(t)
        BY <2>1, GrantOkRefines
    <2>2. CASE GrantHeld(t) \/ ReleaseNoop(t)
        BY <2>2, CollectedIsInvisible DEF GrantHeld, ReleaseNoop, Unchanged, Inv
    <2>3. CASE ReleaseOk(t)
        BY <2>3, ReleaseOkRefines
    <2>4. CASE Truncate(t) \/ Write(t) \/ WriteFails(t)
        <3>1. now' = now /\ Current' = Current /\ held' = held
            BY <2>4 DEF Truncate, Write, WriteFails, Current, Inv, WritersLoaded
        <3> QED
            BY <3>1, SameTableIsInvisible
    <2> QED
        BY <1>4, <2>1, <2>2, <2>3, <2>4 DEF Serve
<1>5. CASE UNCHANGED vars
    <2>1. now' = now /\ Current' = Current /\ held' = held
        BY <1>5 DEF vars, Current
    <2> QED
        BY <2>1, SameTableIsInvisible
<1> QED
    BY <1>1, <1>2, <1>3, <1>4, <1>5 DEF Next

\* Every behaviour of the daemon is one of the lease service: per key one
\* lease, passed on only when free, with fences that grow.
THEOREM Implements == Spec => ServiceSpec
<1>1. Inv /\ [Next]_vars => [Service!Next]_(Service!vars)
    BY StepRefines
<1> QED
    BY <1>1, InitRefines, InvHolds, PTL DEF Spec, ServiceSpec, Service!Spec
=============================================================================

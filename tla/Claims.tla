------------------------------- MODULE Claims -------------------------------
(***************************************************************************)
(* The lease registry of one daemon: src/src/claims.rs and its two HTTP    *)
(* handlers, src/src/api/claims_route.rs.                                  *)
(*                                                                         *)
(* A request is served by one thread of the HTTP server.  The handler      *)
(* reads the clock, waits for the registry lock, runs grant or release     *)
(* in one critical section that also serialises the table, leaves the      *)
(* lock, and only then writes the file.  The reply follows the write.      *)
(* Requests of several threads interleave between any two of these steps.  *)
(***************************************************************************)
EXTENDS Naturals

CONSTANTS
    Key,            \* lease names (after sanitize: trimmed, non-empty)
    Holder,         \* agents asking for leases (after sanitize)
    Thread,         \* threads of the HTTP server
    NoClaim,        \* "this key has no entry"
    NoRequest,      \* an idle thread serves nothing
    MinTtl, MaxTtl, \* MIN_TTL_MS, MAX_TTL_MS
    AskedTtl,       \* the ttl_ms values that requests carry
    DiskMayFail,    \* whether fs::write may fail (its error is dropped)
    MaxTime,        \* bound: the clock stops here
    MaxFence        \* bound: no new grant is asked for past this fence

ASSUME TtlAssumption ==
    /\ MinTtl \in Nat \ {0} /\ MaxTtl \in Nat /\ MinTtl <= MaxTtl
    /\ AskedTtl \subseteq Nat
ASSUME BoundAssumption == MaxTime \in Nat /\ MaxFence \in Nat
ASSUME DiskAssumption == DiskMayFail \in BOOLEAN

Claim == [key: Key, holder: Holder, granted_ms: Nat, expires_ms: Nat, fence: Nat]

ASSUME NoClaimAssumption == NoClaim \notin Claim

Registry == [claims: [Key -> Claim \cup {NoClaim}], next_fence: Nat]

Request == [op: {"grant", "release"}, key: Key, holder: Holder, ttl: Nat, now: Nat]

VARIABLES
    now,      \* crate::unix_millis()
    loaded,   \* REGISTRY is Some
    reg,      \* the Registry in memory
    disk,     \* the Registry that loading claims.json would give
    blank,    \* claims.json is absent or has just been truncated
    pc,       \* where each thread stands
    req,      \* the request each thread serves
    body,     \* to_persist: the snapshot each thread has still to write
    issued,   \* history: every claim ever granted
    held      \* history: the leases their holders believe in

vars == <<now, loaded, reg, disk, blank, pc, req, body, issued, held>>

----------------------------------------------------------------------------

\* Registry::default()
EmptyRegistry == [claims |-> [k \in Key |-> NoClaim], next_fence |-> 0]

\* Claim::live_at
LiveAt(c, t) == c # NoClaim /\ c.expires_ms > t

\* ttl_ms.clamp(MIN_TTL_MS, MAX_TTL_MS)
Clamp(ttl) == IF ttl < MinTtl THEN MinTtl ELSE IF ttl > MaxTtl THEN MaxTtl ELSE ttl

\* Registry::gc
Gc(r, t) == [r EXCEPT !.claims =
                [k \in Key |-> IF LiveAt(r.claims[k], t) THEN r.claims[k] ELSE NoClaim]]

\* Variants ending in _x are bugs this code could have; no action uses them.
Current_x == IF loaded THEN reg ELSE EmptyRegistry   \* the file is never read

\* The registry in memory, or the one that the first use would load.
Current == IF loaded THEN reg ELSE disk

\* What the closure given to with_registry sees: the registry, collected
\* with a clock read inside the lock.
Opened == Gc(Current, now)

\* Refused only by a lease that outlives the new one.
Blocks_x(c, q) == LiveAt(c, q.now + Clamp(q.ttl)) /\ c.holder # q.holder

\* The claim that refuses a grant: live when the handler read the clock,
\* and somebody else's.
Blocks(c, q) == LiveAt(c, q.now) /\ c.holder # q.holder

\* A new claim on a key keeps the fence of the entry it replaces.
Granted_x(q, fence) ==
    LET cur == Current.claims[q.key]
    IN  [key |-> q.key, holder |-> q.holder, granted_ms |-> q.now,
         expires_ms |-> q.now + Clamp(q.ttl),
         fence |-> IF cur = NoClaim THEN fence ELSE cur.fence]

\* The fence wraps around.
Granted_y(q, fence) == [key |-> q.key, holder |-> q.holder, granted_ms |-> q.now,
                        expires_ms |-> q.now + Clamp(q.ttl), fence |-> fence % 2]

Granted(q, fence) == [key |-> q.key, holder |-> q.holder, granted_ms |-> q.now,
                      expires_ms |-> q.now + Clamp(q.ttl), fence |-> fence]

Init ==
    /\ now = 0
    /\ loaded = FALSE
    /\ reg = EmptyRegistry
    /\ disk = EmptyRegistry
    /\ blank = TRUE
    /\ pc = [t \in Thread |-> "idle"]
    /\ req = [t \in Thread |-> NoRequest]
    /\ body = [t \in Thread |-> EmptyRegistry]
    /\ issued = {}
    /\ held = {}

----------------------------------------------------------------------------

\* Time passes between any two steps of the threads.
Tick ==
    /\ now < MaxTime
    /\ now' = now + 1
    /\ UNCHANGED <<loaded, reg, disk, blank, pc, req, body, issued, held>>

\* A handler parses its request and reads the clock, before the lock.
Ask(t, q) ==
    /\ pc[t] = "idle"
    /\ pc' = [pc EXCEPT ![t] = "asked"]
    /\ req' = [req EXCEPT ![t] = q]
    /\ UNCHANGED <<now, loaded, reg, disk, blank, body, issued, held>>

AskGrant(t) ==
    /\ Current.next_fence < MaxFence
    /\ \E k \in Key, h \in Holder, ttl \in AskedTtl :
        Ask(t, [op |-> "grant", key |-> k, holder |-> h, ttl |-> ttl, now |-> now])

AskRelease(t) == \E k \in Key, h \in Holder :
    Ask(t, [op |-> "release", key |-> k, holder |-> h, ttl |-> 0, now |-> now])

\* The table is serialised before the closure runs.
Changed_x(t, r) ==
    /\ loaded' = TRUE
    /\ reg' = r
    /\ body' = [body EXCEPT ![t] = Opened]
    /\ pc' = [pc EXCEPT ![t] = "persist"]
    /\ UNCHANGED <<now, disk, blank, req>>

\* The critical section changed the table: remember the snapshot to write.
Changed(t, r) ==
    /\ loaded' = TRUE
    /\ reg' = r
    /\ body' = [body EXCEPT ![t] = r]
    /\ pc' = [pc EXCEPT ![t] = "persist"]
    /\ UNCHANGED <<now, disk, blank, req>>

\* The reply is out: the handler's locals are gone.
Replied(t) ==
    /\ pc' = [pc EXCEPT ![t] = "idle"]
    /\ req' = [req EXCEPT ![t] = NoRequest]
    /\ body' = [body EXCEPT ![t] = EmptyRegistry]

\* It changed nothing but what gc dropped, which is not a change: no write.
Unchanged(t) ==
    /\ loaded' = TRUE
    /\ reg' = Opened
    /\ Replied(t)
    /\ UNCHANGED <<now, disk, blank, issued, held>>

\* The claims that h gives up on k, by asking for it anew or releasing it.
HeldBy(h, k) == {c \in held : c.holder = h /\ c.key = k}

GrantOk(t) ==
    LET q == req[t]
        r == Opened
        c == Granted(q, r.next_fence + 1)
    IN  /\ pc[t] = "asked" /\ q.op = "grant"
        /\ ~Blocks(r.claims[q.key], q)
        /\ Changed(t, [claims |-> [r.claims EXCEPT ![q.key] = c], next_fence |-> r.next_fence + 1])
        /\ issued' = issued \cup {c}
        /\ held' = (held \ HeldBy(q.holder, q.key)) \cup {c}

\* 409 with the current holder.
GrantHeld(t) ==
    /\ pc[t] = "asked" /\ req[t].op = "grant"
    /\ Blocks(Opened.claims[req[t].key], req[t])
    /\ Unchanged(t)

\* Anybody may release.
MayRelease_x(c, q) == LiveAt(c, q.now)

\* Whether release succeeds: the holder's own claim, still live.
MayRelease(c, q) == LiveAt(c, q.now) /\ c.holder = q.holder

ReleaseOk(t) ==
    LET q == req[t]
        r == Opened
    IN  /\ pc[t] = "asked" /\ q.op = "release"
        /\ MayRelease(r.claims[q.key], q)
        /\ Changed(t, [r EXCEPT !.claims[q.key] = NoClaim])
        /\ held' = held \ HeldBy(q.holder, q.key)
        /\ UNCHANGED issued

ReleaseNoop(t) ==
    /\ pc[t] = "asked" /\ req[t].op = "release"
    /\ ~MayRelease(Opened.claims[req[t].key], req[t])
    /\ Unchanged(t)

\* with_registry(|r| r.active(now)), and a grant that sanitize rejects: the
\* table is loaded and collected, and nothing else happens.
Look ==
    /\ loaded' = TRUE
    /\ reg' = Opened
    /\ UNCHANGED <<now, disk, blank, pc, req, body, issued, held>>

\* fs::write opens with truncation ...
Truncate(t) ==
    /\ pc[t] = "persist"
    /\ pc' = [pc EXCEPT ![t] = "write"]
    /\ disk' = EmptyRegistry
    /\ blank' = TRUE
    /\ UNCHANGED <<now, loaded, reg, req, body, issued, held>>

\* ... and then writes the body.  When another thread's body arrived after
\* this one's truncation the two overlay, and what is left may not parse.
Write(t) ==
    /\ pc[t] = "write"
    /\ Replied(t)
    /\ disk' \in {body[t]} \cup (IF blank THEN {} ELSE {EmptyRegistry})
    /\ blank' = FALSE
    /\ UNCHANGED <<now, loaded, reg, issued, held>>

\* fs::write fails before it truncates; the error is dropped.
WriteFails(t) ==
    /\ DiskMayFail
    /\ pc[t] = "persist"
    /\ Replied(t)
    /\ UNCHANGED <<now, loaded, reg, disk, blank, issued, held>>

Serve(t) ==
    \/ GrantOk(t) \/ GrantHeld(t) \/ ReleaseOk(t) \/ ReleaseNoop(t)
    \/ Truncate(t) \/ Write(t) \/ WriteFails(t)

Next ==
    \/ Tick
    \/ Look
    \/ \E t \in Thread : AskGrant(t) \/ AskRelease(t) \/ Serve(t)

\* The daemon stops once every reply is out, and a new one starts: what is
\* in memory is gone, the tabs and their leases are not.
Restart ==
    /\ \A t \in Thread : pc[t] = "idle"
    /\ loaded
    /\ loaded' = FALSE
    /\ reg' = EmptyRegistry
    /\ UNCHANGED <<now, disk, blank, pc, req, body, issued, held>>

\* The claim of a grant whose reply is not out yet.
Untold(t) == IF pc[t] \in {"persist", "write"} /\ req[t].op = "grant"
             THEN body[t].claims[req[t].key] ELSE NoClaim

\* It dies instead, with requests in flight; their grants were never told.
Crash ==
    /\ loaded' = FALSE
    /\ reg' = EmptyRegistry
    /\ pc' = [t \in Thread |-> "idle"]
    /\ req' = [t \in Thread |-> NoRequest]
    /\ body' = [t \in Thread |-> EmptyRegistry]
    /\ held' = held \ {Untold(t) : t \in Thread}
    /\ UNCHANGED <<now, disk, blank, issued>>

----------------------------------------------------------------------------

Spec == Init /\ [][Next]_vars

SpecRestart == Init /\ [][Next \/ Restart]_vars

\* For trials: LeaseExclusive does not hold of it.
SpecCrash == Init /\ [][Next \/ Crash]_vars
----------------------------------------------------------------------------

\* The shape of the state: which thread may be where, and what it carries.
TypeOK ==
    /\ now \in Nat
    /\ loaded \in BOOLEAN
    /\ reg \in Registry
    /\ disk \in Registry
    /\ blank \in BOOLEAN
    /\ pc \in [Thread -> {"idle", "asked", "persist", "write"}]
    /\ req \in [Thread -> Request \cup {NoRequest}]
    /\ \A t \in Thread : pc[t] # "idle" => req[t] \in Request
    /\ body \in [Thread -> Registry]
    /\ issued \subseteq Claim
    /\ held \subseteq issued

\* Mutual exclusion (claims.rs: "two agents racing for a key could both see
\* it free"): two agents never both believe in a live lease on one key,
\* however their requests interleave and however stale the clock was that a
\* handler read before the lock.
LeaseExclusive ==
    \A c, d \in held :
        c.key = d.key /\ LiveAt(c, now) /\ LiveAt(d, now) => c.holder = d.holder

\* A fence names one grant (Registry.next_fence: "fences must not repeat").
FenceNamesOneGrant == \A c, d \in issued : c.fence = d.fence => c = d

\* The fence orders the grants of a key: whoever holds a claim that is not
\* the one in the table presents a smaller fence (Claim.fence: "presenting
\* a claim it has already lost").
StaleFenceIsSmaller ==
    \A c \in issued :
        LET cur == Current.claims[c.key]
        IN  LiveAt(cur, now) /\ c # cur => c.fence < cur.fence

\* The table never forgets a lease that its holder believes in: what a
\* daemon restart must preserve (with_registry's doc comment).
NoLiveLeaseForgotten ==
    \A c \in held : LiveAt(c, now) => Current.claims[c.key] = c

\* The registry as LeaseService sees it: a key's lease is its live claim,
\* whether or not gc has run, the table is loaded or the file up to date.
Lease == [k \in Key |-> IF LiveAt(Current.claims[k], now) THEN Current.claims[k] ELSE NoClaim]

Service == INSTANCE LeaseService WITH lease <- Lease, top <- Current.next_fence

\* The daemon implements the lease service.
ServiceSpec == Service!Spec
=============================================================================

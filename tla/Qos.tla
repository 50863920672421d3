-------------------------------- MODULE Qos --------------------------------
(***************************************************************************)
(* Sharing one upstream quota between accounts: the scheduler of           *)
(* src/crates/tab-atelier-proxy/src/qos.rs (Sched) and the calls that go   *)
(* through it in http/controllers/relay.rs (shape_and_admit, admit,        *)
(* forward, observe_upstream).                                             *)
(*                                                                         *)
(* A call asks until it is let through or rejected; let through, it is     *)
(* charged an estimate, sent, and answered; what the answer says of the    *)
(* quota is observed at once, and the estimate settled when its body has   *)
(* ended.  Every step takes the scheduler's lock for itself, so the calls  *)
(* of all accounts come between.                                           *)
(*                                                                         *)
(* Instants are kept as the time that is left until them, in ticks, and    *)
(* the periods of the code are scaled to a few ticks.  Credit is counted   *)
(* in whole tokens, slices of it rounded down.                             *)
(***************************************************************************)
EXTENDS Integers, FiniteSets, FiniteSetsExt

CONSTANTS
    Account, Call,
    Owner,          \* per call, its account
    Rerouted,       \* calls that routing may send to another provider
    Weight,         \* per account, its share
    Est,            \* per call, estimate_cost of its body
    Cost,           \* what a served call may turn out to cost
    Reports,        \* what upstream may report: <<tokens left, time to the
                    \* window's end>>, each may be Unknown
    MaxWait, Burst, Headroom, IdleAfter,    \* as in the code
    Millis,         \* milliseconds in a tick
    MaxBackoff,     \* the longest backoff: 300 s
    DefaultBackoff, \* that of a refusal that names none: 5 s
    MaxSince,       \* bound: elapsed time that accrual tells apart
    MaxDebt,        \* bound: debt that is told apart
    MaxTokens,      \* bound: credit and budget that are told apart
    MaxLost         \* bound: calls that end without being settled

Unknown == -1

ASSUME CallAssumption == IsFiniteSet(Account) /\ Owner \in [Call -> Account] /\ Rerouted \subseteq Call
ASSUME PriceAssumption ==
    /\ Weight \in [Account -> Nat \ {0}] /\ Est \in [Call -> Nat \ {0}]
    /\ Cost \subseteq Nat \ {0}
ASSUME ReportAssumption ==
    Reports \subseteq (Nat \cup {Unknown}) \X (Nat \cup {Unknown})
ASSUME PeriodAssumption ==
    /\ MaxWait \in Nat /\ Burst \in Nat /\ Headroom \in Nat /\ IdleAfter \in Nat \ {0}
    /\ Millis \in Nat \ {0}
    /\ DefaultBackoff \in Nat \ {0} /\ MaxBackoff \in Nat /\ MaxBackoff >= DefaultBackoff
    /\ MaxSince \in Nat \ {0} /\ MaxDebt \in Nat /\ MaxTokens \in Nat /\ MaxLost \in Nat

VARIABLES
    acct,       \* accounts: whether known, credit, inflight, time since seen
    budget,     \* tokens left in the window as last reported, or Unknown
    window,     \* time until it refills: 0 when that is past, or Unknown
    backoff,    \* time during which everything is refused
    since,      \* time since share was handed out, Unknown before any report
    call,       \* calls: phase, time in the queue, on the plan, answer
    refusing,   \* upstream: time until it serves again
    told,       \* history: the proxy has heard of this refusal
    lost        \* history: calls that ended without being settled

quota == <<budget, window, backoff, since>>
upstream == <<refusing, told>>
vars == <<acct, budget, window, backoff, since, call, refusing, told, lost>>

NoAnswer == [ok |-> TRUE, remaining |-> Unknown, reset |-> Unknown, retry |-> Unknown]
NoCall == [phase |-> "none", waited |-> 0, plan |-> TRUE, answer |-> NoAnswer]

Init ==
    /\ acct = [a \in Account |-> [known |-> FALSE, credit |-> 0, inflight |-> 0, idle |-> 0]]
    /\ budget = Unknown /\ window = Unknown /\ backoff = 0 /\ since = Unknown
    /\ call = [c \in Call |-> NoCall]
    /\ refusing = 0 /\ told = FALSE /\ lost = 0

----------------------------------------------------------------------------
(* Credit.                                                                 *)

Least(i, j) == IF i < j THEN i ELSE j
Most(i, j) == IF i > j THEN i ELSE j

\* Tokens less n, within the bounds.
Less(credit, n) == Least(Most(credit - n, -MaxDebt), MaxTokens)
Left(b, n) == Least(Most(b - n, 0), MaxTokens)

Active(a) == a.inflight > 0 \/ a.idle < IdleAfter

\* A share of the rate over n ticks: the budget is spread over what is left
\* of the window, a millisecond at least, and divided between the active
\* accounts by weight.
Slice(S, a, b, w, n) ==
    LET round == {i \in Account : S[i].known /\ Active(S[i])}
    IN  (b * Weight[a] * n * Millis) \div (Most(w * Millis, 1) * MapThenSumSet(LAMBDA i : Weight[i], round))

\* accrue: active accounts earn up to the burst, the others bank nothing.
Accrue(S, b, w) ==
    IF since <= 0 THEN S
    ELSE [a \in Account |->
            IF S[a].known /\ Active(S[a])
            THEN [S[a] EXCEPT !.credit = Least(@ + Slice(S, a, b, w, since),
                                               Least(Most(Slice(S, a, b, w, Burst), 1), MaxTokens))]
            ELSE [S[a] EXCEPT !.credit = Least(@, 0)]]

\* The entry of an account that asks.
Seen(a) == [acct EXCEPT ![a].known = TRUE, ![a].idle = 0]

\* charge
Charge(S, a, n) == [S EXCEPT ![a].credit = Less(@, n), ![a].inflight = @ + 1]

\* settle, without the saturating subtraction.
Settled_x(S, a, est, actual) ==
    IF S[a].known
    THEN [S EXCEPT ![a].credit = Less(@, actual - est), ![a].inflight = @ - 1, ![a].idle = 0]
    ELSE S

\* settle
Settled(S, a, est, actual) ==
    IF S[a].known
    THEN [S EXCEPT ![a].credit = Less(@, actual - est), ![a].inflight = Most(@ - 1, 0), ![a].idle = 0]
    ELSE S

----------------------------------------------------------------------------
(* Admission: shape_and_admit, admit and try_admit.                        *)

Queued(c) == call[c].phase = "queued"
Spent(c) == call[c].waited >= MaxWait

\* A generation arrives and is routed.  One that another provider bills is
\* not gated on the subscription.
Arrive(c) ==
    /\ call[c].phase = "none"
    /\ \/ call' = [call EXCEPT ![c] = [NoCall EXCEPT !.phase = "queued"]]
       \/ /\ c \in Rerouted
          /\ call' = [call EXCEPT ![c] = [NoCall EXCEPT !.phase = "sent", !.plan = FALSE]]
    /\ UNCHANGED <<acct, quota, upstream, lost>>

\* The client hangs up while its call waits.
Hangup(c) ==
    /\ Queued(c)
    /\ call' = [call EXCEPT ![c] = NoCall]
    /\ UNCHANGED <<acct, quota, upstream, lost>>

\* A reading outlives its window.
Capacity_x == budget

\* A reading whose window has ended is stale and says nothing any more.
Capacity == IF window = 0 THEN Unknown ELSE budget
Window == IF window = 0 THEN Unknown ELSE window

\* Rejected during the backoff; until it has waited enough a call asks again.
RejectEarly(c) ==
    /\ Queued(c) /\ backoff > 0 /\ Spent(c)
    /\ call' = [call EXCEPT ![c] = NoCall]
    /\ UNCHANGED <<acct, quota, upstream, lost>>

\* Nothing is throttled before upstream has said anything.
GoUnknown(c) ==
    /\ Queued(c) /\ backoff = 0 /\ Capacity = Unknown
    /\ acct' = Charge(Seen(Owner[c]), Owner[c], Est[c])
    /\ budget' = Unknown /\ window' = Window
    /\ call' = [call EXCEPT ![c] = [NoCall EXCEPT !.phase = "sent"]]
    /\ UNCHANGED <<backoff, since, upstream, lost>>

\* What a call would find with the window's share handed out up to now.
Handed(c) == Accrue(Seen(Owner[c]), budget, window)
Affordable(c) ==
    /\ Most(budget - Est[c], 0) >= Headroom
    /\ Handed(c)[Owner[c]].credit >= Est[c]
Share == IF since = Unknown THEN Unknown ELSE 0

Go(c) ==
    /\ Queued(c) /\ backoff = 0 /\ Capacity # Unknown /\ Affordable(c)
    /\ acct' = Charge(Handed(c), Owner[c], Est[c])
    /\ budget' = Left(budget, Est[c]) /\ since' = Share
    /\ call' = [call EXCEPT ![c] = [NoCall EXCEPT !.phase = "sent"]]
    /\ UNCHANGED <<window, backoff, upstream, lost>>

\* A call is not rejected while the budget is nearly spent.
NotYet_x(c) ==
    /\ Queued(c) /\ backoff = 0 /\ Capacity # Unknown /\ ~Affordable(c)
    /\ acct' = Handed(c) /\ since' = Share
    /\ call' = [call EXCEPT ![c] = IF Spent(c) /\ budget - Est[c] >= Headroom THEN NoCall ELSE @]
    /\ UNCHANGED <<budget, window, backoff, upstream, lost>>

\* Too little budget or credit: the call waits, or is told when to come back.
NotYet(c) ==
    /\ Queued(c) /\ backoff = 0 /\ Capacity # Unknown /\ ~Affordable(c)
    /\ acct' = Handed(c) /\ since' = Share
    /\ call' = [call EXCEPT ![c] = IF Spent(c) THEN NoCall ELSE @]
    /\ UNCHANGED <<budget, window, backoff, upstream, lost>>

Ask(c) == RejectEarly(c) \/ GoUnknown(c) \/ Go(c) \/ NotYet(c)

----------------------------------------------------------------------------
(* forward, and the upstream it talks to.                                  *)

\* destination or dispatch fails: an early return.
Fail(c) ==
    /\ call[c].phase = "sent" /\ lost < MaxLost
    /\ call' = [call EXCEPT ![c] = NoCall]
    /\ lost' = lost + 1
    /\ UNCHANGED <<acct, quota, upstream>>

\* Upstream answers: with a reading, or with 429 while it refuses.  Only a
\* refusal as short as the default goes without a retry-after.  What another
\* provider answers does not matter here.
Refusal == [ok : {FALSE}, remaining : {Unknown}, reset : {Unknown},
            retry : {refusing} \cup IF refusing <= DefaultBackoff THEN {Unknown} ELSE {}]
Reading == {[ok |-> TRUE, remaining |-> r[1], reset |-> r[2], retry |-> Unknown] : r \in Reports}

Answer(c) ==
    /\ call[c].phase = "sent"
    /\ \E r \in IF ~call[c].plan THEN {NoAnswer} ELSE IF refusing > 0 THEN Refusal ELSE Reading :
        call' = [call EXCEPT ![c].phase = "answered", ![c].answer = r]
    /\ UNCHANGED <<acct, quota, upstream, lost>>

\* The retry-after is not read.
Wait_x(r) == DefaultBackoff

\* retry_after.unwrap_or(5).clamp(1, 300)
Wait(r) == IF r.retry = Unknown THEN DefaultBackoff ELSE Least(Most(r.retry, 1), MaxBackoff)

\* on_429
Refused(r) ==
    /\ backoff' = Wait(r) /\ budget' = 0 /\ window' = Wait(r)
    /\ told' = (refusing > 0)
    /\ UNCHANGED <<since, refusing>>

\* observe
Observed(r) ==
    /\ budget' = IF r.remaining = Unknown THEN budget ELSE r.remaining
    /\ window' = IF r.reset = Unknown THEN window ELSE r.reset
    /\ since' = IF since = Unknown THEN 0 ELSE since
    /\ UNCHANGED <<backoff, upstream>>

\* observe_upstream, at the answer's headers.
Observe(c) ==
    /\ call[c].phase = "answered"
    /\ call' = [call EXCEPT ![c].phase = "heard", ![c].answer = [NoAnswer EXCEPT !.ok = call[c].answer.ok]]
    /\ IF ~call[c].plan THEN UNCHANGED <<quota, upstream>>
       ELSE IF call[c].answer.ok THEN Observed(call[c].answer)
       ELSE Refused(call[c].answer)
    /\ UNCHANGED <<acct, lost>>

\* The answer's body has ended: settle, for every generation.
Settle(c) ==
    /\ call[c].phase = "heard"
    /\ \E actual \in IF call[c].answer.ok THEN Cost ELSE {1} :
        /\ acct' = Settled(acct, Owner[c], Est[c], actual)
        /\ budget' = IF budget = Unknown THEN Unknown ELSE Left(budget, actual - Est[c])
    /\ call' = [call EXCEPT ![c] = NoCall]
    /\ UNCHANGED <<window, backoff, since, upstream, lost>>

\* The client has gone before the answer came: an early return, too.
Gone(c) ==
    /\ call[c].phase = "heard" /\ lost < MaxLost
    /\ call' = [call EXCEPT ![c] = NoCall]
    /\ lost' = lost + 1
    /\ UNCHANGED <<acct, quota, upstream>>

\* Upstream begins to refuse, once the last refusal has been heard of.
Refuse ==
    /\ refusing = 0
    /\ \A c \in Call : call[c].phase = "answered" => call[c].answer.ok
    /\ refusing' \in 1..MaxBackoff
    /\ UNCHANGED <<acct, quota, call, told, lost>>

Down(n) == IF n > 0 THEN n - 1 ELSE n

Tick ==
    /\ acct' = [a \in Account |-> [acct[a] EXCEPT !.idle = IF acct[a].known THEN Least(@ + 1, IdleAfter) ELSE @]]
    /\ window' = Down(window) /\ backoff' = Down(backoff)
    /\ since' = IF since = Unknown THEN Unknown ELSE Least(since + 1, MaxSince)
    /\ call' = [c \in Call |-> IF Queued(c) THEN [call[c] EXCEPT !.waited = Least(@ + 1, MaxWait)]
                               ELSE call[c]]
    /\ refusing' = Down(refusing)
    /\ told' = (told /\ refusing > 1)
    /\ UNCHANGED <<budget, lost>>

Next ==
    \/ \E c \in Call : \/ Arrive(c) \/ Hangup(c) \/ Ask(c) \/ Fail(c) \/ Answer(c)
                       \/ Observe(c) \/ Settle(c) \/ Gone(c)
    \/ Refuse
    \/ Tick

Spec == Init /\ [][Next]_vars

\* Time passes, a waiting call asks at least every half second, and clients
\* keep coming; nothing makes upstream answer.  A call asks on arrival, so
\* clients that hang up do not keep one from ever asking.
Fairness ==
    /\ WF_vars(Tick)
    /\ \A c \in Call : WF_vars(Arrive(c)) /\ SF_vars(Ask(c))
FairSpec == Spec /\ Fairness

----------------------------------------------------------------------------

TypeOK ==
    /\ acct \in [Account -> [known : BOOLEAN, credit : Int, inflight : Nat, idle : 0..IdleAfter]]
    /\ budget \in Nat \cup {Unknown} /\ window \in Nat \cup {Unknown}
    /\ backoff \in 0..MaxBackoff /\ since \in 0..MaxSince \cup {Unknown}
    /\ call \in [Call -> [phase : {"none", "queued", "sent", "answered", "heard"},
                          waited : 0..MaxWait, plan : BOOLEAN,
                          answer : [ok : BOOLEAN, remaining : Nat \cup {Unknown},
                                    reset : Nat \cup {Unknown}, retry : 1..MaxBackoff \cup {Unknown}]]]
    /\ refusing \in 0..MaxBackoff /\ told \in BOOLEAN /\ lost \in 0..MaxLost

\* Calls of an account that the subscription serves right now.
Out(a) == {c \in Call : Owner[c] = a /\ call[c].plan /\ call[c].phase \in {"sent", "answered", "heard"}}

\* The scheduler counts the calls that are out, so an account whose calls
\* have all ended leaves the round when it goes idle (Forward.metered: "has
\* an estimate outstanding that must be settled").  It does not, when a call
\* fails early (QosLeak.cfg).
InflightIsOut == \A a \in Account : acct[a].inflight = Cardinality(Out(a))

\* Once a 429 has been heard of, nothing is let through before upstream
\* serves again, whatever older answers still come in (on_429: "Stop sending
\* until it says otherwise").
QuietWhileRefused == told => backoff >= refusing

\* No call is held for ever: it is let through or turned away (MAX_WAIT).
EveryCallDecided == \A c \in Call : []<>~Queued(c)

\* A call is let through: it is out, and was waiting.
LetThrough == \E c \in Call : Queued(c) /\ call'[c].phase = "sent"
Awaited == []<>(\E c \in Call : Queued(c))
GoesOn == []<><<LetThrough>>_vars

\* Upstream left a reading that nothing outdates, and too few tokens are left
\* of it for some call.
Timeless == /\ window = Unknown /\ budget # Unknown
            /\ \E c \in Call : Most(budget - Est[c], 0) < Headroom

\* The proxy never locks itself up: while clients keep asking, calls are let
\* through again and again, upstream's quota being its to judge (try_admit:
\* "unthrottled until upstream reports again -- it is the authority").  It
\* does, on a report of tokens without a time of reset (QosLockUp.cfg).
NeverLockedUp == Awaited => GoesOn

\* Nothing else locks it up: not a window that ends while everyone waits, nor
\* a refusal, nor calls that fail or are never answered.
LockedUpOnlyTimeless == Awaited => GoesOn \/ []<>Timeless
=============================================================================

--------------------------------- MODULE Brain ---------------------------------
(***************************************************************************)
(* The watchdog of src/src/cli/brain.rs, with the pacing of                *)
(* src/crates/tab-atelier-pace/src/lib.rs: it looks at the screen of every *)
(* tab with a Claude session and types `continue` where one has been       *)
(* frozen on an error, at one tab in a tick.                               *)
(*                                                                         *)
(* A tick lists the tabs, goes over their screens one by one, decides, and *)
(* sends.  The agents work on meanwhile.  The unit of time is the pause    *)
(* between two ticks, and `now` is the same all through a tick.            *)
(***************************************************************************)
EXTENDS Naturals, FiniteSets, SequencesExt

CONSTANTS
    Tab,        \* ids of tabs
    Order,      \* the order in which the daemon lists any of them
    Pattern,    \* labels of PATTERNS
    Storm,      \* those of is_api_storm_label
    Stable,     \* STABLE_SECS
    Base,       \* NUDGE_BACKOFF_BASE_SECS
    Cap,        \* NUDGE_BACKOFF_MAX_SECS
    Threshold,  \* CIRCUIT_BREAKER_THRESHOLD
    Cooldown,   \* CIRCUIT_BREAKER_COOLDOWN
    ProbeTTL,   \* PROBE_TTL
    Turn,       \* the cursors count on for ever, and are kept modulo this
    MayReturn,  \* whether a screen may come back that was there before
    MaxChanges, \* bound: changes of the agents and of the network
    MaxFaults,  \* bound: GETs that fail
    MaxLost     \* bound: POSTs that fail

ASSUME BrainAssumption ==
    /\ Order \in [SUBSET Tab -> Seq(Tab)] /\ \A some \in SUBSET Tab : Range(Order[some]) = some
    /\ Storm \subseteq Pattern
    /\ "none" \notin Pattern /\ "agent-state-error" \notin Pattern
    /\ {Stable, Base, Cap, Threshold, Cooldown, ProbeTTL} \subseteq Nat \ {0}
    /\ {MaxChanges, MaxFaults, MaxLost} \subseteq Nat
    /\ IsFiniteSet(Tab) /\ Turn \in Nat \ {0}
    /\ \A n \in 1..Cardinality(Tab) : Turn % n = 0

\* What a screen shows: a pattern or none; n tells screens apart.
Screen == [n : 0..MaxChanges, shows : Pattern \cup {"none"}]
Label == Pattern \cup {"none", "agent-state-error"}

\* No screen: what a watch has before the first.
Unseen == [n |-> MaxChanges + 1, shows |-> "none"]

VARIABLES
    agents,     \* per tab: screen, whether agent_state is error, whether in a session
    online,     \* the Internet can be reached
    changes,    \* changes of these so far
    watches,    \* Brain.watches
    probe,      \* ConnectivityProbe: age of the last check, and its result
    rr_cursor, scan_cursor,
    breaker,    \* breaker_until: the time left
    beat,       \* last_nudge_at: its age
    systemic,
    tick,       \* where tick() stands, with its local variables
    failed,     \* GETs and POSTs that failed so far
    served,     \* history: tabs a nudge reached since their screen was seen to change
    tried,      \* history: per tab the screen that a nudge was last posted for, reached or not
    past,       \* history: per tab the nudges tried in one episode
    quiet       \* history: time since one was tried while systemic

world == <<agents, online, changes>>
pace == <<probe, rr_cursor, scan_cursor, breaker, beat, systemic>>
history == <<served, tried, past, quiet>>
vars == <<world, watches, pace, tick, failed, history>>

\* TabWatch::new, and no watch at all: the first look makes them the same.
Fresh ==
    [last |-> Unseen, frozen |-> 0, nudged |-> Unseen, streak |-> 0, wait |-> 0,
     label |-> "none", crc |-> Unseen, tail |-> Unseen]

NoEpisode == [label |-> "none", count |-> 0, age |-> 0]

Idle == [pc |-> "idle", listed |-> <<>>, scanned |-> 0, eligible |-> <<>>]

Init ==
    /\ \E found \in [Tab -> Pattern \cup {"none"}] :
            agents = [t \in Tab |->
                [screen |-> [n |-> 0, shows |-> found[t]], error |-> FALSE, session |-> TRUE]]
    /\ online = TRUE /\ changes = 0
    /\ watches = [t \in Tab |-> Fresh]
    /\ probe = [age |-> ProbeTTL, online |-> FALSE]
    /\ rr_cursor = 0 /\ scan_cursor = 0
    /\ breaker = 0 /\ beat = Cooldown /\ systemic = FALSE
    /\ tick = Idle
    /\ failed = [get |-> 0, post |-> 0]
    /\ served = {} /\ tried = [t \in Tab |-> Unseen]
    /\ past = [t \in Tab |-> NoEpisode] /\ quiet = Cooldown

----------------------------------------------------------------------------
(* The agents and the network.                                             *)

Changed ==
    /\ changes < MaxChanges /\ changes' = changes + 1
    /\ UNCHANGED <<watches, pace, tick, failed, history>>

Show(t) ==
    /\ Changed
    /\ \E n \in IF MayReturn THEN 0..changes' ELSE {changes'}, label \in Pattern \cup {"none"} :
            /\ agents[t].screen # [n |-> n, shows |-> label]
            /\ agents' = [agents EXCEPT ![t].screen = [n |-> n, shows |-> label]]
    /\ UNCHANGED online

\* set-status.
Flag(t) ==
    /\ Changed
    /\ agents' = [agents EXCEPT ![t].error = ~@]
    /\ UNCHANGED online

\* A session ends, or begins anew.
Session(t) ==
    /\ Changed
    /\ agents' = [agents EXCEPT ![t].session = ~@]
    /\ UNCHANGED online

Outage ==
    /\ Changed /\ online /\ online' = FALSE
    /\ UNCHANGED agents

\* No outage is for ever.
Back ==
    /\ ~online /\ online' = TRUE
    /\ UNCHANGED <<agents, changes, watches, pace, tick, failed, history>>

World == (\E t \in Tab : Show(t) \/ Flag(t) \/ Session(t)) \/ Outage \/ Back

----------------------------------------------------------------------------
(* The pace crate, and the decisions that tick takes.                      *)

\* scan_order: the i-th (from 0) of n, starting at the cursor.
ScanAt(n, cursor, i) == (cursor + i) % n

\* pick_round_robin: the index, from 0.
Pick(n, cursor) == cursor % n

\* Variants ending in _x are bugs this code could have; nothing uses them.

\* 1 << shift, for the shift that there can be.
Doubled(streak) ==
    LET shift == IF streak = 0 THEN 0 ELSE IF streak > 7 THEN 6 ELSE streak - 1
    IN  <<1, 2, 4, 8, 16, 32, 64>>[shift + 1]

\* backoff_secs.
Backoff(streak) == IF Base * Doubled(streak) < Cap THEN Base * Doubled(streak) ELSE Cap

\* The streak is of interest until the backoff does not grow any more.
Grow(streak) == IF streak > 6 \/ (streak > 0 /\ Backoff(streak) = Cap) THEN streak ELSE streak + 1

Older(age, limit) == IF age < limit THEN age + 1 ELSE age
Sooner(left) == IF left > 0 THEN left - 1 ELSE 0

\* The pattern wins over the flag.
Trigger(screen, error) ==
    IF screen.shows # "none" THEN screen.shows
    ELSE IF error THEN "agent-state-error" ELSE "none"

\* evaluate_tab, the part that is kept: whether the screen moves, and
\* recovery.
Observe(w, label) ==
    LET seen == IF w.last = w.tail THEN w ELSE [w EXCEPT !.last = w.tail, !.frozen = 0]
    IN  IF label = "none" THEN [seen EXCEPT !.streak = 0, !.wait = 0, !.label = "none"] ELSE seen

\* It forgets to wait.
MayNudge_x(w, label) ==
    /\ label # "none" /\ w.frozen >= Stable /\ w.nudged # w.last

\* should_nudge, and the backoff.
MayNudge(w, label) ==
    /\ label # "none" /\ w.frozen >= Stable /\ w.nudged # w.last
    /\ ~(w.label = label /\ w.wait > 0)

Capped(eligible) ==
    Cardinality({i \in DOMAIN eligible : eligible[i].label \in Storm}) > Threshold

----------------------------------------------------------------------------
(* A tick.                                                                 *)

\* Only tabs in a Claude session are listed; what is known of others goes.
List ==
    /\ tick.pc = "idle"
    /\ LET ids == Order[{t \in Tab : agents[t].session}]
       IN  /\ tick' = [tick EXCEPT
                !.pc = IF ids = <<>> THEN "decide" ELSE "scan",
                !.listed = [i \in DOMAIN ids |->
                    [id |-> ids[i], crc |-> agents[ids[i]].screen, error |-> agents[ids[i]].error]]]
           /\ watches' = [t \in Tab |-> IF Contains(ids, t) THEN watches[t] ELSE Fresh]
           /\ served' = served \cap Range(ids)
           /\ tried' = [t \in Tab |-> IF Contains(ids, t) THEN tried[t] ELSE Unseen]
           /\ past' = [t \in Tab |-> IF Contains(ids, t) THEN past[t] ELSE NoEpisode]
    /\ UNCHANGED <<world, pace, failed, quiet>>

\* The whole tick fails.
ListFails ==
    /\ tick.pc = "idle" /\ failed.get < MaxFaults
    /\ failed' = [failed EXCEPT !.get = @ + 1]
    /\ tick' = [Idle EXCEPT !.pc = "sleep"]
    /\ UNCHANGED <<world, watches, pace, history>>

\* The tab whose turn it is.
Current == tick.listed[ScanAt(Len(tick.listed), scan_cursor, tick.scanned) + 1]

\* The cursor stays where it was.
Move_x(cursor, scanned) == cursor

Move(cursor, scanned) == (cursor + scanned) % Turn

\* To the next tab; or it was the last, or time is up.
Onward(scanned, eligible, may_stop) ==
    \/ /\ scanned < Len(tick.listed)
       /\ tick' = [tick EXCEPT !.scanned = scanned, !.eligible = eligible]
       /\ UNCHANGED scan_cursor
    \/ /\ scanned = Len(tick.listed) \/ may_stop
       /\ tick' = [Idle EXCEPT !.pc = "decide", !.eligible = eligible]
       /\ scan_cursor' = Move(scan_cursor, scanned)

\* needs_output.
Needed(w, crc) == w.crc # crc \/ w.crc = Unseen

\* A look at one tab: its screen is fetched unless the listing says that it
\* is the one that is known, and may be newer than the listing.
Look ==
    LET tab  == Current
        w    == watches[tab.id]
        read == IF Needed(w, tab.crc)
                THEN [w EXCEPT !.tail = agents[tab.id].screen, !.crc = tab.crc]
                ELSE w
        label == Trigger(read.tail, tab.error)
        now  == Observe(read, label)
    IN  /\ tick.pc = "scan"
        /\ watches' = [watches EXCEPT ![tab.id] = now]
        /\ Onward(tick.scanned + 1,
                  IF MayNudge(now, label)
                  THEN Append(tick.eligible, [id |-> tab.id, label |-> label, hash |-> now.last])
                  ELSE tick.eligible,
                  TRUE)
        /\ served' = IF w.last = read.tail THEN served ELSE served \ {tab.id}
        /\ past' = IF label = "none" THEN [past EXCEPT ![tab.id] = NoEpisode] ELSE past
        /\ UNCHANGED <<world, probe, rr_cursor, breaker, beat, systemic, failed, tried, quiet>>

\* The tab is skipped, and the budget with it.
LookFails ==
    LET tab == Current IN
    /\ tick.pc = "scan" /\ Needed(watches[tab.id], tab.crc)
    /\ failed.get < MaxFaults /\ failed' = [failed EXCEPT !.get = @ + 1]
    /\ Onward(tick.scanned + 1, tick.eligible, FALSE)
    /\ UNCHANGED <<world, watches, probe, rr_cursor, breaker, beat, systemic, history>>

\* systemic_api_freeze.
Verdict ==
    IF Capped(tick.eligible) THEN breaker' = Cooldown /\ systemic' = TRUE
    ELSE breaker' = breaker /\ systemic' = (breaker > 0)

Probed == [age |-> 0, online |-> online]

\* is_online: a result that is not too old will do.
Probe == probe' = IF probe.age < ProbeTTL THEN probe ELSE Probed

\* The heartbeat, due when the interval has passed.
NudgeReady == beat >= Cooldown

\* The screen, and the backoff for its label.
Record(w, label, hash) ==
    LET streak == IF w.label = label THEN Grow(w.streak) ELSE 1
    IN  [w EXCEPT !.nudged = hash, !.streak = streak, !.label = label, !.wait = Backoff(streak)]

Rest == tick' = [Idle EXCEPT !.pc = "sleep"]

\* A fleet without a frozen tab leaves the verdict alone.
Nobody_x ==
    /\ tick.pc = "decide" /\ tick.eligible = <<>>
    /\ Rest
    /\ UNCHANGED <<world, watches, pace, failed, history>>

Nobody ==
    /\ tick.pc = "decide" /\ tick.eligible = <<>>
    /\ Verdict /\ Rest
    /\ UNCHANGED <<world, watches, probe, rr_cursor, scan_cursor, beat, failed, history>>

\* Offline: nothing is recorded.
Suppress ==
    /\ tick.pc = "decide" /\ tick.eligible # <<>>
    /\ Verdict /\ Probe /\ ~probe'.online /\ Rest
    /\ UNCHANGED <<world, watches, rr_cursor, scan_cursor, beat, failed, history>>

HoldBack ==
    /\ tick.pc = "decide" /\ tick.eligible # <<>>
    /\ Verdict /\ Probe /\ probe'.online
    /\ systemic' /\ ~NudgeReady
    /\ Rest
    /\ UNCHANGED <<world, watches, rr_cursor, scan_cursor, beat, failed, history>>

\* The heartbeat is not stamped.
Stamp_x == UNCHANGED beat
Stamp == beat' = IF systemic' THEN 0 ELSE beat

\* One is picked, and the nudge recorded before it is sent.
Choose ==
    /\ tick.pc = "decide" /\ tick.eligible # <<>>
    /\ Verdict /\ Probe /\ probe'.online
    /\ systemic' => NudgeReady
    /\ Stamp
    /\ LET pick == tick.eligible[Pick(Len(tick.eligible), rr_cursor) + 1]
       IN  /\ watches' = [watches EXCEPT ![pick.id] = Record(@, pick.label, pick.hash)]
           /\ tick' = [tick EXCEPT !.pc = "post", !.eligible = <<pick>>]
    /\ rr_cursor' = (rr_cursor + 1) % Turn
    /\ UNCHANGED <<world, scan_cursor, failed, history>>

Try(pick) ==
    /\ tick.pc = "post" /\ Rest
    /\ past' = [past EXCEPT ![pick.id] =
                    [label |-> pick.label, age |-> 0,
                     count |-> IF @.label = pick.label THEN Grow(@.count) ELSE 1]]
    /\ tried' = [tried EXCEPT ![pick.id] = pick.hash]
    /\ quiet' = IF systemic THEN 0 ELSE quiet
    /\ UNCHANGED <<world, watches, pace>>

\* The POST arrives.
Send ==
    /\ Try(tick.eligible[1])
    /\ served' = served \cup {tick.eligible[1].id}
    /\ UNCHANGED failed

\* Or it does not: the tab is locked, or the daemon away.
SendFails ==
    /\ Try(tick.eligible[1])
    /\ failed.post < MaxLost /\ failed' = [failed EXCEPT !.post = @ + 1]
    /\ UNCHANGED served

\* The pause.
Sleep ==
    /\ tick.pc = "sleep" /\ tick' = Idle
    /\ watches' = [t \in Tab |->
            [watches[t] EXCEPT
                !.frozen = IF watches[t].last = Unseen THEN 0 ELSE Older(@, Stable),
                !.wait = Sooner(@)]]
    /\ probe' = [probe EXCEPT !.age = Older(@, ProbeTTL)]
    /\ breaker' = Sooner(breaker) /\ beat' = Older(beat, Cooldown)
    /\ past' = [t \in Tab |->
            IF past[t] = NoEpisode THEN NoEpisode ELSE [past[t] EXCEPT !.age = Older(@, Cap)]]
    /\ quiet' = Older(quiet, Cooldown)
    /\ UNCHANGED <<world, rr_cursor, scan_cursor, systemic, failed, served, tried>>

Tick ==
    \/ List \/ ListFails
    \/ Look \/ LookFails
    \/ Nobody \/ Suppress \/ HoldBack \/ Choose
    \/ Send \/ SendFails
    \/ Sleep

Next == World \/ Tick

Spec == Init /\ [][Next]_vars

\* The loop runs on, and outages end.
FairSpec == Spec /\ WF_vars(Tick) /\ WF_vars(Back)

----------------------------------------------------------------------------

Seen == Screen \cup {Unseen}

Watch ==
    [last : Seen, frozen : 0..Stable, nudged : Seen, streak : 0..7, wait : 0..Cap,
     label : Label, crc : Seen, tail : Seen]

TickState ==
    [pc : {"idle", "scan", "decide", "post", "sleep"},
     listed : Seq([id : Tab, crc : Screen, error : BOOLEAN]), scanned : Nat,
     eligible : Seq([id : Tab, label : Label, hash : Seen])]

TypeOK ==
    /\ agents \in [Tab -> [screen : Screen, error : BOOLEAN, session : BOOLEAN]]
    /\ online \in BOOLEAN /\ changes \in 0..MaxChanges
    /\ watches \in [Tab -> Watch]
    /\ probe \in [age : 0..ProbeTTL, online : BOOLEAN]
    /\ rr_cursor \in 0..Turn - 1 /\ scan_cursor \in 0..Turn - 1
    /\ breaker \in 0..Cooldown /\ beat \in 0..Cooldown /\ systemic \in BOOLEAN
    /\ tick \in TickState
    /\ tick.pc = "scan" => tick.scanned \in 0..Len(tick.listed) - 1
    /\ tick.pc = "post" => tick.eligible # <<>>
    /\ failed \in [get : 0..MaxFaults, post : 0..MaxLost]
    /\ served \subseteq Tab /\ tried \in [Tab -> Seen]
    /\ past \in [Tab -> [label : Label, count : 0..7, age : 0..Cap]]
    /\ quiet \in 0..Cooldown

Stuck(t) == agents[t].session /\ Trigger(agents[t].screen, agents[t].error) # "none"

\* Its screen is taken for another: see TailIsAccurate.
Mistaken(t) == watches[t].crc = agents[t].screen /\ watches[t].tail # agents[t].screen

\* For a tab that stays stuck `continue` has in the end been posted for the
\* very screen that it is stuck on, for all the others that are stuck with
\* it, the scans cut short, the heartbeat and the outages (Brain::tick,
\* evaluate_tab, scan_order, pick_round_robin).  Posted once: not again when
\* that POST failed, nor when the tab recovered and the screen came back;
\* and not where the screen is taken for another.
StuckIsTried ==
    <>[](\A t \in Tab : Stuck(t) => tried[t] = agents[t].screen \/ Mistaken(t))

\* What one would like: a nudge has reached it since its screen last changed
\* (Brain::tick).  A POST that fails and a screen that comes back break it.
StuckIsNudged == <>[](\A t \in Tab : Stuck(t) => t \in served)

\* The breaker lets go of a fleet that has recovered
\* (systemic_api_freeze).
BreakerReleases == <>[]~systemic

\* For one error of one tab the nudges come further and further apart, also
\* when each of them has changed the screen (backoff_secs, evaluate_tab).
NotHammered ==
    [][Send \/ SendFails =>
            LET pick == tick.eligible[1] IN
            past[pick.id].label = pick.label =>
                past[pick.id].age >= Backoff(past[pick.id].count)]_vars

\* A capped fleet gets one nudge in each interval, also when the verdict
\* changes in between (nudge_ready, systemic_api_freeze).
CappedIsSpaced == [][(Send \/ SendFails) /\ systemic => quiet >= Cooldown]_vars

\* "While the CRC is unchanged the screen is byte-identical, so the tail is
\* still accurate and no HTTP is needed to know it" (TabWatch::cached_crc).
TailIsAccurate ==
    tick.pc = "scan" /\ ~Needed(watches[Current.id], Current.crc) =>
        watches[Current.id].tail = Current.crc

\* "Output hash at the moment we last sent `continue` to this tab"
\* (TabWatch::nudged_hash): nothing is recorded that was not sent.
RecordedIsSent ==
    [][SendFails =>
            LET pick == tick.eligible[1] IN watches'[pick.id].nudged # pick.hash]_vars
=============================================================================

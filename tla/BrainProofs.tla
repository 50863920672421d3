----------------------------- MODULE BrainProofs -----------------------------
(***************************************************************************)
(* The watchdog's restraint, for any fleet and any lengths of time.        *)
(*                                                                         *)
(* The history keeps what was tried, the watches what was planned: outside *)
(* of a POST they tell the same episode, and the time that has passed and  *)
(* the time left to wait make up the backoff.                              *)
(***************************************************************************)
EXTENDS Brain, TLAPS

Stages == {"idle", "scan", "decide", "post", "sleep"}
Row == [id : Tab, crc : Screen, error : BOOLEAN]
Entry == [id : Tab, label : Label, hash : Seen]
Episode == [label : Label, count : 0..7, age : 0..Cap]

LEMMA Numbers ==
    /\ Stable \in Nat \ {0} /\ Base \in Nat \ {0} /\ Cap \in Nat \ {0}
    /\ Cooldown \in Nat \ {0} /\ ProbeTTL \in Nat \ {0}
    /\ MaxChanges \in Nat /\ MaxFaults \in Nat /\ MaxLost \in Nat
    /\ Turn \in Nat \ {0}
    /\ Order \in [SUBSET Tab -> Seq(Tab)]
BY BrainAssumption

LEMMA BackoffType == \A streak \in 0..7 : Backoff(streak) \in 0..Cap
<1> SUFFICES ASSUME NEW streak \in 0..7 PROVE Backoff(streak) \in 0..Cap
  OBVIOUS
<1> DEFINE shift == IF streak = 0 THEN 0 ELSE IF streak > 7 THEN 6 ELSE streak - 1
<1>1. shift \in 0..6
  OBVIOUS
<1>2. \A i \in 1..7 : <<1, 2, 4, 8, 16, 32, 64>>[i] \in Nat
  OBVIOUS
<1>3. Doubled(streak) \in Nat
  <2>1. shift + 1 \in 1..7
    BY <1>1
  <2>2. Doubled(streak) = <<1, 2, 4, 8, 16, 32, 64>>[shift + 1]
    BY DEF Doubled
  <2> HIDE DEF shift
  <2>3. QED
    BY <1>2, <2>1, <2>2
<1>4. Base * Doubled(streak) \in Nat
  BY <1>3, Numbers
<1>5. QED
  BY <1>4, Numbers DEF Backoff

LEMMA GrowType == \A streak \in 0..7 : Grow(streak) \in 0..7
BY DEF Grow

LEMMA AgeType ==
    \A limit \in Nat : \A age \in 0..limit :
        /\ Older(age, limit) \in 0..limit /\ Sooner(age) \in 0..limit
        /\ Older(age, limit) >= age
BY DEF Older, Sooner

LEMMA LabelType ==
    \A screen \in Seen, error \in BOOLEAN : Trigger(screen, error) \in Label
BY DEF Seen, Screen, Unseen, Trigger, Label

LEMMA FreshType == Fresh \in Watch /\ NoEpisode \in Episode
BY Numbers DEF Fresh, Watch, Seen, Label, NoEpisode, Episode

LEMMA ObserveType ==
    ASSUME NEW w \in Watch, NEW label \in Label
    PROVE  Observe(w, label) \in Watch
<1> DEFINE seen == IF w.last = w.tail THEN w ELSE [w EXCEPT !.last = w.tail, !.frozen = 0]
<1>1. seen \in Watch
  <2>1. \A tail \in Seen, frozen \in 0..Stable :
            [w EXCEPT !.last = tail, !.frozen = frozen] \in Watch
    BY DEF Watch
  <2>2. w.tail \in Seen /\ 0 \in 0..Stable
    BY Numbers DEF Watch
  <2>3. QED
    BY <2>1, <2>2
<1>2. Observe(w, label)
        = IF label = "none" THEN [seen EXCEPT !.streak = 0, !.wait = 0, !.label = "none"] ELSE seen
  BY DEF Observe
<1> HIDE DEF seen
<1>3. [seen EXCEPT !.streak = 0, !.wait = 0, !.label = "none"] \in Watch
  <2>1. \A streak \in 0..7, wait \in 0..Cap, none \in Label :
            [seen EXCEPT !.streak = streak, !.wait = wait, !.label = none] \in Watch
    BY <1>1 DEF Watch
  <2>2. 0 \in 0..7 /\ 0 \in 0..Cap /\ "none" \in Label
    BY Numbers DEF Label
  <2>3. QED
    BY <2>1, <2>2
<1>4. QED
  BY <1>1, <1>2, <1>3

LEMMA RecordType ==
    ASSUME NEW w \in Watch, NEW label \in Label, NEW hash \in Seen
    PROVE  Record(w, label, hash) \in Watch
<1> DEFINE streak == IF w.label = label THEN Grow(w.streak) ELSE 1
<1>1. streak \in 0..7
  BY GrowType DEF Watch
<1>2. Backoff(streak) \in 0..Cap
  BY <1>1, BackoffType
<1>3. Record(w, label, hash)
        = [w EXCEPT !.nudged = hash, !.streak = streak, !.label = label, !.wait = Backoff(streak)]
  BY DEF Record
<1> HIDE DEF streak
<1>4. QED
  BY <1>1, <1>2, <1>3 DEF Watch

LEMMA IdleType == Idle \in TickState
<1>1. \A pc \in Stages, listed \in Seq(Row), scanned \in Nat, eligible \in Seq(Entry) :
        [pc |-> pc, listed |-> listed, scanned |-> scanned, eligible |-> eligible] \in TickState
  BY DEF TickState, Stages, Row, Entry
<1>2. "idle" \in Stages /\ <<>> \in Seq(Row) /\ 0 \in Nat /\ <<>> \in Seq(Entry)
  BY DEF Stages
<1>3. QED
  BY <1>1, <1>2 DEF Idle

LEMMA TickChanges ==
    ASSUME NEW now \in TickState, NEW pc \in Stages
    PROVE  /\ now.pc \in Stages /\ now.listed \in Seq(Row)
           /\ now.scanned \in Nat /\ now.eligible \in Seq(Entry)
           /\ [now EXCEPT !.pc = pc] \in TickState
           /\ \A listed \in Seq(Row) : [now EXCEPT !.pc = pc, !.listed = listed] \in TickState
           /\ \A eligible \in Seq(Entry) : [now EXCEPT !.pc = pc, !.eligible = eligible] \in TickState
           /\ \A scanned \in Nat, eligible \in Seq(Entry) :
                [now EXCEPT !.scanned = scanned, !.eligible = eligible] \in TickState
BY DEF TickState, Stages, Row, Entry

----------------------------------------------------------------------------
(* Types.                                                                  *)

LEMMA InitTypes == Init => TypeOK
<1> SUFFICES ASSUME Init PROVE TypeOK
  OBVIOUS
<1>1. agents \in [Tab -> [screen : Screen, error : BOOLEAN, session : BOOLEAN]]
  <2>1. PICK found \in [Tab -> Pattern \cup {"none"}] :
            agents = [t \in Tab |->
                [screen |-> [n |-> 0, shows |-> found[t]], error |-> FALSE, session |-> TRUE]]
    BY DEF Init
  <2> DEFINE first(t) == [n |-> 0, shows |-> found[t]]
             agent(t) == [screen |-> first(t), error |-> FALSE, session |-> TRUE]
  <2>2. \A t \in Tab : first(t) \in Screen
    <3>1. \A n \in 0..MaxChanges, label \in Pattern \cup {"none"} :
                [n |-> n, shows |-> label] \in Screen
      BY DEF Screen
    <3>2. 0 \in 0..MaxChanges
      BY Numbers
    <3>3. QED
      BY <3>1, <3>2
  <2>3. agents = [t \in Tab |-> agent(t)]
    BY <2>1
  <2> HIDE DEF first
  <2>4. \A t \in Tab : agent(t) \in [screen : Screen, error : BOOLEAN, session : BOOLEAN]
    BY <2>2
  <2> HIDE DEF agent
  <2>5. QED
    BY <2>3, <2>4
<1>2. tick \in TickState /\ tick.pc = "idle"
  BY IdleType DEF Init, Idle
<1>3. watches \in [Tab -> Watch] /\ past \in [Tab -> Episode] /\ tried \in [Tab -> Seen]
  BY FreshType DEF Init, Seen
<1>4. /\ online \in BOOLEAN /\ changes \in 0..MaxChanges
      /\ rr_cursor \in 0..Turn - 1 /\ scan_cursor \in 0..Turn - 1
      /\ breaker \in 0..Cooldown /\ beat \in 0..Cooldown /\ systemic \in BOOLEAN
      /\ served \subseteq Tab /\ quiet \in 0..Cooldown
  <2>1. /\ online = TRUE /\ systemic = FALSE /\ served = {}
        /\ changes = 0 /\ rr_cursor = 0 /\ scan_cursor = 0
        /\ breaker = 0 /\ beat = Cooldown /\ quiet = Cooldown
    BY DEF Init
  <2>2. 0 \in 0..MaxChanges /\ 0 \in 0..Turn - 1 /\ 0 \in 0..Cooldown /\ Cooldown \in 0..Cooldown
    BY Numbers
  <2>3. QED
    BY <2>1, <2>2
<1>5. probe \in [age : 0..ProbeTTL, online : BOOLEAN]
  BY Numbers DEF Init
<1>6. failed \in [get : 0..MaxFaults, post : 0..MaxLost]
  <2>1. \A get \in 0..MaxFaults, post \in 0..MaxLost :
            [get |-> get, post |-> post] \in [get : 0..MaxFaults, post : 0..MaxLost]
    OBVIOUS
  <2>2. 0 \in 0..MaxFaults /\ 0 \in 0..MaxLost
    BY Numbers
  <2>3. QED
    BY <2>1, <2>2 DEF Init
<1>7. QED
  BY <1>1, <1>2, <1>3, <1>4, <1>5, <1>6 DEF TypeOK, Episode

\* A tick begins with no tab looked at.
Rested == tick.pc = "idle" => tick.scanned = 0

LEMMA WorldTypes ==
    ASSUME TypeOK, World
    PROVE  TypeOK'
<1> DEFINE Agent == [screen : Screen, error : BOOLEAN, session : BOOLEAN]
<1>1. agents \in [Tab -> Agent] /\ changes \in 0..MaxChanges /\ online \in BOOLEAN
  BY DEF TypeOK
<1>2. \A t \in Tab, screen \in Screen : [agents EXCEPT ![t].screen = screen] \in [Tab -> Agent]
  BY <1>1
<1>3. Changed => changes' \in 0..MaxChanges /\ UNCHANGED <<watches, pace, tick, failed, history>>
  BY <1>1, Numbers DEF Changed
<1>4. Back => changes' \in 0..MaxChanges /\ UNCHANGED <<watches, pace, tick, failed, history>>
  BY <1>1 DEF Back
<1>5. changes' \in 0..MaxChanges /\ UNCHANGED <<watches, pace, tick, failed, history>>
  BY <1>3, <1>4 DEF World, Show, Flag, Session, Outage
<1>6. online' \in BOOLEAN
  BY <1>1 DEF World, Show, Flag, Session, Outage, Back
<1>7. agents' \in [Tab -> Agent]
  <2>1. ASSUME NEW t \in Tab, Show(t) PROVE agents' \in [Tab -> Agent]
    <3>1. \A n \in 0..changes' : n \in 0..MaxChanges
      BY <1>5, Numbers
    <3>2. changes' \in 0..changes'
      BY <1>5, Numbers
    <3>3. PICK n \in 0..changes', label \in Pattern \cup {"none"} :
              agents' = [agents EXCEPT ![t].screen = [n |-> n, shows |-> label]]
      BY <2>1, <3>2 DEF Show
    <3>4. [n |-> n, shows |-> label] \in Screen
      BY <3>1, <3>3 DEF Screen
    <3>5. QED
      BY <1>2, <3>3, <3>4
  <2>2. ASSUME NEW t \in Tab, Flag(t) \/ Session(t) PROVE agents' \in [Tab -> Agent]
    <3>1. \A flag : (~flag) \in BOOLEAN
      OBVIOUS
    <3>2. PICK flag \in BOOLEAN :
            \/ agents' = [agents EXCEPT ![t].error = flag]
            \/ agents' = [agents EXCEPT ![t].session = flag]
      BY <2>2, <3>1, Zenon DEF Flag, Session
    <3>3. QED
      BY <1>1, <3>2
  <2>3. (Outage \/ Back) => agents' = agents
    BY DEF Outage, Back
  <2>4. QED
    BY <1>1, <2>1, <2>2, <2>3 DEF World
<1>8. QED
  BY <1>5, <1>6, <1>7 DEF TypeOK, pace, history

LEMMA ListTypes ==
    ASSUME TypeOK, Rested, List
    PROVE  TypeOK'
<1> DEFINE ids == Order[{t \in Tab : agents[t].session}]
           row(i) == [id |-> ids[i], crc |-> agents[ids[i]].screen, error |-> agents[ids[i]].error]
           rows == [i \in DOMAIN ids |-> row(i)]
           next == IF ids = <<>> THEN "decide" ELSE "scan"
<1>1. ids \in Seq(Tab)
  <2>1. {t \in Tab : agents[t].session} \in SUBSET Tab
    OBVIOUS
  <2>2. QED
    BY <2>1, Numbers
<1>2. /\ tick' = [tick EXCEPT !.pc = next, !.listed = rows]
      /\ watches' = [t \in Tab |-> IF Contains(ids, t) THEN watches[t] ELSE Fresh]
      /\ served' = served \cap Range(ids)
      /\ tried' = [t \in Tab |-> IF Contains(ids, t) THEN tried[t] ELSE Unseen]
      /\ past' = [t \in Tab |-> IF Contains(ids, t) THEN past[t] ELSE NoEpisode]
      /\ UNCHANGED <<world, pace, failed, quiet>>
      /\ tick.pc = "idle"
  BY DEF List
<1> HIDE DEF ids
<1>3. rows \in Seq(Row) /\ Len(rows) = Len(ids)
  <2>1. \A i \in 1..Len(ids) : row(i) \in Row
    BY <1>1 DEF Row, TypeOK
  <2>2. rows = [i \in 1..Len(ids) |-> row(i)] /\ Len(ids) \in Nat
    BY <1>1
  <2> HIDE DEF row, rows
  <2>3. rows \in [1..Len(ids) -> Row]
    BY <2>1, <2>2
  <2> QED
    BY <1>1, <2>3
<1> HIDE DEF rows
<1>4. next \in Stages /\ (next = "scan" => ids # <<>>) /\ next # "post"
  BY DEF Stages
<1> HIDE DEF next
<1>5. tick \in TickState /\ tick.scanned = 0
  BY <1>2 DEF TypeOK, Rested
<1>6. tick' \in TickState
  BY <1>2, <1>3, <1>4, <1>5, TickChanges
<1>7. tick'.pc = next /\ tick'.listed = rows /\ tick'.scanned = 0
  BY <1>2, <1>5 DEF TickState
<1>8. tick'.pc = "scan" => tick'.scanned \in 0..Len(tick'.listed) - 1
  <2>1. ids # <<>> => Len(ids) \in Nat /\ Len(ids) # 0
    BY <1>1
  <2>2. QED
    BY <1>3, <1>4, <1>7, <2>1
<1>9. watches' \in [Tab -> Watch] /\ past' \in [Tab -> Episode] /\ served' \subseteq Tab
  BY <1>2, FreshType DEF TypeOK, Episode
<1>10. tried' \in [Tab -> Seen]
  BY <1>2 DEF TypeOK, Seen
<1>11. QED
  BY <1>2, <1>4, <1>6, <1>7, <1>8, <1>9, <1>10 DEF TypeOK, world, pace, Episode

LEMMA CurrentType ==
    ASSUME TypeOK, tick.pc = "scan"
    PROVE  Current \in Row
<1> DEFINE n == Len(tick.listed)
           at == (scan_cursor + tick.scanned) % n
<1>1. tick.listed \in Seq(Row) /\ tick.scanned \in 0..n - 1 /\ scan_cursor \in Nat /\ n \in Nat
  BY Numbers DEF TypeOK, TickState, Row
<1>2. scan_cursor + tick.scanned \in Nat /\ n \in Nat \ {0}
  BY <1>1
<1> HIDE DEF n
<1>3. at + 1 \in 1..n
  BY <1>2
<1>4. Current = tick.listed[at + 1]
  BY DEF Current, ScanAt, n
<1> HIDE DEF at
<1>5. QED
  BY <1>1, <1>3, <1>4 DEF n

LEMMA OnwardTypes ==
    ASSUME TypeOK, tick.pc = "scan",
           NEW eligible \in Seq(Entry), NEW may_stop \in BOOLEAN,
           Onward(tick.scanned + 1, eligible, may_stop)
    PROVE  /\ tick' \in TickState
           /\ tick'.pc = "scan" => tick'.scanned \in 0..Len(tick'.listed) - 1
           /\ tick'.pc \in {"scan", "decide"} /\ tick'.eligible = eligible
           /\ scan_cursor' \in 0..Turn - 1
<1>1. /\ tick \in TickState /\ tick.scanned \in Nat /\ tick.listed \in Seq(Row)
      /\ scan_cursor \in 0..Turn - 1 /\ Turn \in Nat \ {0}
  BY Numbers DEF TypeOK, TickState, Row
<1>2. tick.scanned + 1 \in Nat
  BY <1>1
<1>3. CASE /\ tick.scanned + 1 < Len(tick.listed)
           /\ tick' = [tick EXCEPT !.scanned = tick.scanned + 1, !.eligible = eligible]
           /\ UNCHANGED scan_cursor
  <2>1. tick' \in TickState
    BY <1>1, <1>2, <1>3, TickChanges DEF Stages
  <2>2. /\ tick'.pc = "scan" /\ tick'.listed = tick.listed
        /\ tick'.scanned = tick.scanned + 1 /\ tick'.eligible = eligible
    BY <1>1, <1>3 DEF TickState
  <2>3. tick.scanned + 1 \in 0..Len(tick.listed) - 1
    BY <1>1, <1>3
  <2>4. QED
    BY <1>1, <1>3, <2>1, <2>2, <2>3
<1>4. CASE /\ tick' = [Idle EXCEPT !.pc = "decide", !.eligible = eligible]
           /\ scan_cursor' = Move(scan_cursor, tick.scanned + 1)
  <2>1. tick' \in TickState
    BY <1>4, IdleType, TickChanges DEF Stages
  <2>2. tick'.pc = "decide" /\ tick'.eligible = eligible
    BY <1>4 DEF Idle
  <2>3. scan_cursor + (tick.scanned + 1) \in Nat
    BY <1>1
  <2>4. scan_cursor' \in 0..Turn - 1
    BY <1>1, <1>4, <2>3 DEF Move
  <2>5. QED
    BY <2>1, <2>2, <2>4
<1>5. QED
  BY <1>3, <1>4 DEF Onward

LEMMA SleepState == [Idle EXCEPT !.pc = "sleep"] \in TickState
BY IdleType, TickChanges DEF Stages

LEMMA FailedType ==
    ASSUME TypeOK
    PROVE  /\ failed.get < MaxFaults =>
                [failed EXCEPT !.get = failed.get + 1] \in [get : 0..MaxFaults, post : 0..MaxLost]
           /\ failed.post < MaxLost =>
                [failed EXCEPT !.post = failed.post + 1] \in [get : 0..MaxFaults, post : 0..MaxLost]
<1>1. failed \in [get : 0..MaxFaults, post : 0..MaxLost]
  BY DEF TypeOK
<1>2. failed.get < MaxFaults => failed.get + 1 \in 0..MaxFaults
  BY <1>1, Numbers
<1>3. failed.post < MaxLost => failed.post + 1 \in 0..MaxLost
  BY <1>1, Numbers
<1>4. QED
  BY <1>1, <1>2, <1>3

LEMMA VerdictTypes ==
    ASSUME TypeOK, Verdict
    PROVE  breaker' \in 0..Cooldown /\ systemic' \in BOOLEAN
<1>1. breaker' \in {breaker, Cooldown}
  BY DEF Verdict
<1>2. breaker' \in 0..Cooldown
  BY <1>1, Numbers DEF TypeOK
<1>3. (breaker > 0) \in BOOLEAN
  OBVIOUS
<1>4. systemic' \in BOOLEAN
  BY <1>3, Zenon DEF Verdict
<1>5. QED
  BY <1>2, <1>4

\* A look: the tab, what is read of it, and what becomes of the watch.
Looked(tab, read, label, eligible) ==
    LET now == Observe(read, label) IN
    /\ tab = Current /\ tick.pc = "scan" /\ now \in Watch
    /\ read.label = watches[tab.id].label /\ read.wait = watches[tab.id].wait
    /\ read.streak = watches[tab.id].streak
    /\ watches' = [watches EXCEPT ![tab.id] = now]
    /\ eligible = (IF MayNudge(now, label)
                   THEN Append(tick.eligible, [id |-> tab.id, label |-> label, hash |-> now.last])
                   ELSE tick.eligible)
    /\ Onward(tick.scanned + 1, eligible, TRUE)
    /\ served' \subseteq served
    /\ past' = IF label = "none" THEN [past EXCEPT ![tab.id] = NoEpisode] ELSE past
    /\ UNCHANGED <<world, probe, rr_cursor, breaker, beat, systemic, failed, tried, quiet>>

LEMMA LookParts ==
    ASSUME TypeOK, Look
    PROVE  \E tab \in Row, read \in Watch, label \in Label, eligible \in Seq(Entry) :
            Looked(tab, read, label, eligible)
<1> DEFINE tab   == Current
           w     == watches[tab.id]
           fetched == [w EXCEPT !.tail = agents[tab.id].screen, !.crc = tab.crc]
           read  == IF Needed(w, tab.crc) THEN fetched ELSE w
           label == Trigger(read.tail, tab.error)
           now   == Observe(read, label)
           eligible == IF MayNudge(now, label)
                       THEN Append(tick.eligible, [id |-> tab.id, label |-> label, hash |-> now.last])
                       ELSE tick.eligible
<1>1. /\ tick.pc = "scan"
      /\ watches' = [watches EXCEPT ![tab.id] = now]
      /\ Onward(tick.scanned + 1, eligible, TRUE)
      /\ served' = IF w.last = read.tail THEN served ELSE served \ {tab.id}
      /\ past' = IF label = "none" THEN [past EXCEPT ![tab.id] = NoEpisode] ELSE past
      /\ UNCHANGED <<world, probe, rr_cursor, breaker, beat, systemic, failed, tried, quiet>>
  BY DEF Look
<1>2. tab \in Row
  BY <1>1, CurrentType
<1> HIDE DEF tab
<1>3. tab.id \in Tab /\ tab.crc \in Seen /\ tab.error \in BOOLEAN
  BY <1>2 DEF Row, Seen
<1>4. w \in Watch
  BY <1>3 DEF TypeOK
<1>5. agents[tab.id].screen \in Seen
  BY <1>3 DEF TypeOK, Seen
<1>6. /\ read \in Watch
      /\ read.label = w.label /\ read.wait = w.wait /\ read.streak = w.streak
  <2> HIDE DEF w
  <2>1. fetched \in Watch /\ fetched.label = w.label /\ fetched.wait = w.wait /\ fetched.streak = w.streak
    BY <1>3, <1>4, <1>5 DEF Watch
  <2> HIDE DEF fetched
  <2>2. QED
    BY <1>4, <2>1
<1> HIDE DEF read
<1>7. label \in Label
  <2>1. read.tail \in Seen
    BY <1>6 DEF Watch
  <2>2. QED
    BY <1>3, <2>1, LabelType
<1> HIDE DEF label
<1>8. now \in Watch
  BY <1>6, <1>7, ObserveType
<1> HIDE DEF now
<1>9. eligible \in Seq(Entry)
  <2>1. tick.eligible \in Seq(Entry)
    BY DEF TypeOK, TickState, Entry
  <2>2. [id |-> tab.id, label |-> label, hash |-> now.last] \in Entry
    BY <1>3, <1>7, <1>8 DEF Entry, Watch
  <2>3. Append(tick.eligible, [id |-> tab.id, label |-> label, hash |-> now.last]) \in Seq(Entry)
    BY <2>1, <2>2
  <2>4. QED
    BY <2>1, <2>3
<1> HIDE DEF eligible
<1>10. served' \subseteq served
  BY <1>1
<1>11. QED
  BY <1>1, <1>2, <1>6, <1>7, <1>8, <1>9, <1>10 DEF tab, now, eligible, w, Looked

LEMMA ScanTypes ==
    ASSUME TypeOK, Look \/ LookFails
    PROVE  TypeOK'
<1>1. CASE Look
  <2>1. PICK tab \in Row, read \in Watch, label \in Label, eligible \in Seq(Entry) :
            Looked(tab, read, label, eligible)
    BY <1>1, LookParts
  <2>2. /\ tick' \in TickState
        /\ tick'.pc = "scan" => tick'.scanned \in 0..Len(tick'.listed) - 1
        /\ tick'.pc # "post" /\ scan_cursor' \in 0..Turn - 1
    BY <2>1, OnwardTypes DEF Looked
  <2>3. watches' \in [Tab -> Watch]
    BY <2>1 DEF Looked, TypeOK, Row
  <2>4. past' \in [Tab -> Episode]
    BY <2>1, FreshType DEF Looked, TypeOK, Row, Episode
  <2>5. QED
    BY <2>1, <2>2, <2>3, <2>4 DEF Looked, TypeOK, world, Episode
<1>2. CASE LookFails
  <2>1. tick.eligible \in Seq(Entry)
    BY DEF TypeOK, TickState, Entry
  <2>2. /\ tick' \in TickState
        /\ tick'.pc = "scan" => tick'.scanned \in 0..Len(tick'.listed) - 1
        /\ tick'.pc # "post" /\ scan_cursor' \in 0..Turn - 1
    BY <1>2, <2>1, OnwardTypes DEF LookFails
  <2>3. failed' \in [get : 0..MaxFaults, post : 0..MaxLost]
    BY <1>2, FailedType DEF LookFails
  <2>4. UNCHANGED <<world, watches, probe, rr_cursor, breaker, beat, systemic, history>>
    BY <1>2 DEF LookFails
  <2>5. QED
    BY <2>2, <2>3, <2>4 DEF TypeOK, world, history
<1>3. QED
  BY <1>1, <1>2

LEMMA ListFailsTypes ==
    ASSUME TypeOK, ListFails
    PROVE  TypeOK'
<1>1. tick' \in TickState /\ tick'.pc = "sleep"
  BY SleepState DEF ListFails, Idle
<1>2. failed' \in [get : 0..MaxFaults, post : 0..MaxLost]
  BY FailedType DEF ListFails
<1>3. UNCHANGED <<world, watches, pace, history>>
  BY DEF ListFails
<1>4. QED
  BY <1>1, <1>2, <1>3 DEF TypeOK, world, pace, history

LEMMA RestTypes ==
    ASSUME TypeOK, Nobody \/ Suppress \/ HoldBack
    PROVE  TypeOK'
<1>1. tick' \in TickState /\ tick'.pc = "sleep"
  BY SleepState DEF Nobody, Suppress, HoldBack, Rest, Idle
<1>2. breaker' \in 0..Cooldown /\ systemic' \in BOOLEAN
  BY VerdictTypes DEF Nobody, Suppress, HoldBack
<1>3. probe' \in [age : 0..ProbeTTL, online : BOOLEAN]
  BY Numbers DEF TypeOK, Nobody, Suppress, HoldBack, Probe, Probed
<1>4. UNCHANGED <<world, watches, rr_cursor, scan_cursor, beat, failed, history>>
  BY DEF Nobody, Suppress, HoldBack
<1>5. QED
  BY <1>1, <1>2, <1>3, <1>4 DEF TypeOK, world, history

\* The choice as the proofs use it.
LEMMA ChooseParts ==
    ASSUME TypeOK, Choose
    PROVE  \E i \in DOMAIN tick.eligible : \E pick \in Entry :
            /\ pick = tick.eligible[i] /\ tick.pc = "decide"
            /\ watches' = [watches EXCEPT ![pick.id] = Record(watches[pick.id], pick.label, pick.hash)]
            /\ tick' = [tick EXCEPT !.pc = "post", !.eligible = <<pick>>]
            /\ tick'.pc = "post" /\ tick'.eligible = <<pick>> /\ tick' \in TickState
<1> DEFINE n == Len(tick.eligible)
           at == rr_cursor % n
           pick == tick.eligible[at + 1]
<1>1. /\ tick \in TickState /\ tick.eligible \in Seq(Entry) /\ rr_cursor \in Nat
      /\ tick.eligible # <<>> /\ tick.pc = "decide"
  BY Numbers DEF TypeOK, TickState, Choose, Entry
<1>2. n \in Nat \ {0}
  BY <1>1
<1> HIDE DEF n
<1>3. at + 1 \in 1..n
  BY <1>1, <1>2
<1>4. at + 1 \in DOMAIN tick.eligible
  <2> HIDE DEF at
  <2>1. DOMAIN tick.eligible = 1..n
    BY <1>1 DEF n
  <2>2. QED
    BY <1>3, <2>1
<1>5. /\ watches' = [watches EXCEPT ![pick.id] = Record(watches[pick.id], pick.label, pick.hash)]
      /\ tick' = [tick EXCEPT !.pc = "post", !.eligible = <<pick>>]
  BY DEF Choose, Pick, n
<1> HIDE DEF at
<1>6. pick \in Entry
  BY <1>1, <1>4
<1>7. tick' \in TickState /\ tick'.pc = "post" /\ tick'.eligible = <<pick>>
  <2> HIDE DEF pick
  <2>1. <<pick>> \in Seq(Entry)
    BY <1>6
  <2>2. tick' \in TickState
    BY <1>1, <1>5, <2>1, TickChanges DEF Stages
  <2>3. QED
    BY <1>1, <1>5, <2>2 DEF TickState
<1>8. QED
  BY <1>1, <1>4, <1>5, <1>6, <1>7

LEMMA ChooseTypes ==
    ASSUME TypeOK, Choose
    PROVE  TypeOK'
<1>1. PICK pick \in Entry :
        /\ watches' = [watches EXCEPT ![pick.id] = Record(watches[pick.id], pick.label, pick.hash)]
        /\ tick'.pc = "post" /\ tick'.eligible = <<pick>> /\ tick' \in TickState
  BY ChooseParts
<1>2. watches' \in [Tab -> Watch]
  <2>1. pick.id \in Tab /\ pick.label \in Label /\ pick.hash \in Seen
    BY DEF Entry
  <2>2. watches \in [Tab -> Watch]
    BY DEF TypeOK
  <2>3. Record(watches[pick.id], pick.label, pick.hash) \in Watch
    BY <2>1, <2>2, RecordType
  <2>4. QED
    BY <1>1, <2>1, <2>2, <2>3
<1>3. breaker' \in 0..Cooldown /\ systemic' \in BOOLEAN
  BY VerdictTypes DEF Choose
<1>4. probe' \in [age : 0..ProbeTTL, online : BOOLEAN]
  BY Numbers DEF TypeOK, Choose, Probe, Probed
<1>5. beat' \in 0..Cooldown
  BY Numbers DEF TypeOK, Choose, Stamp
<1>6. rr_cursor' \in 0..Turn - 1
  <2>1. rr_cursor + 1 \in Nat
    BY Numbers DEF TypeOK
  <2>2. rr_cursor' = (rr_cursor + 1) % Turn
    BY DEF Choose
  <2>3. QED
    BY <2>1, <2>2, Numbers
<1>7. UNCHANGED <<world, scan_cursor, failed, history>>
  BY DEF Choose
<1>8. QED
  BY <1>1, <1>2, <1>3, <1>4, <1>5, <1>6, <1>7 DEF TypeOK, world, history

LEMMA PostTypes ==
    ASSUME TypeOK, Send \/ SendFails
    PROVE  TypeOK'
<1> DEFINE pick == tick.eligible[1]
           count == IF past[pick.id].label = pick.label THEN Grow(past[pick.id].count) ELSE 1
<1>1. Try(pick)
  BY DEF Send, SendFails
<1>2. pick \in Entry
  <2>1. tick.eligible \in Seq(Entry) /\ tick.eligible # <<>>
    BY <1>1 DEF Try, TypeOK, TickState, Entry
  <2>2. QED
    BY <2>1
<1> HIDE DEF pick
<1>3. tick' \in TickState /\ tick'.pc = "sleep"
  BY <1>1, SleepState DEF Try, Rest, Idle
<1>4. past' \in [Tab -> Episode]
  <2>1. past \in [Tab -> Episode] /\ pick.id \in Tab /\ pick.label \in Label
    BY <1>2 DEF TypeOK, Entry, Episode
  <2>2. count \in 0..7
    BY <2>1, GrowType DEF Episode
  <2>3. past' = [past EXCEPT ![pick.id] = [label |-> pick.label, age |-> 0, count |-> count]]
    BY <1>1 DEF Try
  <2> HIDE DEF count
  <2>4. \A age \in 0..Cap : [label |-> pick.label, age |-> age, count |-> count] \in Episode
    BY <2>1, <2>2 DEF Episode
  <2>5. 0 \in 0..Cap
    BY Numbers
  <2>6. QED
    BY <2>1, <2>3, <2>4, <2>5
<1>5. quiet' \in 0..Cooldown
  BY <1>1, Numbers DEF TypeOK, Try
<1>6. served' \subseteq Tab /\ tried' \in [Tab -> Seen]
  <2>1. pick.id \in Tab /\ pick.hash \in Seen
    BY <1>2 DEF Entry
  <2>2. served \subseteq Tab /\ tried \in [Tab -> Seen]
    BY DEF TypeOK
  <2>3. tried' = [tried EXCEPT ![pick.id] = pick.hash]
    BY <1>1 DEF Try, pick
  <2>4. tried' \in [Tab -> Seen]
    BY <2>1, <2>2, <2>3
  <2>5. served' = served \cup {pick.id} \/ served' = served
    BY DEF Send, SendFails, pick
  <2>6. QED
    BY <2>1, <2>2, <2>4, <2>5
<1>7. failed' \in [get : 0..MaxFaults, post : 0..MaxLost]
  <2>1. failed \in [get : 0..MaxFaults, post : 0..MaxLost]
    BY DEF TypeOK
  <2>2. CASE Send
    BY <2>1, <2>2 DEF Send
  <2>3. CASE SendFails
    BY <2>3, FailedType DEF SendFails
  <2>4. QED
    BY <2>2, <2>3
<1>8. UNCHANGED <<world, watches, pace>>
  BY <1>1 DEF Try
<1>9. QED
  BY <1>3, <1>4, <1>5, <1>6, <1>7, <1>8 DEF TypeOK, world, pace, Episode

LEMMA SleepTypes ==
    ASSUME TypeOK, Sleep
    PROVE  TypeOK'
<1>1. tick' \in TickState /\ tick'.pc = "idle"
  BY IdleType DEF Sleep, Idle
<1>2. watches' \in [Tab -> Watch]
  <2> DEFINE frozen(t) == IF watches[t].last = Unseen THEN 0 ELSE Older(watches[t].frozen, Stable)
             wait(t) == Sooner(watches[t].wait)
             next(t) == [watches[t] EXCEPT !.frozen = frozen(t), !.wait = wait(t)]
  <2>1. ASSUME NEW t \in Tab PROVE next(t) \in Watch
    <3>1. watches[t] \in Watch
      BY DEF TypeOK
    <3>2. watches[t].frozen \in 0..Stable /\ watches[t].wait \in 0..Cap
      BY <3>1 DEF Watch
    <3>3. Older(watches[t].frozen, Stable) \in 0..Stable /\ wait(t) \in 0..Cap /\ 0 \in 0..Stable
      <4>1. Stable \in Nat /\ Cap \in Nat /\ 0 \in 0..Stable
        BY Numbers
      <4>2. QED
        BY <3>2, <4>1, AgeType
    <3>4. frozen(t) \in 0..Stable
      BY <3>3
    <3> HIDE DEF frozen, wait
    <3>5. QED
      BY <3>1, <3>3, <3>4 DEF Watch
  <2>2. watches' = [t \in Tab |-> next(t)]
    BY DEF Sleep
  <2> HIDE DEF next
  <2>3. QED
    BY <2>1, <2>2
<1>3. past' \in [Tab -> Episode]
  <2> DEFINE next(t) == IF past[t] = NoEpisode THEN NoEpisode
                        ELSE [past[t] EXCEPT !.age = Older(past[t].age, Cap)]
  <2>1. ASSUME NEW t \in Tab PROVE next(t) \in Episode
    <3>1. past[t] \in Episode
      BY DEF TypeOK, Episode
    <3>2. Older(past[t].age, Cap) \in 0..Cap
      BY <3>1, AgeType, Numbers DEF Episode
    <3>3. [past[t] EXCEPT !.age = Older(past[t].age, Cap)] \in Episode
      BY <3>1, <3>2 DEF Episode
    <3>4. QED
      BY <3>3, FreshType
  <2>2. past' = [t \in Tab |-> next(t)]
    BY DEF Sleep
  <2> HIDE DEF next
  <2>3. QED
    BY <2>1, <2>2
<1>4. /\ probe' \in [age : 0..ProbeTTL, online : BOOLEAN]
      /\ breaker' \in 0..Cooldown /\ beat' \in 0..Cooldown /\ quiet' \in 0..Cooldown
  BY AgeType, Numbers DEF TypeOK, Sleep
<1>5. UNCHANGED <<world, rr_cursor, scan_cursor, systemic, failed, served, tried>>
  BY DEF Sleep
<1>6. QED
  BY <1>1, <1>2, <1>3, <1>4, <1>5 DEF TypeOK, world, Episode

LEMMA RestedKept == ASSUME TypeOK, Rested, [Next]_vars PROVE Rested'
<1>1. CASE World \/ UNCHANGED vars
  BY <1>1 DEF Rested, vars, World, Show, Flag, Session, Outage, Back, Changed
<1>2. CASE List
  <2> DEFINE ids  == Order[{t \in Tab : agents[t].session}]
             rows == [i \in DOMAIN ids |->
                        [id |-> ids[i], crc |-> agents[ids[i]].screen, error |-> agents[ids[i]].error]]
             next == IF ids = <<>> THEN "decide" ELSE "scan"
  <2>1. tick' = [tick EXCEPT !.pc = next, !.listed = rows]
    BY <1>2 DEF List
  <2>2. next # "idle"
    OBVIOUS
  <2> HIDE DEF ids, rows, next
  <2>3. tick \in TickState
    BY DEF TypeOK
  <2>4. tick'.pc = next
    BY <2>1, <2>3 DEF TickState
  <2>5. QED
    BY <2>2, <2>4 DEF Rested
<1>3. CASE Look \/ LookFails
  <2>1. tick.pc = "scan" /\ \E eligible \in Seq(Entry), may_stop \in BOOLEAN :
            Onward(tick.scanned + 1, eligible, may_stop)
    <3>1. tick.eligible \in Seq(Entry)
      BY DEF TypeOK, TickState, Entry
    <3>2. LookFails => tick.pc = "scan" /\ Onward(tick.scanned + 1, tick.eligible, FALSE)
      BY DEF LookFails
    <3>3. ASSUME Look
          PROVE  tick.pc = "scan" /\ \E eligible \in Seq(Entry) : Onward(tick.scanned + 1, eligible, TRUE)
      <4>1. PICK tab \in Row, read \in Watch, label \in Label, eligible \in Seq(Entry) :
                Looked(tab, read, label, eligible)
        BY <3>3, LookParts
      <4>2. tick.pc = "scan" /\ Onward(tick.scanned + 1, eligible, TRUE)
        BY <4>1 DEF Looked
      <4>3. QED
        BY <4>2, Zenon
    <3>4. TRUE \in BOOLEAN /\ FALSE \in BOOLEAN
      OBVIOUS
    <3>5. QED
      BY <1>3, <3>1, <3>2, <3>3, <3>4, Zenon
  <2>2. QED
    BY <2>1, OnwardTypes DEF Rested
<1>4. CASE ListFails \/ Nobody \/ Suppress \/ HoldBack \/ Send \/ SendFails \/ Sleep
  <2>1. tick' = [Idle EXCEPT !.pc = "sleep"] \/ tick' = Idle
    BY <1>4 DEF ListFails, Nobody, Suppress, HoldBack, Send, SendFails, Sleep, Try, Rest
  <2>2. Idle.scanned = 0 /\ [Idle EXCEPT !.pc = "sleep"].scanned = 0
    BY DEF Idle
  <2>3. QED
    BY <2>1, <2>2 DEF Rested
<1>5. CASE Choose
  BY <1>5 DEF Rested, Choose
<1>6. QED
  BY <1>1, <1>2, <1>3, <1>4, <1>5 DEF Next, Tick

LEMMA TypesKept == ASSUME TypeOK, Rested, [Next]_vars PROVE TypeOK'
<1>1. CASE Tick
  BY <1>1, ListTypes, ListFailsTypes, ScanTypes, RestTypes, ChooseTypes, PostTypes, SleepTypes DEF Tick
<1>2. CASE World
  BY <1>2, WorldTypes
<1>3. CASE UNCHANGED vars
  BY <1>3 DEF TypeOK, vars, world, pace, history
<1>4. QED
  BY <1>1, <1>2, <1>3 DEF Next

\* The types of the watchdog's state, its indexes into what it has listed
\* and found eligible among them (Brain::tick).
THEOREM TypeCorrect == Spec => []TypeOK
<1>1. Init => TypeOK /\ Rested
  <2>1. Init => tick = Idle
    BY DEF Init
  <2>2. Idle.scanned = 0
    BY DEF Idle
  <2>3. QED
    BY <2>1, <2>2, InitTypes DEF Rested
<1>2. (TypeOK /\ Rested) /\ [Next]_vars => (TypeOK /\ Rested)'
  BY TypesKept, RestedKept
<1>3. QED
  BY <1>1, <1>2, PTL DEF Spec

----------------------------------------------------------------------------
(* A capped fleet.                                                         *)

\* The heartbeat is stamped before the nudge is tried, so it is never older.
Spaced ==
    /\ beat <= quiet
    /\ tick.pc = "post" /\ systemic => beat = 0 /\ quiet >= Cooldown

LEMMA SpacedKept == ASSUME TypeOK, Spaced, [Next]_vars PROVE Spaced'
<1>1. beat \in 0..Cooldown /\ quiet \in 0..Cooldown /\ Cooldown \in Nat \ {0}
  BY Numbers DEF TypeOK
<1>2. CASE World \/ UNCHANGED vars
  BY <1>2 DEF Spaced, vars, pace, history, World, Show, Flag, Session, Outage, Back, Changed
<1>3. CASE List
  <2>1. tick'.pc # "post"
    BY <1>3 DEF List, TypeOK, TickState
  <2>2. QED
    BY <1>1, <1>3, <2>1 DEF Spaced, List, pace
<1>4. CASE Look \/ LookFails
  <2>1. tick'.pc # "post"
    BY <1>4 DEF Look, LookFails, Onward, Idle, TypeOK, TickState
  <2>2. QED
    BY <1>1, <1>4, <2>1 DEF Spaced, Look, LookFails, history
<1>5. CASE ListFails \/ Nobody \/ Suppress \/ HoldBack
  <2>1. tick'.pc # "post" /\ UNCHANGED <<beat, quiet>>
    BY <1>5 DEF ListFails, Nobody, Suppress, HoldBack, Rest, Idle, pace, history
  <2>2. QED
    BY <1>1, <2>1 DEF Spaced
<1>6. CASE Choose
  <2>1. /\ systemic' => beat >= Cooldown
        /\ beat' = (IF systemic' THEN 0 ELSE beat) /\ quiet' = quiet
    BY <1>6 DEF Choose, NudgeReady, Stamp, history
  <2>2. QED
    BY <1>1, <2>1 DEF Spaced
<1>7. CASE Send \/ SendFails
  <2>1. /\ tick.pc = "post" /\ tick'.pc # "post" /\ UNCHANGED <<beat, systemic>>
        /\ quiet' = IF systemic THEN 0 ELSE quiet
    BY <1>7 DEF Send, SendFails, Try, Rest, Idle, pace
  <2>2. QED
    BY <1>1, <2>1 DEF Spaced
<1>8. CASE Sleep
  <2>1. /\ tick'.pc # "post"
        /\ beat' = Older(beat, Cooldown) /\ quiet' = Older(quiet, Cooldown)
    BY <1>8 DEF Sleep, Idle
  <2>2. QED
    BY <1>1, <2>1 DEF Spaced, Older
<1>9. QED
  BY <1>2, <1>3, <1>4, <1>5, <1>6, <1>7, <1>8 DEF Next, Tick

\* Two nudges of a capped fleet are an interval apart, whatever the verdict
\* was in between (nudge_ready, systemic_api_freeze).
THEOREM HeartbeatHolds == Spec => CappedIsSpaced
<1>1. Init => Spaced
  BY Numbers DEF Init, Spaced, Idle
<1>2. TypeOK /\ Spaced /\ [Next]_vars => Spaced'
  BY SpacedKept
<1>3. Spaced => [(Send \/ SendFails) /\ systemic => quiet >= Cooldown]_vars
  BY DEF Spaced, Send, SendFails, Try
<1>4. QED
  BY <1>1, <1>2, <1>3, TypeCorrect, PTL DEF Spec, CappedIsSpaced

----------------------------------------------------------------------------
(* The backoff.                                                            *)

\* An episode and the watch of its tab: while none is being sent, the time
\* since the last nudge and the time left to wait make up the backoff.
Paced(t) ==
    LET w == watches[t]
        p == past[t]
    IN  /\ p.label = w.label
        /\ p.label # "none" =>
                p.count = w.streak /\ p.age + w.wait >= Backoff(p.count)

\* The nudge that has been recorded, and is to be sent.
Due(pick) ==
    LET w == watches[pick.id]
        p == past[pick.id]
        streak == IF p.label = pick.label THEN Grow(p.count) ELSE 1
    IN  /\ pick.label # "none" /\ w.label = pick.label
        /\ w.streak = streak /\ w.wait = Backoff(streak)
        /\ p.label = pick.label => p.age >= Backoff(p.count)

\* What is eligible still is, also when its tab was looked at again.
Ready ==
    \A i \in DOMAIN tick.eligible :
        LET e == tick.eligible[i] IN
        e.label # "none" /\ ~(watches[e.id].label = e.label /\ watches[e.id].wait > 0)

Restraint ==
    IF tick.pc = "post"
    THEN /\ Due(tick.eligible[1])
         /\ \A t \in Tab \ {tick.eligible[1].id} : Paced(t)
    ELSE Ready /\ \A t \in Tab : Paced(t)

LEMMA InitRestraint == Init => Restraint
<1> SUFFICES ASSUME Init PROVE Restraint
  OBVIOUS
<1>1. tick.pc = "idle" /\ tick.eligible = <<>>
  BY DEF Init, Idle
<1>2. \A t \in Tab : watches[t].label = "none" /\ past[t].label = "none"
  BY DEF Init, Fresh, NoEpisode
<1>3. QED
  BY <1>1, <1>2 DEF Restraint, Ready, Paced

\* The same state, but for the world and the verdict.
LEMMA SameRestraint ==
    ASSUME TypeOK, Restraint, UNCHANGED <<watches, past>>,
           \/ UNCHANGED tick
           \/ tick.pc # "post" /\ tick'.pc # "post" /\ tick'.eligible \in {tick.eligible, <<>>}
    PROVE  Restraint'
<1>1. CASE UNCHANGED tick
  BY <1>1 DEF Restraint, Ready, Due, Paced
<1>2. CASE tick.pc # "post" /\ tick'.pc # "post" /\ tick'.eligible \in {tick.eligible, <<>>}
  <2>1. Ready'
    BY <1>2 DEF Restraint, Ready
  <2>2. \A t \in Tab : Paced(t)'
    BY <1>2 DEF Restraint, Paced
  <2>3. QED
    BY <1>2, <2>1, <2>2 DEF Restraint
<1>3. QED
  BY <1>1, <1>2

LEMMA ListRestraint ==
    ASSUME TypeOK, Restraint, List
    PROVE  Restraint'
<1> DEFINE ids == Order[{t \in Tab : agents[t].session}]
<1>1. /\ tick.pc = "idle" /\ tick'.pc # "post" /\ tick'.eligible = tick.eligible
      /\ watches' = [t \in Tab |-> IF Contains(ids, t) THEN watches[t] ELSE Fresh]
      /\ past' = [t \in Tab |-> IF Contains(ids, t) THEN past[t] ELSE NoEpisode]
  BY DEF List, TypeOK, TickState
<1> HIDE DEF ids
<1>2. Fresh.label = "none" /\ NoEpisode.label = "none"
  BY DEF Fresh, NoEpisode
<1>3. ASSUME NEW t \in Tab PROVE Paced(t)'
  <2>1. CASE Contains(ids, t)
    <3>1. watches'[t] = watches[t] /\ past'[t] = past[t]
      BY <1>1, <2>1
    <3>2. Paced(t)
      BY <1>1 DEF Restraint
    <3>3. QED
      BY <3>1, <3>2 DEF Paced
  <2>2. CASE ~Contains(ids, t)
    <3>1. watches'[t] = Fresh /\ past'[t] = NoEpisode
      BY <1>1, <2>2
    <3>2. QED
      BY <1>2, <3>1 DEF Paced
  <2>3. QED
    BY <2>1, <2>2
<1>4. Ready'
  <2>1. Ready
    BY <1>1 DEF Restraint
  <2>2. \A i \in DOMAIN tick.eligible : tick.eligible[i].id \in Tab
    <3>1. tick.eligible \in Seq(Entry)
      BY DEF TypeOK, TickState, Entry
    <3>2. \A i \in DOMAIN tick.eligible : tick.eligible[i] \in Entry
      BY <3>1
    <3>3. QED
      BY <3>2 DEF Entry
  <2>3. \A t \in Tab : watches'[t] = watches[t] \/ watches'[t].label = "none"
    BY <1>1, <1>2
  <2>4. QED
    BY <1>1, <2>1, <2>2, <2>3 DEF Ready
<1>5. QED
  BY <1>1, <1>3, <1>4 DEF Restraint

LEMMA LookRestraint ==
    ASSUME TypeOK, Restraint, Look
    PROVE  Restraint'
<1>1. PICK tab \in Row, read \in Watch, label \in Label, eligible \in Seq(Entry) :
        Looked(tab, read, label, eligible)
  BY LookParts
<1> DEFINE now == Observe(read, label)
<1>2. tab.id \in Tab /\ watches \in [Tab -> Watch] /\ past \in [Tab -> Episode]
  BY DEF Row, TypeOK, Episode
<1>3. /\ label = "none" => now.label = "none"
      /\ label # "none" => /\ now.label = read.label /\ now.wait = read.wait
                           /\ now.streak = read.streak
  <2> DEFINE seen == IF read.last = read.tail THEN read ELSE [read EXCEPT !.last = read.tail, !.frozen = 0]
  <2>1. seen.label = read.label /\ seen.wait = read.wait /\ seen.streak = read.streak
    BY DEF Watch
  <2>2. now = IF label = "none" THEN [seen EXCEPT !.streak = 0, !.wait = 0, !.label = "none"] ELSE seen
    BY DEF Observe
  <2>3. "label" \in DOMAIN seen
    BY DEF Watch
  <2> HIDE DEF seen, now
  <2>4. QED
    BY <2>1, <2>2, <2>3
<1>4. /\ watches' = [watches EXCEPT ![tab.id] = now] /\ Onward(tick.scanned + 1, eligible, TRUE)
      /\ eligible = (IF MayNudge(now, label)
                     THEN Append(tick.eligible, [id |-> tab.id, label |-> label, hash |-> now.last])
                     ELSE tick.eligible)
      /\ tick.pc = "scan" /\ now \in Watch
      /\ read.label = watches[tab.id].label /\ read.wait = watches[tab.id].wait
      /\ read.streak = watches[tab.id].streak
      /\ past' = IF label = "none" THEN [past EXCEPT ![tab.id] = NoEpisode] ELSE past
  BY <1>1 DEF Looked
<1> HIDE DEF now
<1>5. tick'.pc # "post" /\ tick'.eligible = eligible
  BY <1>4, OnwardTypes
<1>6. ASSUME NEW t \in Tab PROVE Paced(t)'
  <2>1. Paced(t)
    BY <1>4 DEF Restraint
  <2>2. CASE t # tab.id
    <3>1. watches'[t] = watches[t] /\ past'[t] = past[t]
      BY <1>2, <1>4, <2>2
    <3>2. QED
      BY <2>1, <3>1 DEF Paced
  <2>3. CASE t = tab.id /\ label = "none"
    <3>1. watches'[t] = now /\ past'[t] = NoEpisode
      BY <1>2, <1>4, <2>3
    <3>2. QED
      BY <1>3, <2>3, <3>1 DEF Paced, NoEpisode
  <2>4. CASE t = tab.id /\ label # "none"
    <3>1. watches'[t] = now /\ past'[t] = past[t]
      BY <1>2, <1>4, <2>4
    <3>2. QED
      BY <1>3, <1>4, <2>1, <2>4, <3>1 DEF Paced
  <2>5. QED
    BY <2>2, <2>3, <2>4
<1>7. Ready'
  <2> DEFINE free(e) == e.label # "none" /\ ~(watches'[e.id].label = e.label /\ watches'[e.id].wait > 0)
             added == [id |-> tab.id, label |-> label, hash |-> now.last]
  <2>1. tick.eligible \in Seq(Entry) /\ Ready
    BY <1>4 DEF Restraint, TypeOK, TickState, Entry
  <2>2. \A i \in DOMAIN tick.eligible : free(tick.eligible[i])
    <3>1. SUFFICES ASSUME NEW i \in DOMAIN tick.eligible PROVE free(tick.eligible[i])
      OBVIOUS
    <3> DEFINE e == tick.eligible[i]
    <3>2. e \in Entry
      BY <2>1
    <3>3. e.label # "none" /\ ~(watches[e.id].label = e.label /\ watches[e.id].wait > 0)
      BY <2>1 DEF Ready
    <3>4. \/ watches'[e.id] = watches[e.id]
          \/ watches'[e.id].label = "none"
          \/ /\ watches'[e.id].label = watches[e.id].label
             /\ watches'[e.id].wait = watches[e.id].wait
      BY <1>2, <1>3, <1>4, <3>2 DEF Entry
    <3> HIDE DEF e
    <3>5. QED
      BY <3>3, <3>4 DEF e
  <2>3. CASE MayNudge(now, label)
    <3>1. watches'[tab.id] = now
      BY <1>2, <1>4
    <3>2. free(added)
      BY <2>3, <3>1 DEF MayNudge
    <3>3. added \in Entry
      BY <1>2, <1>4 DEF Entry, Watch
    <3>4. eligible = Append(tick.eligible, added)
      BY <1>4, <2>3
    <3> HIDE DEF added, free
    <3>5. \A i \in DOMAIN eligible : eligible[i] = added \/ (i \in DOMAIN tick.eligible /\ eligible[i] = tick.eligible[i])
      BY <2>1, <3>3, <3>4
    <3>6. \A i \in DOMAIN eligible : free(eligible[i])
      BY <2>2, <3>2, <3>5
    <3>7. QED
      BY <1>5, <3>6 DEF Ready, free
  <2>4. CASE ~MayNudge(now, label)
    BY <1>4, <1>5, <2>2, <2>4 DEF Ready
  <2>5. QED
    BY <2>3, <2>4
<1>8. QED
  BY <1>5, <1>6, <1>7 DEF Restraint

LEMMA ChooseRestraint ==
    ASSUME TypeOK, Restraint, Choose
    PROVE  Restraint'
<1>1. PICK i \in DOMAIN tick.eligible, pick \in Entry :
        /\ pick = tick.eligible[i] /\ tick.pc = "decide"
        /\ watches' = [watches EXCEPT ![pick.id] = Record(watches[pick.id], pick.label, pick.hash)]
        /\ tick'.pc = "post" /\ tick'.eligible = <<pick>>
  BY ChooseParts
<1>2. past' = past
  BY DEF Choose, history
<1>3. pick.id \in Tab /\ watches \in [Tab -> Watch] /\ past \in [Tab -> Episode]
  BY DEF Entry, TypeOK, Episode
<1>4. tick'.eligible[1] = pick
  BY <1>1
<1>5. Ready /\ \A t \in Tab : Paced(t)
  BY <1>1 DEF Restraint
<1>6. Due(pick)'
  <2> DEFINE w == watches[pick.id]
             p == past[pick.id]
             streak == IF w.label = pick.label THEN Grow(w.streak) ELSE 1
  <2>1. pick.label # "none" /\ ~(w.label = pick.label /\ w.wait > 0)
    BY <1>1, <1>5 DEF Ready
  <2>2. p.label = w.label /\ (p.label # "none" => p.count = w.streak /\ p.age + w.wait >= Backoff(p.count))
    BY <1>3, <1>5 DEF Paced
  <2>3. w \in Watch /\ w.wait \in Nat /\ p \in Episode /\ p.age \in Nat
    BY <1>3, Numbers DEF Watch, Episode
  <2>4. p.label = pick.label => p.age >= Backoff(p.count)
    <3>1. SUFFICES ASSUME p.label = pick.label PROVE p.age >= Backoff(p.count)
      OBVIOUS
    <3>2. w.wait = 0
      BY <2>1, <2>2, <2>3, <3>1
    <3>3. p.age + w.wait = p.age
      BY <2>3, <3>2
    <3>4. QED
      BY <2>1, <2>2, <3>1, <3>3
  <2>5. /\ watches'[pick.id].label = pick.label
        /\ watches'[pick.id].streak = streak /\ watches'[pick.id].wait = Backoff(streak)
    <3>1. watches'[pick.id] = Record(w, pick.label, pick.hash)
      BY <1>1, <1>3
    <3> DEFINE backoff == Backoff(streak)
    <3>2. Record(w, pick.label, pick.hash)
            = [w EXCEPT !.nudged = pick.hash, !.streak = streak, !.label = pick.label, !.wait = backoff]
      BY DEF Record
    <3> HIDE DEF streak, w, backoff
    <3>3. QED
      BY <2>3, <3>1, <3>2 DEF Watch, backoff
  <2>6. streak = IF p.label = pick.label THEN Grow(p.count) ELSE 1
    BY <2>1, <2>2
  <2> HIDE DEF streak
  <2>7. QED
    BY <1>2, <2>1, <2>4, <2>5, <2>6 DEF Due
<1>7. ASSUME NEW t \in Tab, t # pick.id PROVE Paced(t)'
  <2>1. watches'[t] = watches[t]
    BY <1>1, <1>3, <1>7
  <2>2. QED
    BY <1>2, <1>5, <2>1 DEF Paced
<1>8. QED
  BY <1>1, <1>4, <1>6, <1>7 DEF Restraint

LEMMA PostRestraint ==
    ASSUME TypeOK, Restraint, Send \/ SendFails
    PROVE  Restraint'
<1> DEFINE pick == tick.eligible[1]
           p == past[pick.id]
           streak == IF p.label = pick.label THEN Grow(p.count) ELSE 1
<1>1. Try(pick)
  BY DEF Send, SendFails
<1>2. /\ tick.pc = "post" /\ tick'.pc = "sleep" /\ tick'.eligible = <<>> /\ watches' = watches
      /\ past' = [past EXCEPT ![pick.id] = [label |-> pick.label, age |-> 0, count |-> streak]]
  BY <1>1 DEF Try, Rest, Idle
<1>3. Due(pick) /\ \A t \in Tab \ {pick.id} : Paced(t)
  BY <1>2 DEF Restraint
<1>4. past \in [Tab -> Episode]
  BY DEF TypeOK, Episode
<1>5. /\ watches[pick.id].label = pick.label
      /\ watches[pick.id].streak = streak /\ watches[pick.id].wait = Backoff(streak)
  BY <1>3 DEF Due
<1> HIDE DEF pick, p, streak
<1>6. ASSUME NEW t \in Tab PROVE Paced(t)'
  <2>1. CASE t = pick.id
    <3>1. past'[t] = [label |-> pick.label, age |-> 0, count |-> streak]
      BY <1>2, <1>4, <2>1
    <3>2. watches[t] \in Watch
      BY DEF TypeOK
    <3>3. watches[t].wait \in Nat
      BY <3>2, Numbers DEF Watch
    <3>4. past'[t].label = pick.label /\ past'[t].count = streak /\ past'[t].age = 0
      BY <3>1
    <3>5. 0 + watches[t].wait >= Backoff(streak)
      BY <1>5, <2>1, <3>3
    <3>6. QED
      BY <1>2, <1>5, <2>1, <3>4, <3>5 DEF Paced
  <2>2. CASE t # pick.id
    <3>1. past'[t] = past[t]
      BY <1>2, <1>4, <2>2
    <3>2. QED
      BY <1>2, <1>3, <2>2, <3>1 DEF Paced
  <2>3. QED
    BY <2>1, <2>2
<1>7. QED
  BY <1>2, <1>6 DEF Restraint, Ready

LEMMA SleepRestraint ==
    ASSUME TypeOK, Restraint, Sleep
    PROVE  Restraint'
<1>1. tick.pc = "sleep" /\ tick'.pc = "idle" /\ tick'.eligible = <<>>
  BY DEF Sleep, Idle
<1>2. ASSUME NEW t \in Tab PROVE Paced(t)'
  <2> DEFINE w == watches[t]
             p == past[t]
             frozen == IF w.last = Unseen THEN 0 ELSE Older(w.frozen, Stable)
             wait == Sooner(w.wait)
             age == Older(p.age, Cap)
  <2>1. w \in Watch /\ p \in Episode
    BY DEF TypeOK, Episode
  <2>2. /\ watches'[t] = [w EXCEPT !.frozen = frozen, !.wait = wait]
        /\ past'[t] = IF p = NoEpisode THEN NoEpisode ELSE [p EXCEPT !.age = age]
    BY DEF Sleep
  <2>3. Paced(t)
    BY <1>1 DEF Restraint
  <2>4. w.wait \in 0..Cap /\ p.age \in 0..Cap /\ p.count \in 0..7 /\ Cap \in Nat
    BY <2>1, Numbers DEF Watch, Episode
  <2>5. Backoff(p.count) \in 0..Cap
    BY <2>4, BackoffType
  <2>6. p.age + w.wait >= Backoff(p.count) => age + wait >= Backoff(p.count)
    <3> DEFINE b == Backoff(p.count)
    <3>1. b \in 0..Cap
      BY <2>5
    <3> HIDE DEF b, w, p
    <3>2. p.age + w.wait >= b => age + wait >= b
      BY <2>4, <3>1 DEF Older, Sooner
    <3>3. QED
      BY <3>2 DEF b
  <2>7. p = NoEpisode => p.label = "none"
    BY DEF NoEpisode
  <2>8. NoEpisode.label = "none"
    BY DEF NoEpisode
  <2>9. watches'[t].label = w.label /\ watches'[t].streak = w.streak /\ watches'[t].wait = wait
    <3> HIDE DEF w, wait, frozen
    <3>1. QED
      BY <2>1, <2>2 DEF Watch
  <2>10. CASE p = NoEpisode
    BY <2>2, <2>3, <2>7, <2>8, <2>9, <2>10 DEF Paced
  <2>11. CASE p # NoEpisode
    <3>1. past'[t].label = p.label /\ past'[t].count = p.count /\ past'[t].age = age
      <4> HIDE DEF p, age
      <4>1. QED
        BY <2>1, <2>2, <2>11 DEF Episode
    <3>2. QED
      BY <2>3, <2>6, <2>9, <3>1 DEF Paced
  <2>12. QED
    BY <2>10, <2>11
<1>3. QED
  BY <1>1, <1>2 DEF Restraint, Ready

LEMMA RestraintKept == ASSUME TypeOK, Restraint, [Next]_vars PROVE Restraint'
<1>1. CASE World \/ UNCHANGED vars
  <2>1. UNCHANGED <<watches, past, tick>>
    BY <1>1 DEF vars, history, World, Show, Flag, Session, Outage, Back, Changed
  <2>2. QED
    BY <2>1, SameRestraint
<1>2. CASE ListFails \/ Nobody \/ Suppress \/ HoldBack
  <2>1. /\ UNCHANGED <<watches, past>> /\ tick.pc # "post" /\ tick'.pc # "post"
        /\ tick'.eligible = <<>>
    BY <1>2 DEF ListFails, Nobody, Suppress, HoldBack, Rest, Idle, history
  <2>2. QED
    BY <2>1, SameRestraint
<1>3. CASE LookFails
  <2>1. tick.eligible \in Seq(Entry)
    BY DEF TypeOK, TickState, Entry
  <2>2. tick.pc = "scan" /\ tick'.pc # "post" /\ tick'.eligible = tick.eligible
    BY <1>3, <2>1, OnwardTypes DEF LookFails
  <2>3. UNCHANGED <<watches, past>>
    BY <1>3 DEF LookFails, history
  <2>4. QED
    BY <2>2, <2>3, SameRestraint
<1>4. CASE List \/ Look \/ Choose \/ Send \/ SendFails \/ Sleep
  BY <1>4, ListRestraint, LookRestraint, ChooseRestraint, PostRestraint, SleepRestraint
<1>5. QED
  BY <1>1, <1>2, <1>3, <1>4 DEF Next, Tick

\* No tab is nudged for one error sooner than the backoff allows, whether
\* its screen changes or stays, and whether the nudges arrive or not
\* (evaluate_tab, backoff_secs, Brain::tick).
THEOREM BackoffHolds == Spec => NotHammered
<1>1. TypeOK /\ Restraint /\ [Next]_vars => Restraint'
  BY RestraintKept
<1>2. Restraint =>
        [Send \/ SendFails =>
            LET pick == tick.eligible[1] IN
            past[pick.id].label = pick.label =>
                past[pick.id].age >= Backoff(past[pick.id].count)]_vars
  BY DEF Restraint, Due, Send, SendFails, Try
<1>3. QED
  BY <1>1, <1>2, InitRestraint, TypeCorrect, PTL DEF Spec, NotHammered
=============================================================================

----------------------------- MODULE RemoteProofs -----------------------------
(***************************************************************************)
(* The mirror of a remote tab is exact, for any tabs, outputs and numbers  *)
(* of events under way.                                                    *)
(*                                                                         *)
(* The events under way form a chain: each output, drawn on what the one   *)
(* before it left, gives what the host had.  The thread adds a link at the *)
(* end, from what it knows; attach takes one from the front and has then   *)
(* drawn it.  A list without the tab ends the chain for good, for attach   *)
(* stops there.                                                            *)
(*                                                                         *)
(* Keys go the other way.  The channel has those after the last one taken, *)
(* up to the last one forwarded; each that was taken has been served, or   *)
(* its request failed.  The thread is told to end after all of them.       *)
(***************************************************************************)
EXTENDS Remote, SequenceTheorems, TLAPS

Event ==
    [kind : {"tabs"}, ids : Seq(Tab)]
        \cup [kind : {"error"}, key : Nat]
        \cup [kind : {"output"}, id : Tab, bytes : Seq(Byte), replaced : BOOLEAN, total : Seq(Byte)]

Row == [id : Tab, out : Seq(Byte)]

Typed ==
    /\ host \in Seq(Row)
    /\ tabs \in Seq(Tab) /\ next \in Nat \ {0}
    /\ poll \in [Tab -> Seq(Byte)]
    /\ events \in Seq(Event)

\* The first event is a list: there is no output before the thread has one.
ListFirst ==
    attach = "connecting" =>
        IF events = <<>> THEN tabs = <<>> ELSE events[1].kind = "tabs"

IInv == Typed /\ ListFirst /\ MirrorIsExact

----------------------------------------------------------------------------
(* The answer to a poll, drawn on what was known, is what there is.        *)

LEMMA PrefixAndRest ==
    ASSUME NEW known \in Seq(Byte), NEW out \in Seq(Byte), IsPrefix(known, out)
    PROVE  known \o SubSeq(out, Len(known) + 1, Len(out)) = out
<1> DEFINE rest == SubSeq(out, Len(known) + 1, Len(out))
<1>1. Len(known) \in Nat /\ Len(out) \in Nat /\ Len(known) <= Len(out)
  BY DEF IsPrefix
<1>2. rest \in Seq(Byte) /\ Len(rest) = Len(out) - Len(known)
  BY <1>1
<1>3. \A i \in 1..Len(rest) : rest[i] = out[Len(known) + i]
  BY <1>1, <1>2
<1>4. \A i \in 1..Len(known) : known[i] = out[i]
  <2>1. TAKE i \in 1..Len(known)
  <2>2. SubSeq(known, 1, Len(known))[i] = known[i]
    BY <1>1
  <2>3. SubSeq(out, 1, Len(known))[i] = out[i]
    BY <1>1
  <2>4. QED
    BY <2>2, <2>3 DEF IsPrefix
<1>5. known \o rest \in Seq(Byte) /\ Len(known \o rest) = Len(out)
  BY <1>1, <1>2
<1>6. \A i \in 1..Len(out) : (known \o rest)[i] = out[i]
  BY <1>1, <1>2, <1>3, <1>4
<1>7. QED
  BY <1>5, <1>6, SeqEqual

LEMMA AnswerGivesAll ==
    ASSUME NEW known \in Seq(Byte), NEW out \in Seq(Byte)
    PROVE  LET start == StartOf(known, out)
               e == Output(Target, SubSeq(out, start + 1, Len(out)), Replaced(start, known), out)
           IN  Draw(known, e) = out
<1> DEFINE start == StartOf(known, out)
           rest == SubSeq(out, start + 1, Len(out))
           e == Output(Target, rest, Replaced(start, known), out)
<1>1. Draw(known, e) = IF Replaced(start, known) THEN rest ELSE known \o rest
  BY DEF Draw, Output
<1>2. CASE IsPrefix(known, out)
  <2>1. start = Len(known)
    BY <1>2 DEF StartOf
  <2>2. ~Replaced(start, known)
    BY <2>1 DEF Replaced
  <2>3. QED
    BY <1>1, <2>1, <2>2, <1>2, PrefixAndRest
<1>3. CASE ~IsPrefix(known, out)
  <2>1. start = 0
    BY <1>3 DEF StartOf
  <2>2. known # <<>>
    BY <1>3, SMT DEF IsPrefix
  <2>3. Replaced(start, known)
    BY <2>1, <2>2 DEF Replaced
  <2>4. rest = out
    <3>1. rest \in Seq(Byte) /\ Len(rest) = Len(out) /\ \A i \in 1..Len(out) : rest[i] = out[i]
      BY <2>1
    <3>2. QED
      BY <3>1, SeqEqual
  <2>5. QED
    BY <1>1, <2>3, <2>4
<1>4. QED
  BY <1>2, <1>3

----------------------------------------------------------------------------
(* What can happen to the chain.                                           *)

\* An event that is not the tab's output is put at the end.
LEMMA ChainPasses ==
    ASSUME NEW shown, NEW es \in Seq(Event), NEW known, NEW e,
           IsChain(shown, es, known), ~Mine(e)
    PROVE  IsChain(shown, Append(es, e), known)
<1> DEFINE n == Len(es)
           fs == Append(es, e)
<1>1. n \in Nat /\ DOMAIN es = 1..n /\ DOMAIN fs = 1..n + 1 /\ Len(fs) = n + 1
  OBVIOUS
<1>2. (\A i \in 1..n : fs[i] = es[i]) /\ fs[n + 1] = e
  OBVIOUS
<1>3. Marks(fs) = Marks(es) /\ Marks(es) \subseteq 0..n
  BY <1>1, <1>2 DEF Marks
<1>4. \A i \in Marks(es) : /\ Content(shown, fs, i) = Content(shown, es, i)
                           /\ \A j \in Marks(es) : NothingBetween(fs, i, j) = NothingBetween(es, i, j)
                           /\ NothingBetween(fs, i, n + 2) = NothingBetween(es, i, n + 1)
  BY <1>1, <1>2, <1>3 DEF Content, NothingBetween
<1>5. \A i, j \in Marks(es) : i < j => fs[j] = es[j]
  BY <1>1, <1>2, <1>3
<1> HIDE DEF n, fs
<1>6. QED
  BY <1>1, <1>3, <1>4, <1>5 DEF IsChain, n, fs

\* The tab's output is put at the end, and is known then.
LEMMA ChainGrows ==
    ASSUME NEW shown, NEW es \in Seq(Event), NEW known, NEW e,
           IsChain(shown, es, known), Mine(e), Draw(known, e) = e.total
    PROVE  IsChain(shown, Append(es, e), e.total)
<1> DEFINE n == Len(es)
           fs == Append(es, e)
<1>1. n \in Nat /\ DOMAIN es = 1..n /\ DOMAIN fs = 1..n + 1 /\ Len(fs) = n + 1
  OBVIOUS
<1>2. (\A i \in 1..n : fs[i] = es[i]) /\ fs[n + 1] = e
  OBVIOUS
<1>3. Marks(fs) = Marks(es) \cup {n + 1} /\ Marks(es) \subseteq 0..n
  BY <1>1, <1>2 DEF Marks
<1>4. \A i \in Marks(es) : /\ Content(shown, fs, i) = Content(shown, es, i)
                           /\ \A j \in Marks(es) : NothingBetween(fs, i, j) = NothingBetween(es, i, j)
                           /\ NothingBetween(fs, i, n + 1) = NothingBetween(es, i, n + 1)
                           /\ ~NothingBetween(fs, i, n + 2)
  BY <1>1, <1>2, <1>3 DEF Content, NothingBetween
<1>5. \A i, j \in Marks(es) : i < j => fs[j] = es[j]
  BY <1>1, <1>2, <1>3
<1>6. Content(shown, fs, n + 1) = e.total
  BY <1>1, <1>2 DEF Content
<1>7. ASSUME NEW i \in Marks(fs), NEW j \in Marks(fs), i < j, NothingBetween(fs, i, j)
      PROVE  Draw(Content(shown, fs, i), fs[j]) = fs[j].total
  <2>1. i \in Marks(es)
    BY <1>1, <1>3, <1>7
  <2>2. CASE j = n + 1
    <3>1. known = Content(shown, es, i)
      BY <1>4, <1>7, <2>1, <2>2 DEF IsChain
    <3>2. QED
      BY <1>2, <1>4, <2>1, <2>2, <3>1
  <2>3. CASE j \in Marks(es)
    BY <1>4, <1>5, <1>7, <2>1, <2>3 DEF IsChain
  <2>4. QED
    BY <1>3, <2>2, <2>3
<1>8. ASSUME NEW i \in Marks(fs), NothingBetween(fs, i, Len(fs) + 1)
      PROVE  e.total = Content(shown, fs, i)
  BY <1>1, <1>3, <1>4, <1>6, <1>8
<1> HIDE DEF fs
<1>9. QED
  BY <1>7, <1>8 DEF IsChain, fs

\* The first event is taken and drawn.
LEMMA ChainIsDrawn ==
    ASSUME NEW shown, NEW es \in Seq(Event), NEW known,
           IsChain(shown, es, known), es # <<>>
    PROVE  IsChain(Draw(shown, Head(es)), Tail(es), known)
<1> DEFINE n == Len(es)
           fs == Tail(es)
           drawn == Draw(shown, Head(es))
<1>1. /\ n \in Nat \ {0} /\ DOMAIN es = 1..n
      /\ DOMAIN fs = 1..n - 1 /\ Len(fs) = n - 1 /\ Head(es) = es[1]
  OBVIOUS
<1>2. \A i \in 1..n - 1 : fs[i] = es[i + 1]
  OBVIOUS
<1>3. /\ Marks(es) \subseteq 0..n /\ Marks(fs) \subseteq 0..n - 1
      /\ 0 \in Marks(es) /\ 0 \in Marks(fs)
      /\ \A i \in 1..n - 1 : i \in Marks(fs) <=> i + 1 \in Marks(es)
      /\ 1 \in Marks(es) <=> Mine(es[1])
  BY <1>1, <1>2 DEF Marks
\* What is first now follows what was first, or the screen.
<1> DEFINE was(i) == IF i = 0 /\ ~Mine(es[1]) THEN 0 ELSE i + 1
<1>4. \A i \in Marks(fs) : was(i) \in Marks(es) /\ was(i) \in 0..n
  BY <1>1, <1>3
<1>5. \A i, j \in Marks(fs) : i < j =>
            /\ was(i) < was(j) /\ es[was(j)] = fs[j]
            /\ NothingBetween(fs, i, j) => NothingBetween(es, was(i), was(j))
  <2>1. ASSUME NEW i \in Marks(fs), NEW j \in Marks(fs), i < j
        PROVE  was(i) < was(j) /\ was(j) = j + 1 /\ es[was(j)] = fs[j]
    BY <1>1, <1>2, <1>3, <2>1
  <2>2. ASSUME NEW i \in Marks(fs), NEW j \in Marks(fs), i < j, NothingBetween(fs, i, j),
               NEW k \in Marks(es), was(i) < k, k < j + 1
        PROVE  FALSE
    <3>1. k \in 1..n /\ i \in 0..n - 1 /\ j \in 0..n - 1
      BY <1>1, <1>3, <1>4, <2>2
    <3>2. CASE k = 1
      BY <1>3, <2>2, <3>1, <3>2
    <3>3. CASE k > 1
      <4>1. k - 1 \in Marks(fs) /\ i < k - 1 /\ k - 1 < j
        BY <1>1, <1>3, <2>2, <3>1, <3>3
      <4>2. QED
        BY <2>2, <4>1 DEF NothingBetween
    <3>4. QED
      BY <3>1, <3>2, <3>3
  <2>3. QED
    BY <2>1, <2>2 DEF NothingBetween
<1>6. \A i \in Marks(fs) : NothingBetween(fs, i, n) => NothingBetween(es, was(i), n + 1)
  <2>1. SUFFICES ASSUME NEW i \in Marks(fs), NothingBetween(fs, i, n),
                        NEW k \in Marks(es), was(i) < k, k < n + 1
                 PROVE  FALSE
    BY DEF NothingBetween
  <2>2. k \in 1..n /\ i \in 0..n - 1
    BY <1>1, <1>3, <1>4, <2>1
  <2>3. CASE k = 1
    BY <1>3, <2>1, <2>2, <2>3
  <2>4. CASE k > 1
    <3>1. k - 1 \in Marks(fs) /\ i < k - 1 /\ k - 1 < n
      BY <1>1, <1>3, <2>1, <2>2, <2>4
    <3>2. QED
      BY <2>1, <3>1 DEF NothingBetween
  <2>5. QED
    BY <2>2, <2>3, <2>4
<1>7. \A i \in Marks(fs) : Content(drawn, fs, i) = Content(shown, es, was(i))
  <2>1. CASE Mine(es[1])
    <3>1. 0 \in Marks(es) /\ 1 \in Marks(es) /\ NothingBetween(es, 0, 1)
      BY <1>3, <2>1 DEF NothingBetween
    <3>2. drawn = es[1].total
      BY <1>1, <3>1 DEF IsChain, Content
    <3>3. QED
      BY <1>1, <1>2, <1>3, <2>1, <3>2 DEF Content
  <2>2. CASE ~Mine(es[1])
    <3>1. drawn = shown
      BY <1>1, <2>2 DEF Draw, Mine
    <3>2. QED
      BY <1>1, <1>2, <1>3, <2>2, <3>1 DEF Content
  <2>3. QED
    BY <2>1, <2>2
<1> HIDE DEF was, fs, drawn
<1>8. ASSUME NEW i \in Marks(fs), NEW j \in Marks(fs), i < j, NothingBetween(fs, i, j)
      PROVE  Draw(Content(drawn, fs, i), fs[j]) = fs[j].total
  BY <1>4, <1>5, <1>7, <1>8 DEF IsChain
<1>9. ASSUME NEW i \in Marks(fs), NothingBetween(fs, i, Len(fs) + 1)
      PROVE  known = Content(drawn, fs, i)
  BY <1>1, <1>4, <1>6, <1>7, <1>9 DEF IsChain, n
<1>10. QED
  BY <1>8, <1>9 DEF IsChain, fs, drawn

----------------------------------------------------------------------------
(* The induction.                                                          *)

LEMMA InitHolds == Init => IInv
<1> SUFFICES ASSUME Init PROVE IInv
  OBVIOUS
<1>1. Order \in Seq(Tab) /\ Target \in Tab /\ Begun \in [Tab -> Seq(Byte)]
  BY TabAssumption
<1>2. host \in Seq(Row)
  <2>1. DOMAIN Order = 1..Len(Order) /\ Len(Order) \in Nat
    BY <1>1
  <2>2. \A i \in 1..Len(Order) : [id |-> Order[i], out |-> Begun[Order[i]]] \in [id : Tab, out : Seq(Byte)]
    <3>1. \A i \in 1..Len(Order) : Order[i] \in Tab
      BY <1>1, <2>1, ElementOfSeq
    <3>2. \A i \in 1..Len(Order) : Begun[Order[i]] \in Seq(Byte)
      BY <1>1, <3>1
    <3>3. QED
      BY <3>1, <3>2
  <2>3. QED
    BY <2>1, <2>2 DEF Init, Row
<1>3. Typed /\ ListFirst
  BY <1>2 DEF Init, Typed, ListFirst
<1>4. MirrorIsExact
  <2>1. Marks(events) = {0} /\ Content(screen, events, 0) = <<>> /\ poll[Target] = <<>>
    BY <1>1 DEF Init, Marks, Content
  <2>2. QED
    BY <2>1 DEF MirrorIsExact, IsChain
<1>5. QED
  BY <1>3, <1>4 DEF IInv

\* What the steps of attach, the keyboard and the host leave alone.
LEMMA Untouched ==
    ASSUME IInv, UNCHANGED <<tabs, poll, next, events, screen, attach>>,
           host' \in Seq(Row)
    PROVE  IInv'
<1>1. Typed' /\ ListFirst'
  BY DEF IInv, Typed, ListFirst
<1>2. MirrorIsExact'
  BY DEF IInv, MirrorIsExact, StaysWatching
<1>3. QED
  BY <1>1, <1>2 DEF IInv

LEMMA RowChanges ==
    ASSUME NEW hs \in Seq(Row), NEW i \in DOMAIN hs, NEW out \in Seq(Byte)
    PROVE  [hs EXCEPT ![i].out = out] \in Seq(Row)
<1>1. hs[i] \in Row /\ DOMAIN hs = 1..Len(hs) /\ Len(hs) \in Nat
  OBVIOUS
<1>2. PICK r \in Row : hs[i] = r
  BY <1>1
<1>3. [r EXCEPT !.out = out] \in Row
  BY DEF Row
<1>4. [hs EXCEPT ![i].out = out] = [hs EXCEPT ![i] = [r EXCEPT !.out = out]]
  BY <1>2
<1>5. \A x \in Row : [hs EXCEPT ![i] = x] \in Seq(Row)
  BY <1>1
<1>6. QED
  BY <1>3, <1>4, <1>5

LEMMA HostKeepsIt == IInv /\ HostStep => IInv'
<1>0. ASSUME IInv, NEW q \in late, ServeLate(q) PROVE IInv'
  <2>1. UNCHANGED <<host, tabs, poll, next, events, screen, attach>>
    BY <1>0 DEF ServeLate, hostvars, client, local, terminal
  <2>2. QED
    BY <1>0, <2>1, Untouched DEF IInv, Typed
<1> SUFFICES ASSUME IInv, NEW i \in DOMAIN host,
                    \/ \E b \in Byte : Prints(i, b) \/ Redraw(i, <<b>>)
                    \/ Redraw(i, <<>>)
                    \/ CloseTab(i)
             PROVE  IInv'
  BY <1>0 DEF HostStep
<1>1. host \in Seq(Row) /\ i \in 1..Len(host) /\ Len(host) \in Nat
  BY DEF IInv, Typed
<1>2. host[i].out \in Seq(Byte)
  <2>1. host[i] \in Row
    BY <1>1
  <2>2. QED
    BY <2>1 DEF Row
<1>3. host' \in Seq(Row)
  <2>1. CASE \E b \in Byte : Prints(i, b)
    <3>1. PICK b \in Byte : host' = [host EXCEPT ![i].out = Append(@, b)]
      BY <2>1 DEF Prints
    <3>2. Append(host[i].out, b) \in Seq(Byte)
      BY <1>2
    <3>3. QED
      BY <1>1, <3>1, <3>2, RowChanges
  <2>2. CASE \E b \in Byte : Redraw(i, <<b>>)
    <3>1. PICK b \in Byte : host' = [host EXCEPT ![i].out = <<b>>]
      BY <2>2 DEF Redraw
    <3>2. <<b>> \in Seq(Byte)
      OBVIOUS
    <3>3. QED
      BY <1>1, <3>1, <3>2, RowChanges
  <2>3. CASE Redraw(i, <<>>)
    <3>1. host' = [host EXCEPT ![i].out = <<>>] /\ <<>> \in Seq(Byte)
      BY <2>3 DEF Redraw
    <3>2. QED
      BY <1>1, <3>1, RowChanges
  <2>4. CASE CloseTab(i)
    <3>1. /\ SubSeq(host, 1, i - 1) \in Seq(Row) /\ SubSeq(host, i + 1, Len(host)) \in Seq(Row)
      <4>1. \A m \in 1..Len(host) + 1, n \in 0..Len(host) : SubSeq(host, m, n) \in Seq(Row)
        BY <1>1, SubSeqProperties
      <4>2. QED
        BY <1>1, <4>1
    <3>2. QED
      BY <2>4, <3>1 DEF CloseTab, RemoveAt
  <2>5. QED
    BY <2>1, <2>2, <2>3, <2>4
<1>4. UNCHANGED <<tabs, poll, next, events, screen, attach>>
  BY DEF Prints, Redraw, CloseTab, Changed, client, local, terminal
<1>5. QED
  BY <1>3, <1>4, Untouched

\* The thread puts an event into the channel.
LEMMA Told ==
    ASSUME Typed, NEW e \in Event, Tell(e)
    PROVE  /\ events' \in Seq(Event)
           /\ events' = Append(events, e) \/ (events' = events /\ attach \in {"leaving", "gone"})
BY DEF Typed, Tell

LEMMA OtherEvents ==
    /\ \A ids \in Seq(Tab) : /\ Listing(ids) \in Event /\ ~Mine(Listing(ids))
                             /\ Listing(ids).kind = "tabs" /\ Listing(ids).ids = ids
    /\ \A k \in Nat : Error(k) \in Event /\ ~Mine(Error(k)) /\ Error(k).kind = "error"
BY DEF Listing, Error, Event, Mine

\* An event that is not an output goes to attach.  If it is a list without
\* the tab the mirror ends; else what was known of the tab stays.
LEMMA PassingKeepsIt ==
    ASSUME IInv, NEW e \in Event, ~Mine(e), Tell(e),
           UNCHANGED <<host, screen, attach>>,
           tabs' \in Seq(Tab), next' \in Nat \ {0}, poll' \in [Tab -> Seq(Byte)],
           attach = "connecting" => e.kind = "tabs",
           (e.kind = "tabs" => Contains(e.ids, Target)) => poll'[Target] = poll[Target]
    PROVE  IInv'
<1>1. Typed
  BY DEF IInv
<1>2. events \in Seq(Event) /\ Len(events) \in Nat
  BY <1>1 DEF Typed
<1>3. events' \in Seq(Event)
      /\ (events' = Append(events, e) \/ (events' = events /\ attach \in {"leaving", "gone"}))
  BY <1>1, Told
<1>4. Typed'
  BY <1>1, <1>3 DEF Typed
<1>5. ListFirst'
  <2>1. CASE attach = "connecting"
    <3>1. events' = Append(events, e) /\ events' # <<>>
      BY <1>2, <1>3, <2>1
    <3>2. events'[1].kind = "tabs"
      BY <1>1, <1>2, <2>1, <3>1 DEF IInv, ListFirst
    <3>3. QED
      BY <3>1, <3>2 DEF ListFirst
  <2>2. QED
    BY <2>1 DEF ListFirst
<1>6. MirrorIsExact'
  <2>1. SUFFICES ASSUME StaysWatching' PROVE IsChain(screen, events', poll'[Target])
    BY DEF MirrorIsExact
  <2>2. events' = Append(events, e)
    BY <1>3, <2>1 DEF StaysWatching
  <2>3. /\ DOMAIN events = 1..Len(events) /\ DOMAIN events' = 1..Len(events) + 1
        /\ \A i \in 1..Len(events) : events'[i] = events[i]
        /\ events'[Len(events) + 1] = e
    BY <1>2, <2>2
  <2>4. StaysWatching
    BY <1>2, <2>1, <2>3 DEF StaysWatching
  <2>5. e.kind = "tabs" => Contains(e.ids, Target)
    <3>1. Len(events) + 1 \in DOMAIN events'
      BY <1>2, <2>3
    <3>2. QED
      BY <2>1, <2>3, <3>1 DEF StaysWatching
  <2>6. QED
    BY <1>2, <2>2, <2>4, <2>5, ChainPasses DEF IInv, MirrorIsExact
<1>7. QED
  BY <1>4, <1>5, <1>6 DEF IInv

LEMMA FetchTabsKeepsIt == IInv /\ FetchTabs => IInv'
<1> SUFFICES ASSUME IInv, FetchTabs PROVE IInv'
  OBVIOUS
<1> DEFINE fresh == [i \in DOMAIN host |-> host[i].id]
<1>1. fresh \in Seq(Tab)
  <2>1. DOMAIN host = 1..Len(host) /\ Len(host) \in Nat /\ \A i \in 1..Len(host) : host[i] \in Row
    BY DEF IInv, Typed
  <2>2. \A i \in 1..Len(host) : host[i].id \in Tab
    BY <2>1 DEF Row
  <2>3. QED
    BY <2>1, <2>2
<1>2. poll \in [Tab -> Seq(Byte)] /\ Target \in Tab
  BY TabAssumption DEF IInv, Typed
<1>3. /\ Tell(Listing(fresh)) /\ tabs' = fresh /\ next' = 1
      /\ poll' = [t \in Tab |-> IF Contains(fresh, t) THEN poll[t] ELSE <<>>]
      /\ UNCHANGED <<host, screen, attach>>
  BY DEF FetchTabs, Polls, hostvars, local, terminal
<1> HIDE DEF fresh
<1>4. /\ tabs' \in Seq(Tab) /\ next' \in Nat \ {0} /\ poll' \in [Tab -> Seq(Byte)]
      /\ Contains(fresh, Target) => poll'[Target] = poll[Target]
  BY <1>1, <1>2, <1>3
<1>5. /\ Listing(fresh) \in Event /\ ~Mine(Listing(fresh)) /\ Listing(fresh).kind = "tabs"
      /\ Listing(fresh).ids = fresh
  BY <1>1, OtherEvents DEF Listing
<1>6. PICK e : e = Listing(fresh)
  OBVIOUS
<1>7. QED
  BY <1>3, <1>4, <1>5, <1>6, PassingKeepsIt

LEMMA TabsFailKeepsIt == IInv /\ TabsFail => IInv'
<1> SUFFICES ASSUME IInv, TabsFail PROVE IInv'
  OBVIOUS
<1>1. /\ Tell(Listing(tabs)) /\ UNCHANGED <<host, screen, attach, tabs, next, poll>>
  BY DEF TabsFail, Polls, hostvars, local, terminal
<1>2. tabs \in Seq(Tab) /\ next \in Nat \ {0} /\ poll \in [Tab -> Seq(Byte)]
  BY DEF IInv, Typed
<1>3. QED
  BY <1>1, <1>2, OtherEvents, PassingKeepsIt

\* The thread does something else.
LEMMA ThreadKeepsIt ==
    ASSUME IInv, End \/ Drained \/ TabsNotDue \/ OutputDone
    PROVE  IInv'
<1>1. UNCHANGED <<host, tabs, poll, events, screen, attach>> /\ next' \in {next, 1}
  BY DEF End, Drained, TabsNotDue, OutputDone, Polls, hostvars, local, terminal
<1>2. Typed' /\ ListFirst'
  BY <1>1 DEF IInv, Typed, ListFirst
<1>3. MirrorIsExact'
  BY <1>1 DEF IInv, MirrorIsExact, StaysWatching
<1>4. QED
  BY <1>2, <1>3 DEF IInv

\* An output goes to attach, as far as it has changed.
LEMMA FetchOutputKeepsIt == IInv /\ FetchOutput => IInv'
<1> SUFFICES ASSUME IInv, FetchOutput PROVE IInv'
  OBVIOUS
<1> DEFINE t == tabs[next]
           known == poll[t]
           out == host[next].out
           start == StartOf(known, out)
           e == Output(t, SubSeq(out, start + 1, Len(out)), Replaced(start, known), out)
<1>1. /\ Typed /\ next \in 1..Len(tabs) /\ next' = next + 1
      /\ UNCHANGED <<host, tabs, screen, attach>>
  BY DEF IInv, Typed, FetchOutput, Polls, hostvars, local, terminal
<1>2. t \in Tab /\ known \in Seq(Byte) /\ poll \in [Tab -> Seq(Byte)] /\ Target \in Tab
  BY <1>1, TabAssumption DEF Typed
<1>3. CASE UNCHANGED <<poll, events>>
  <2>1. Typed' /\ ListFirst'
    BY <1>1, <1>3 DEF IInv, Typed, ListFirst
  <2>2. MirrorIsExact'
    BY <1>1, <1>3 DEF IInv, MirrorIsExact, StaysWatching
  <2>3. QED
    BY <2>1, <2>2 DEF IInv
<1>4. CASE /\ next \in DOMAIN host
           /\ poll' = [poll EXCEPT ![t] = out]
           /\ IF out = known THEN UNCHANGED events ELSE Tell(e)
  <2>1. out \in Seq(Byte)
    <3>1. host[next] \in Row
      BY <1>1, <1>4 DEF Typed
    <3>2. QED
      BY <3>1 DEF Row
  <2>2. poll' \in [Tab -> Seq(Byte)]
    BY <1>2, <1>4, <2>1
  <2>3. CASE out = known
    <3>1. poll' = poll
      BY <1>2, <1>4, <2>3
    <3>2. QED
      BY <1>3, <1>4, <2>3, <3>1
  <2>4. CASE out # known
    <3>1. e \in Event /\ e.kind = "output" /\ e.id = t /\ e.total = out
      <4>1. start \in Nat
        BY <1>2, <2>1 DEF StartOf
      <4>2. SubSeq(out, start + 1, Len(out)) \in Seq(Byte)
        BY <2>1, <4>1
      <4>3. Replaced(start, known) \in BOOLEAN
        BY DEF Replaced
      <4>4. QED
        BY <1>2, <2>1, <4>2, <4>3 DEF Output, Event
    <3>2. t = Target => Draw(known, e) = out
      BY <1>2, <2>1, AnswerGivesAll
    <3> HIDE DEF e, out, known, t
    <3>3. /\ events' \in Seq(Event)
          /\ events' = Append(events, e) \/ (events' = events /\ attach \in {"leaving", "gone"})
      BY <1>1, <1>4, <2>4, <3>1, Told
    <3>4. Typed'
      BY <1>1, <2>2, <3>3 DEF Typed
    <3>5. events \in Seq(Event) /\ Len(events) \in Nat
      BY <1>1 DEF Typed
    <3>6. ListFirst'
      <4>1. CASE attach = "connecting"
        <5>1. events # <<>> /\ events[1].kind = "tabs"
          BY <1>1, <4>1 DEF IInv, ListFirst
        <5>2. events' # <<>> /\ events'[1] = events[1]
          BY <3>3, <3>5, <4>1, <5>1
        <5>3. QED
          BY <5>1, <5>2 DEF ListFirst
      <4>2. QED
        BY <1>1, <4>1 DEF ListFirst
    <3>7. MirrorIsExact'
      <4>1. SUFFICES ASSUME StaysWatching' PROVE IsChain(screen, events', poll'[Target])
        BY <1>1 DEF MirrorIsExact
      <4>2. events' = Append(events, e)
        BY <1>1, <3>3, <4>1 DEF StaysWatching
      <4>3. \A i \in DOMAIN events : i \in DOMAIN events' /\ events'[i] = events[i]
        BY <3>5, <4>2
      <4>4. StaysWatching
        BY <1>1, <4>1, <4>3 DEF StaysWatching
      <4>5. IsChain(screen, events, poll[Target])
        BY <4>4 DEF IInv, MirrorIsExact
      <4>6. CASE t = Target
        <5>1. Mine(e) /\ Draw(poll[Target], e) = e.total
          BY <3>1, <3>2, <4>6 DEF Mine, known
        <5>2. poll'[Target] = e.total
          BY <1>2, <1>4, <3>1, <4>6
        <5>3. QED
          BY <3>5, <4>2, <4>5, <5>1, <5>2, ChainGrows
      <4>7. CASE t # Target
        <5>1. ~Mine(e) /\ poll'[Target] = poll[Target]
          BY <1>2, <1>4, <3>1, <4>7 DEF Mine
        <5>2. QED
          BY <3>5, <4>2, <4>5, <5>1, ChainPasses
      <4>8. QED
        BY <4>6, <4>7
    <3>8. QED
      BY <3>4, <3>6, <3>7 DEF IInv
  <2>5. QED
    BY <2>3, <2>4
<1>5. QED
  BY <1>3, <1>4 DEF FetchOutput

\* Once attach does not watch, nothing is claimed.
LEMMA LeavingKeepsIt ==
    ASSUME IInv, attach' \in {"leaving", "gone"}, events' \in Seq(Event),
           UNCHANGED <<host, tabs, poll, next>>
    PROVE  IInv'
BY DEF IInv, Typed, ListFirst, MirrorIsExact, StaysWatching

\* An event is taken, and drawn if there is something to draw.
LEMMA TakenKeepsIt ==
    ASSUME IInv, events # <<>>, events' = Tail(events), screen' = Draw(screen, Head(events)),
           attach' = "watching", attach \in {"connecting", "watching"},
           Head(events).kind = "tabs" => Contains(Head(events).ids, Target),
           UNCHANGED <<host, tabs, poll, next>>
    PROVE  IInv'
<1>1. events \in Seq(Event) /\ events' \in Seq(Event) /\ Len(events) \in Nat \ {0}
  BY DEF IInv, Typed
<1>2. Typed' /\ ListFirst'
  BY <1>1 DEF IInv, Typed, ListFirst
<1>3. MirrorIsExact'
  <2>1. SUFFICES ASSUME StaysWatching' PROVE IsChain(screen', Tail(events), poll[Target])
    BY DEF MirrorIsExact
  <2>2. ASSUME NEW i \in DOMAIN events, events[i].kind = "tabs"
        PROVE  Contains(events[i].ids, Target)
    <3>1. CASE i = 1
      BY <1>1, <2>2, <3>1
    <3>2. CASE i # 1
      <4>1. i - 1 \in DOMAIN events' /\ events'[i - 1] = events[i]
        BY <1>1, <3>2
      <4>2. QED
        BY <2>1, <2>2, <4>1 DEF StaysWatching
    <3>3. QED
      BY <3>1, <3>2
  <2>3. IsChain(screen, events, poll[Target])
    BY <2>2 DEF IInv, MirrorIsExact, StaysWatching
  <2>4. QED
    BY <1>1, <2>3, ChainIsDrawn
<1>4. QED
  BY <1>2, <1>3 DEF IInv

LEMMA ConnectKeepsIt == IInv /\ Connect => IInv'
<1> SUFFICES ASSUME IInv, Connect PROVE IInv'
  OBVIOUS
<1>1. attach = "connecting" /\ events # <<>> /\ UNCHANGED <<host, tabs, poll, next, screen>>
  BY DEF Connect, Here, hostvars, client, terminal
<1>2. CASE Contains(Head(events).ids, Target)
  <2>1. events[1].kind = "tabs" /\ Head(events) = events[1]
    BY <1>1 DEF IInv, Typed, ListFirst
  <2>2. screen' = Draw(screen, Head(events))
    BY <1>1, <2>1 DEF Draw
  <2>3. attach' = "watching" /\ events' = Tail(events)
    BY <1>2 DEF Connect
  <2>4. QED
    BY <1>1, <1>2, <2>2, <2>3, TakenKeepsIt
<1>3. CASE ~Contains(Head(events).ids, Target)
  <2>1. attach' = "gone" /\ events' = <<>> /\ <<>> \in Seq(Event)
    BY <1>3 DEF Connect, Gone
  <2>2. QED
    BY <1>1, <2>1, LeavingKeepsIt
<1>4. QED
  BY <1>2, <1>3

LEMMA WatchKeepsIt == IInv /\ Watch => IInv'
<1> SUFFICES ASSUME IInv, Watch PROVE IInv'
  OBVIOUS
<1> DEFINE e == Head(events)
<1>1. /\ attach = "watching" /\ events # <<>> /\ screen' = Draw(screen, e)
      /\ UNCHANGED <<host, tabs, poll, next>>
  BY DEF Watch, Here, hostvars, client
<1>2. CASE e.kind = "tabs" /\ ~Contains(e.ids, Target)
  <2>1. attach' = "leaving" /\ events' = <<>> /\ <<>> \in Seq(Event)
    BY <1>2 DEF Watch
  <2>2. QED
    BY <1>1, <2>1, LeavingKeepsIt
<1>3. CASE ~(e.kind = "tabs" /\ ~Contains(e.ids, Target))
  <2>1. events' = Tail(events) /\ attach' = "watching"
    BY <1>1, <1>3 DEF Watch
  <2>2. QED
    BY <1>1, <1>3, <2>1, TakenKeepsIt
<1>4. QED
  BY <1>2, <1>3

LEMMA LeaveKeepsIt == IInv /\ (GiveUp \/ Leave \/ Join) => IInv'
<1> SUFFICES ASSUME IInv, GiveUp \/ Leave \/ Join PROVE IInv'
  OBVIOUS
<1>1. /\ attach' \in {"leaving", "gone"} /\ events' \in {events, <<>>}
      /\ UNCHANGED <<host, tabs, poll, next>>
  BY DEF GiveUp, Leave, Join, Gone, Here, hostvars, client
<1>2. events' \in Seq(Event)
  <2>1. events \in Seq(Event) /\ <<>> \in Seq(Event)
    BY DEF IInv, Typed
  <2>2. events' = events \/ events' = <<>>
    BY <1>1
  <2>3. QED
    BY <2>1, <2>2
<1>3. QED
  BY <1>1, <1>2, LeavingKeepsIt

LEMMA KeyboardKeepsIt == IInv /\ (Keyboard \/ User) => IInv'
<1> SUFFICES ASSUME IInv, Keyboard \/ User PROVE IInv'
  OBVIOUS
<1>1. UNCHANGED <<host, tabs, poll, next, events, screen, attach>>
  BY DEF Keyboard, User, Check, SendLast, Type, EndOfInput, Detach, Here, hostvars, client, terminal
<1>2. host' \in Seq(Row)
  BY <1>1 DEF IInv, Typed
<1>3. QED
  BY <1>1, <1>2, Untouched

----------------------------------------------------------------------------
(* The keys.  Of those that were forwarded, 1 to n, the thread has taken   *)
(* the first b, and c, the channel, has the others, with what tells the    *)
(* thread to end at most behind them.  Of those taken, r is what reached   *)
(* the host, f those whose request failed, w those it may still serve.     *)

Hit == [key : Nat, tab : Tab]
Request == [key : Nat, at : Nat]

Queued(c, b, n) ==
    /\ b \in Nat /\ n \in Nat /\ b <= n
    /\ c \in Seq(Nat) /\ Len(c) \in {n - b, n - b + 1}
    /\ \A i \in 1..n - b : c[i] = b + i
    /\ Len(c) = n - b + 1 => c[n - b + 1] = Shutdown

Served(r, f, w, b) ==
    /\ r \in Seq(Hit) /\ f \subseteq 1..b /\ w \subseteq Request
    /\ \A i \in DOMAIN r : r[i].key <= b
    /\ \A i, j \in DOMAIN r : i < j => /\ r[i].key # r[j].key
                                       /\ r[i].key < r[j].key \/ r[j].key \in f
    /\ \A q \in w : q.key \in f /\ \A i \in DOMAIN r : r[i].key # q.key
    /\ \A p, q \in w : p.key = q.key => p = q
    /\ \A k \in 1..b : k \in f \/ \E i \in DOMAIN r : r[i].key = k

\* The last key is typed before it is forwarded.
Forwarded == IF stdin = "last" THEN typed - 1 ELSE typed

\* Nobody is told to end while a key can still come.
Taken(b) ==
    /\ Queued(cmds, b, Forwarded) /\ Served(reached, failed, late, b)
    /\ Len(cmds) # Forwarded - b => attach = "gone"

\* The thread ends with nothing left to do, and after attach has gone; keys
\* come only while attach is between its first list and its end.
Ending ==
    /\ at = "ended" => cmds = <<>> /\ attach = "gone"
    /\ attach = "gone" => stdin \in {"none", "done"}
    /\ attach = "connecting" => stdin = "none"
    /\ stdin = "none" => typed = 0

\* What failed has been told, or is under way to attach.
Heard ==
    attach = "watching" =>
        \A k \in failed \ told : \E i \in DOMAIN events : events[i] = Error(k)

KeyInv ==
    /\ typed \in Nat /\ (stdin = "last" => typed > 0)
    /\ \E b \in Nat : Taken(b)
    /\ Ending /\ Heard

\* What is asked of sequences here.
LEMMA Appended == ASSUME NEW V, NEW s \in Seq(V), NEW e \in V
                  PROVE  /\ Append(s, e) \in Seq(V) /\ Len(Append(s, e)) = Len(s) + 1
                         /\ DOMAIN s = 1..Len(s) /\ DOMAIN Append(s, e) = 1..Len(s) + 1
                         /\ \A i \in 1..Len(s) : Append(s, e)[i] = s[i]
                         /\ Append(s, e)[Len(s) + 1] = e
                         /\ Len(s) \in Nat
BY AppendProperties, LenProperties

LEMMA Beheaded == ASSUME NEW V, NEW s \in Seq(V), s # <<>>
                  PROVE  /\ Tail(s) \in Seq(V) /\ Len(Tail(s)) = Len(s) - 1
                         /\ DOMAIN s = 1..Len(s) /\ DOMAIN Tail(s) = 1..Len(s) - 1
                         /\ \A i \in 1..Len(s) - 1 : Tail(s)[i] = s[i + 1]
                         /\ Head(s) = s[1] /\ Head(s) \in V
                         /\ Len(s) \in Nat /\ Len(s) >= 1
BY HeadTailProperties, LenProperties, EmptySeq

LEMMA Elements == ASSUME NEW V, NEW s \in Seq(V), NEW n, n = Len(s)
                  PROVE  n \in Nat /\ DOMAIN s = 1..n /\ \A i \in 1..n : s[i] \in V
BY LenProperties, ElementOfSeq

LEMMA Hits == ASSUME NEW r \in Seq(Hit) PROVE \A i \in DOMAIN r : r[i].key \in Nat
<1>1. \A i \in DOMAIN r : r[i] \in Hit
  BY Elements
<1> QED
  BY <1>1 DEF Hit

\* With names for what is subtracted.
LEMMA QueuedIs ==
    ASSUME NEW c \in Seq(Nat), NEW b \in Nat, NEW n \in Nat, NEW l, NEW k, l = n - b, k = Len(c),
           b <= n, k = l \/ k = l + 1, \A i \in 1..l : c[i] = b + i, k = l + 1 => c[l + 1] = Shutdown
    PROVE  Queued(c, b, n)
<1>1. Len(c) \in {n - b, n - b + 1}
  OBVIOUS
<1>2. \A i \in 1..n - b : c[i] = b + i
  OBVIOUS
<1>3. Len(c) = n - b + 1 => c[n - b + 1] = Shutdown
  OBVIOUS
<1> QED
  BY <1>1, <1>2, <1>3, Zenon DEF Queued

\* The keyboard's thread puts the next key into the channel.
LEMMA KeyForwarded ==
    ASSUME NEW c, NEW b, NEW n, Queued(c, b, n), Len(c) = n - b,
           NEW d, d = Append(c, n + 1), NEW m, m = n + 1
    PROVE  Queued(d, b, m) /\ Len(d) = m - b
<1>1. PICK l : l = n - b
  OBVIOUS
<1>2. b \in Nat /\ n \in Nat /\ l \in Nat /\ n = b + l /\ l = Len(c)
  BY <1>1 DEF Queued
<1>3. d \in Seq(Nat) /\ Len(d) = l + 1 /\ d[l + 1] = n + 1 /\ \A i \in 1..l : d[i] = c[i]
  <2>1. c \in Seq(Nat) /\ n + 1 \in Nat
    BY <1>2 DEF Queued
  <2>2. /\ Append(c, n + 1) \in Seq(Nat) /\ Len(Append(c, n + 1)) = Len(c) + 1
        /\ Append(c, n + 1)[Len(c) + 1] = n + 1
        /\ \A i \in 1..Len(c) : Append(c, n + 1)[i] = c[i]
    BY <2>1, Appended
  <2> QED
    BY <1>2, <2>2
<1>4. \A i \in 1..l : c[i] = b + i
  BY <1>1 DEF Queued
<1>5. \A i \in 1..l + 1 : d[i] = b + i
  <2>1. \A i \in 1..l + 1 : i \in 1..l \/ i = l + 1
    BY <1>2
  <2>2. \A i \in 1..l : d[i] = b + i
    BY <1>3, <1>4
  <2>3. n + 1 = b + (l + 1)
    BY <1>2
  <2>4. d[l + 1] = b + (l + 1)
    BY <1>3, <2>3
  <2> QED
    BY <2>1, <2>2, <2>4
<1>6. PICK k : k = l + 1
  OBVIOUS
<1>7. k = m - b /\ m \in Nat /\ b <= m /\ k = Len(d) /\ k # k + 1
  BY <1>2, <1>3, <1>6
<1>8. \A i \in 1..k : d[i] = b + i
  BY <1>5, <1>6
<1> QED
  BY <1>2, <1>3, <1>7, <1>8, QueuedIs

\* The client is dropped, and the thread told to end.
LEMMA ShutdownForwarded ==
    ASSUME NEW c, NEW b, NEW n, Queued(c, b, n), Len(c) = n - b
    PROVE  Queued(Append(c, Shutdown), b, n)
<1>1. PICK d, l : d = Append(c, Shutdown) /\ l = n - b
  OBVIOUS
<1>2. b \in Nat /\ n \in Nat /\ b <= n /\ l \in Nat /\ l = Len(c) /\ Shutdown \in Nat
  BY <1>1 DEF Queued, Shutdown
<1>3. d \in Seq(Nat) /\ Len(d) = l + 1 /\ d[l + 1] = Shutdown /\ \A i \in 1..l : d[i] = c[i]
  <2>1. c \in Seq(Nat)
    BY DEF Queued
  <2>2. /\ Append(c, Shutdown) \in Seq(Nat) /\ Len(Append(c, Shutdown)) = Len(c) + 1
        /\ Append(c, Shutdown)[Len(c) + 1] = Shutdown
        /\ \A i \in 1..Len(c) : Append(c, Shutdown)[i] = c[i]
    BY <1>2, <2>1, Appended
  <2> QED
    BY <1>1, <1>2, <2>2
<1>4. \A i \in 1..l : d[i] = b + i
  BY <1>1, <1>3 DEF Queued
<1> QED
  BY <1>1, <1>2, <1>3, <1>4 DEF Queued

\* The thread takes the first of the keys.
LEMMA KeyTaken ==
    ASSUME NEW c, NEW b, NEW n, Queued(c, b, n), c # <<>>, Head(c) # Shutdown
    PROVE  /\ Head(c) = b + 1 /\ b + 1 <= n /\ Queued(Tail(c), b + 1, n)
           /\ Len(c) = n - b => Len(Tail(c)) = n - (b + 1)
<1>1. PICK d, l : d = Tail(c) /\ l = n - b
  OBVIOUS
<1>2. b \in Nat /\ n \in Nat /\ l \in Nat /\ n = b + l
  BY <1>1 DEF Queued
<1>3. /\ d \in Seq(Nat) /\ Len(d) = Len(c) - 1 /\ Len(c) \in Nat /\ Len(c) >= 1
      /\ \A i \in 1..Len(c) - 1 : d[i] = c[i + 1]
      /\ Head(c) = c[1]
  BY <1>1, Beheaded DEF Queued
<1>4. Len(c) \in {l, l + 1} /\ (Len(c) = l + 1 => c[l + 1] = Shutdown)
      /\ \A i \in 1..l : c[i] = b + i
  BY <1>1 DEF Queued
<1>5. l >= 1
  <2>1. l # 0
    BY <1>3, <1>4
  <2> QED
    BY <1>2, <2>1
<1>6. Head(c) = b + 1 /\ b + 1 <= n
  BY <1>2, <1>3, <1>4, <1>5
<1>7. n - (b + 1) = l - 1 /\ b + 1 \in Nat /\ l - 1 \in Nat
  BY <1>2, <1>5
<1>8. ASSUME NEW i \in 1..l - 1 PROVE d[i] = b + 1 + i
  <2>1. i + 1 \in 1..l /\ i \in 1..Len(c) - 1
    BY <1>2, <1>3, <1>4, <1>5
  <2>2. d[i] = c[i + 1]
    BY <1>3, <2>1
  <2>3. c[i + 1] = b + (i + 1)
    BY <1>4, <2>1
  <2> QED
    BY <1>2, <2>2, <2>3
<1>9. Len(d) = l => d[l] = Shutdown
  BY <1>3, <1>4, <1>5
<1>10. PICK j, e, k : j = l - 1 /\ e = b + 1 /\ k = Len(d)
  OBVIOUS
<1>11. k = j \/ k = j + 1
  BY <1>2, <1>3, <1>4, <1>10
<1>12. k = j + 1 => d[j + 1] = Shutdown
  BY <1>2, <1>9, <1>10
<1>13. e \in Nat /\ j = n - e /\ e <= n
  BY <1>6, <1>7, <1>10
<1>14. \A i \in 1..j : d[i] = e + i
  BY <1>8, <1>10
<1>15. Queued(d, e, n)
  BY <1>2, <1>3, <1>10, <1>11, <1>12, <1>13, <1>14, QueuedIs
<1>16. Len(c) = l => k = n - e
  BY <1>2, <1>3, <1>10
<1> QED
  BY <1>1, <1>6, <1>10, <1>15, <1>16

\* What tells the thread to end is the last that it is told.
LEMMA ShutdownHeard ==
    ASSUME NEW c, NEW b, NEW n, Queued(c, b, n), c # <<>>, Head(c) = Shutdown
    PROVE  b = n /\ Len(c) = 1 /\ Tail(c) = <<>> /\ Queued(<<>>, n, n)
<1>1. PICK l : l = n - b
  OBVIOUS
<1>2. b \in Nat /\ n \in Nat /\ l \in Nat /\ n = b + l
  BY <1>1 DEF Queued
<1>3. /\ Tail(c) \in Seq(Nat) /\ Len(Tail(c)) = Len(c) - 1 /\ Len(c) \in Nat /\ Len(c) >= 1
      /\ c[1] = Shutdown
  BY Beheaded DEF Queued
<1>4. Len(c) \in {l, l + 1} /\ \A i \in 1..l : c[i] = b + i
  BY <1>1 DEF Queued
<1>5. l = 0
  <2> SUFFICES ASSUME l # 0 PROVE FALSE
    OBVIOUS
  <2>1. 1 \in 1..l
    BY <1>2
  <2>2. c[1] = b + 1
    BY <1>4, <2>1
  <2> QED
    BY <1>2, <1>3, <2>2 DEF Shutdown
<1>6. b = n /\ Len(c) = 1
  BY <1>2, <1>3, <1>4, <1>5
<1>7. Tail(c) = <<>>
  <2>1. Len(Tail(c)) = 0
    BY <1>3, <1>6
  <2> QED
    BY <1>3, <2>1, EmptySeq
<1>8. Queued(<<>>, n, n)
  <2>1. n - n = 0 /\ Len(<<>>) = 0 /\ <<>> \in Seq(Nat) /\ n <= n
    BY <1>2
  <2>2. \A i \in 1..0 : FALSE
    OBVIOUS
  <2> QED
    BY <1>2, <2>1, <2>2 DEF Queued
<1> QED
  BY <1>6, <1>7, <1>8

\* A hit is added to what reached the host.
LEMMA Added ==
    ASSUME NEW r \in Seq(Hit), NEW k \in Nat, NEW t \in Tab,
           NEW s, s = Append(r, [key |-> k, tab |-> t])
    PROVE  \E m \in Nat :
             /\ DOMAIN r = 1..m /\ s \in Seq(Hit) /\ DOMAIN s = 1..m + 1
             /\ s[m + 1].key = k /\ \A i \in 1..m : s[i] = r[i]
<1>1. PICK h : h = [key |-> k, tab |-> t]
  OBVIOUS
<1>2. h \in Hit /\ h.key = k
  BY <1>1 DEF Hit
<1>3. PICK m : m = Len(r)
  OBVIOUS
<1>4. /\ m \in Nat /\ DOMAIN r = 1..m /\ Append(r, h) \in Seq(Hit) /\ DOMAIN Append(r, h) = 1..m + 1
      /\ Append(r, h)[m + 1] = h /\ \A i \in 1..m : Append(r, h)[i] = r[i]
  BY <1>2, <1>3, Appended
<1> QED
  BY <1>1, <1>2, <1>4

\* A key that has been taken reaches the host.
LEMMA KeyServed ==
    ASSUME NEW r, NEW f, NEW w, NEW b \in Nat, Served(r, f, w, b), NEW t \in Tab
    PROVE  Served(Append(r, [key |-> b + 1, tab |-> t]), f, w, b + 1)
<1>1. r \in Seq(Hit) /\ b + 1 \in Nat
  BY DEF Served
<1>2. PICK s : s = Append(r, [key |-> b + 1, tab |-> t])
  OBVIOUS
<1>3. PICK m \in Nat : /\ DOMAIN r = 1..m /\ s \in Seq(Hit) /\ DOMAIN s = 1..m + 1
                       /\ s[m + 1].key = b + 1 /\ \A i \in 1..m : s[i] = r[i]
  BY <1>1, <1>2, Added
<1>4. \A i \in 1..m : r[i].key \in Nat /\ r[i].key <= b
  BY <1>1, <1>3, Hits DEF Served
<1>5. f \subseteq 1..b + 1 /\ w \subseteq Request
  <2>1. f \subseteq 1..b /\ w \subseteq Request
    BY DEF Served
  <2>2. 1..b \subseteq 1..b + 1
    OBVIOUS
  <2> QED
    BY <2>1, <2>2
<1>6. \A i \in DOMAIN s : s[i].key <= b + 1
  BY <1>3, <1>4
<1>7. ASSUME NEW i \in DOMAIN s, NEW j \in DOMAIN s, i < j
      PROVE  s[i].key # s[j].key /\ (s[i].key < s[j].key \/ s[j].key \in f)
  <2>1. i \in 1..m /\ s[i] = r[i]
    BY <1>3, <1>7
  <2>2. CASE j \in 1..m
    BY <1>3, <1>7, <2>1, <2>2 DEF Served
  <2>3. CASE j = m + 1
    BY <1>3, <1>4, <2>1, <2>3
  <2> QED
    BY <1>3, <2>2, <2>3
<1>8. ASSUME NEW q \in w PROVE q.key \in f /\ \A i \in DOMAIN s : s[i].key # q.key
  <2>1. q.key \in f /\ \A i \in 1..m : r[i].key # q.key
    BY <1>3 DEF Served
  <2>2. q.key \in 1..b
    BY <2>1 DEF Served
  <2>3. ASSUME NEW i \in DOMAIN s PROVE s[i].key # q.key
    <3>1. CASE i \in 1..m
      BY <1>3, <2>1, <3>1
    <3>2. CASE i = m + 1
      BY <1>3, <2>2, <3>2
    <3> QED
      BY <1>3, <3>1, <3>2
  <2> QED
    BY <2>1, <2>3
<1>9. ASSUME NEW k \in 1..b + 1 PROVE k \in f \/ \E i \in DOMAIN s : s[i].key = k
  <2>1. CASE k = b + 1
    BY <1>3, <2>1
  <2>2. CASE k \in 1..b
    <3>1. \A i \in DOMAIN r : i \in DOMAIN s /\ s[i] = r[i]
      BY <1>3
    <3> QED
      BY <2>2, <3>1 DEF Served
  <2> QED
    BY <2>1, <2>2
<1>10. \A p, q \in w : p.key = q.key => p = q
  BY DEF Served
<1>11. Served(s, f, w, b + 1)
  BY <1>3, <1>5, <1>6, <1>7, <1>8, <1>9, <1>10 DEF Served
<1> QED
  BY <1>2, <1>11

\* Its request fails, and is or is not still under way.
LEMMA KeyFails ==
    ASSUME NEW r, NEW f, NEW w, NEW b \in Nat, Served(r, f, w, b), NEW v,
           v = w \/ \E i \in Nat : v = w \cup {[key |-> b + 1, at |-> i]}
    PROVE  Served(r, f \cup {b + 1}, v, b + 1)
<1>1. r \in Seq(Hit) /\ \A i \in DOMAIN r : r[i].key \in Nat /\ r[i].key <= b
  BY Hits DEF Served
<1>2. f \cup {b + 1} \subseteq 1..b + 1
  <2>1. f \subseteq 1..b
    BY DEF Served
  <2>2. 1..b \subseteq 1..b + 1 /\ b + 1 \in 1..b + 1
    OBVIOUS
  <2> QED
    BY <2>1, <2>2
<1>3. \A i \in DOMAIN r : r[i].key <= b + 1
  BY <1>1
<1>4. \A i, j \in DOMAIN r : i < j => /\ r[i].key # r[j].key
                                      /\ r[i].key < r[j].key \/ r[j].key \in f \cup {b + 1}
  BY DEF Served
<1>5. \A k \in 1..b + 1 : k \in f \cup {b + 1} \/ \E i \in DOMAIN r : r[i].key = k
  <2>1. \A k \in 1..b + 1 : k \in 1..b \/ k = b + 1
    OBVIOUS
  <2> QED
    BY <2>1 DEF Served
<1>6. /\ w \subseteq Request /\ \A p, q \in w : p.key = q.key => p = q
      /\ \A q \in w : q.key \in f /\ \A i \in DOMAIN r : r[i].key # q.key
  BY DEF Served
<1>7. \A q \in w : q.key \in 1..b /\ q.key # b + 1
  <2>1. f \subseteq 1..b
    BY DEF Served
  <2>2. b + 1 \notin 1..b
    OBVIOUS
  <2> QED
    BY <1>6, <2>1, <2>2
<1>8. CASE v = w
  BY <1>1, <1>2, <1>3, <1>4, <1>5, <1>6, <1>8 DEF Served
<1>9. ASSUME NEW i \in Nat, v = w \cup {[key |-> b + 1, at |-> i]}
      PROVE  Served(r, f \cup {b + 1}, v, b + 1)
  <2>1. PICK n : n = [key |-> b + 1, at |-> i]
    OBVIOUS
  <2>2. n \in Request /\ n.key = b + 1 /\ v = w \cup {n}
    BY <1>9, <2>1 DEF Request
  <2>3. v \subseteq Request
    BY <1>6, <2>2
  <2>4. \A j \in DOMAIN r : r[j].key # n.key
    BY <1>1, <2>2
  <2>5. \A q \in v : q.key \in f \cup {b + 1} /\ \A j \in DOMAIN r : r[j].key # q.key
    BY <1>6, <2>2, <2>4
  <2>6. \A p, q \in v : p.key = q.key => p = q
    BY <1>6, <1>7, <2>2
  <2> QED
    BY <1>1, <1>2, <1>3, <1>4, <1>5, <2>3, <2>5, <2>6 DEF Served
<1> QED
  BY <1>8, <1>9

\* The host serves a request that was given up, or never does.
LEMMA KeyServedLate ==
    ASSUME NEW r, NEW f, NEW w, NEW b \in Nat, Served(r, f, w, b), NEW q \in w, NEW s,
           s = r \/ \E t \in Tab : s = Append(r, [key |-> q.key, tab |-> t])
    PROVE  Served(s, f, w \ {q}, b)
<1>1. CASE s = r
  BY <1>1 DEF Served
<1>2. ASSUME NEW t \in Tab, s = Append(r, [key |-> q.key, tab |-> t])
      PROVE  Served(s, f, w \ {q}, b)
  <2>1. q.key \in f /\ q.key \in 1..b /\ q.key \in Nat /\ r \in Seq(Hit)
    <3>1. r \in Seq(Hit) /\ f \subseteq 1..b /\ \A p \in w : p.key \in f
      BY DEF Served
    <3>2. q.key \in f
      BY <3>1
    <3>3. q.key \in 1..b
      BY <3>1, <3>2
    <3>4. q.key \in Nat
      BY <3>3
    <3> QED
      BY <3>1, <3>2, <3>3, <3>4
  <2>2. PICK m \in Nat : /\ DOMAIN r = 1..m /\ s \in Seq(Hit) /\ DOMAIN s = 1..m + 1
                         /\ s[m + 1].key = q.key /\ \A i \in 1..m : s[i] = r[i]
    BY <1>2, <2>1, Added
  <2>3. \A i \in 1..m : r[i].key <= b /\ r[i].key # q.key
    BY <2>2 DEF Served
  <2>4. \A i \in DOMAIN s : s[i].key <= b
    BY <2>1, <2>2, <2>3
  <2>5. ASSUME NEW i \in DOMAIN s, NEW j \in DOMAIN s, i < j
        PROVE  s[i].key # s[j].key /\ (s[i].key < s[j].key \/ s[j].key \in f)
    <3>1. i \in 1..m /\ s[i] = r[i]
      BY <2>2, <2>5
    <3>2. CASE j \in 1..m
      BY <2>2, <2>5, <3>1, <3>2 DEF Served
    <3>3. CASE j = m + 1
      BY <2>1, <2>2, <2>3, <3>1, <3>3
    <3> QED
      BY <2>2, <3>2, <3>3
  <2>6. ASSUME NEW p \in w \ {q} PROVE p.key \in f /\ \A i \in DOMAIN s : s[i].key # p.key
    <3>1. p.key \in f /\ p.key # q.key /\ \A i \in 1..m : r[i].key # p.key
      BY <2>2 DEF Served
    <3>2. \A i \in 1..m + 1 : i \in 1..m \/ i = m + 1
      OBVIOUS
    <3> QED
      BY <2>2, <3>1, <3>2
  <2>7. \A k \in 1..b : k \in f \/ \E i \in DOMAIN s : s[i].key = k
    <3>1. \A i \in DOMAIN r : i \in DOMAIN s /\ s[i] = r[i]
      BY <2>2
    <3> QED
      BY <3>1 DEF Served
  <2>8. f \subseteq 1..b /\ w \ {q} \subseteq Request /\ \A p1, p2 \in w \ {q} : p1.key = p2.key => p1 = p2
    BY DEF Served
  <2> QED
    BY <2>2, <2>4, <2>5, <2>6, <2>7, <2>8 DEF Served
<1> QED
  BY <1>1, <1>2

----------------------------------------------------------------------------
(* The induction on the keys.                                              *)

LEMMA InitKeys == Init => KeyInv
<1> SUFFICES ASSUME Init PROVE KeyInv
  OBVIOUS
<1>1. Forwarded = 0 /\ typed = 0 /\ stdin = "none" /\ at = "commands" /\ attach = "connecting"
  BY DEF Init, Forwarded
<1>2. /\ cmds = <<>> /\ reached = <<>> /\ failed = {} /\ late = {} /\ Len(cmds) = 0
      /\ cmds \in Seq(Nat) /\ reached \in Seq(Hit) /\ DOMAIN reached = {}
  BY DEF Init
<1>3. Queued(cmds, 0, 0)
  <2>1. 0 - 0 = 0
    OBVIOUS
  <2>2. \A i \in 1..0 : FALSE
    OBVIOUS
  <2> QED
    BY <1>2, <2>1, <2>2 DEF Queued
<1>4. Served(reached, failed, late, 0)
  <2>1. \A i \in 1..0 : FALSE
    OBVIOUS
  <2> QED
    BY <1>2, <2>1 DEF Served
<1>5. Taken(0)
  BY <1>1, <1>2, <1>3, <1>4 DEF Taken
<1>6. Ending /\ Heard
  BY <1>1 DEF Ending, Heard
<1> QED
  BY <1>1, <1>5, <1>6 DEF KeyInv

\* Steps that leave the keys alone, and tell attach something or nothing.
LEMMA HeardOn ==
    ASSUME Typed, Heard, UNCHANGED <<attach, told, failed>>,
           UNCHANGED events \/ \E e \in Event : Tell(e)
    PROVE  Heard'
<1> SUFFICES ASSUME attach = "watching", NEW k \in failed \ told
             PROVE  \E i \in DOMAIN events' : events'[i] = Error(k)
  BY DEF Heard
<1>1. PICK i \in DOMAIN events : events[i] = Error(k)
  BY DEF Heard
<1>2. CASE UNCHANGED events
  BY <1>1, <1>2
<1>3. ASSUME NEW e \in Event, Tell(e) PROVE \E j \in DOMAIN events' : events'[j] = Error(k)
  <2>1. events' = Append(events, e) /\ events \in Seq(Event)
    BY <1>3 DEF Tell, Typed
  <2>2. i \in DOMAIN events' /\ events'[i] = events[i]
    BY <2>1, Appended
  <2> QED
    BY <1>1, <2>2
<1> QED
  BY <1>2, <1>3

LEMMA KeysUntouched ==
    ASSUME KeyInv, UNCHANGED <<cmds, keys, stdin, attach>>, at' # "ended" \/ at' = at, Heard'
    PROVE  KeyInv'
<1>1. Forwarded' = Forwarded /\ typed' = typed
  BY DEF Forwarded, keys
<1>2. PICK b \in Nat : Taken(b)
  BY DEF KeyInv
<1>3. Taken(b)'
  BY <1>1, <1>2 DEF Taken, keys
<1>4. Ending'
  BY <1>1 DEF KeyInv, Ending
<1> QED
  BY <1>1, <1>3, <1>4 DEF KeyInv

\* The polls of the thread, and the host's programs.
LEMMA PollKeys ==
    ASSUME IInv, KeyInv,
           Drained \/ TabsNotDue \/ FetchTabs \/ TabsFail \/ FetchOutput \/ OutputDone
    PROVE  KeyInv'
<1>1. UNCHANGED <<cmds, keys, stdin, attach, told>> /\ at' \in {at, "tabs", "output", "commands"}
  BY DEF Drained, TabsNotDue, FetchTabs, TabsFail, FetchOutput, OutputDone, Polls, local, terminal
<1>2. UNCHANGED events \/ \E e \in Event : Tell(e)
  <2>1. CASE FetchTabs
    <3>1. PICK fresh : fresh = [i \in DOMAIN host |-> host[i].id] /\ Tell(Listing(fresh))
      BY <2>1 DEF FetchTabs
    <3>2. fresh \in Seq(Tab)
      <4>1. DOMAIN host = 1..Len(host) /\ Len(host) \in Nat /\ \A i \in 1..Len(host) : host[i] \in Row
        BY Elements DEF IInv, Typed
      <4>2. \A i \in 1..Len(host) : host[i].id \in Tab
        BY <4>1 DEF Row
      <4> QED
        BY <3>1, <4>1, <4>2
    <3> QED
      BY <3>1, <3>2, OtherEvents
  <2>2. CASE TabsFail
    BY <2>2, OtherEvents DEF TabsFail, IInv, Typed
  <2>3. CASE FetchOutput
    <3>1. CASE UNCHANGED events
      BY <3>1
    <3>2. CASE ~UNCHANGED events
      <4>1. PICK t, start, known, out :
              /\ t = tabs[next] /\ known = poll[t] /\ out = host[next].out /\ next \in DOMAIN host
              /\ start = StartOf(known, out)
              /\ Tell(Output(t, SubSeq(out, start + 1, Len(out)), Replaced(start, known), out))
        BY <2>3, <3>2 DEF FetchOutput
      <4>2. next \in 1..Len(tabs) /\ tabs \in Seq(Tab)
        BY <2>3 DEF FetchOutput, IInv, Typed
      <4>3. t \in Tab
        BY <4>1, <4>2, Elements
      <4>4. out \in Seq(Byte) /\ known \in Seq(Byte)
        <5>1. host[next] \in Row
          BY <4>1, Elements DEF IInv, Typed
        <5> QED
          BY <4>1, <4>3, <5>1 DEF IInv, Typed, Row
      <4>5. start \in Nat /\ start <= Len(out)
        <5>1. start \in {0, Len(known)} /\ (start = 0 \/ IsPrefix(known, out))
          BY <4>1 DEF StartOf
        <5>2. Len(known) \in Nat /\ Len(out) \in Nat
          BY <4>4, LenProperties
        <5>3. IsPrefix(known, out) => Len(known) <= Len(out)
          BY DEF IsPrefix
        <5> QED
          BY <5>1, <5>2, <5>3
      <4>6. SubSeq(out, start + 1, Len(out)) \in Seq(Byte)
        <5>1. Len(out) \in Nat /\ \A i \in 1..Len(out) : out[i] \in Byte
          BY <4>4, Elements
        <5>2. \A i \in start + 1..Len(out) : out[i] \in Byte
          BY <4>5, <5>1
        <5> QED
          BY <4>4, <4>5, <5>1, <5>2, SubSeqProperties
      <4>7. Replaced(start, known) \in BOOLEAN
        BY DEF Replaced
      <4> QED
        BY <4>1, <4>3, <4>4, <4>6, <4>7 DEF Output, Event
    <3> QED
      BY <3>1, <3>2
  <2>4. CASE Drained \/ TabsNotDue \/ OutputDone
    BY <2>4 DEF Drained, TabsNotDue, OutputDone
  <2> QED
    BY <2>1, <2>2, <2>3, <2>4
<1>3. Heard'
  BY <1>1, <1>2, HeardOn DEF IInv, KeyInv, keys
<1> QED
  BY <1>1, <1>3, KeysUntouched

\* The host serves what was given up, or does something else.
LEMMA HostKeys == ASSUME IInv, KeyInv, HostStep PROVE KeyInv'
<1>1. CASE \E i \in DOMAIN host : \/ \E x \in Byte : Prints(i, x) \/ Redraw(i, <<x>>)
                                  \/ Redraw(i, <<>>) \/ CloseTab(i)
  <2>1. UNCHANGED <<cmds, keys, stdin, attach, told, at, events>>
    BY <1>1 DEF Prints, Redraw, CloseTab, Changed, client, local, terminal
  <2>2. Heard'
    BY <2>1, HeardOn DEF IInv, KeyInv, keys
  <2> QED
    BY <2>1, <2>2, KeysUntouched
<1>2. ASSUME NEW q \in late, ServeLate(q) PROVE KeyInv'
  <2>1. /\ late' = late \ {q}
        /\ UNCHANGED <<cmds, typed, failed, stdin, attach, told, at, events>>
    BY <1>2 DEF ServeLate, client, local, terminal
  <2>2. PICK b \in Nat : Taken(b)
    BY DEF KeyInv
  <2>3. reached' = reached \/ \E t \in Tab : reached' = Append(reached, [key |-> q.key, tab |-> t])
    <3>1. CASE q.at \in DOMAIN host
      <4>1. reached' = Append(reached, [key |-> q.key, tab |-> host[q.at].id])
        BY <1>2, <3>1 DEF ServeLate, Reach
      <4>2. host[q.at] \in Row
        BY <3>1, Elements DEF IInv, Typed
      <4> QED
        BY <4>1, <4>2 DEF Row
    <3>2. CASE q.at \notin DOMAIN host
      BY <1>2, <3>2 DEF ServeLate
    <3> QED
      BY <3>1, <3>2
  <2>4. Served(reached', failed', late', b)
    BY <2>1, <2>2, <2>3, KeyServedLate DEF Taken
  <2>5. Forwarded' = Forwarded
    BY <2>1 DEF Forwarded
  <2>6. Taken(b)'
    BY <2>1, <2>2, <2>4, <2>5 DEF Taken
  <2>7. Heard'
    BY <2>1, HeardOn DEF IInv, KeyInv
  <2> QED
    BY <2>1, <2>6, <2>7 DEF KeyInv, Ending
<1> QED
  BY <1>1, <1>2 DEF HostStep

\* Where a command is run, keys come from a keyboard that attach has begun
\* to read.
LEMMA DeliverAfterConnect ==
    ASSUME KeyInv, Deliver
    PROVE  \E b \in Nat : /\ Taken(b) /\ Head(cmds) = b + 1 /\ b + 1 <= Forwarded
                          /\ attach # "connecting"
<1>1. PICK b \in Nat : Taken(b)
  BY DEF KeyInv
<1>2. Head(cmds) = b + 1 /\ b + 1 <= Forwarded
  BY <1>1, KeyTaken DEF Taken, Deliver
<1>3. attach # "connecting"
  <2> SUFFICES ASSUME attach = "connecting" PROVE FALSE
    OBVIOUS
  <2>1. stdin = "none" /\ typed = 0
    BY DEF KeyInv, Ending
  <2>2. Forwarded = 0
    BY <2>1 DEF Forwarded
  <2> QED
    BY <1>2, <2>2
<1> QED
  BY <1>1, <1>2, <1>3

\* A command is run, for the tab that has the position by now.
LEMMA DeliverKeys == ASSUME IInv, KeyInv, Deliver PROVE KeyInv'
<1>1. PICK b \in Nat : Taken(b) /\ Head(cmds) = b + 1 /\ b + 1 <= Forwarded
  BY DeliverAfterConnect
<1>2. /\ cmds # <<>> /\ Head(cmds) # Shutdown /\ cmds' = Tail(cmds) /\ at = "commands"
      /\ UNCHANGED <<at, typed, attach, stdin, told>>
  BY DEF Deliver, local, terminal
<1>3. Forwarded' = Forwarded /\ b + 1 \in Nat
  BY <1>2 DEF Forwarded
<1>4. Queued(cmds', b + 1, Forwarded') /\ (Len(cmds') # Forwarded' - (b + 1) => attach' = "gone")
  BY <1>1, <1>2, <1>3, KeyTaken DEF Taken
<1>5. CASE \E i \in DOMAIN host : Reach(b + 1, i) /\ UNCHANGED <<failed, late, events>>
  <2>1. PICK i \in DOMAIN host : reached' = Append(reached, [key |-> b + 1, tab |-> host[i].id])
    BY <1>5 DEF Reach
  <2>2. host[i].id \in Tab
    <3>1. host[i] \in Row
      BY Elements DEF IInv, Typed
    <3> QED
      BY <3>1 DEF Row
  <2>3. Served(reached', failed', late', b + 1)
    BY <1>1, <1>5, <2>1, <2>2, KeyServed DEF Taken
  <2>4. Heard'
    BY <1>2, <1>5, HeardOn DEF IInv, KeyInv
  <2>5. Taken(b + 1)'
    BY <1>4, <2>3 DEF Taken
  <2> QED
    BY <1>2, <1>3, <2>4, <2>5 DEF KeyInv, Ending
<1>6. CASE /\ Refused(b + 1) /\ UNCHANGED reached
           /\ late' = late \/ \E i \in Nat : late' = late \cup {[key |-> b + 1, at |-> i]}
  <2>1. failed' = failed \cup {b + 1} /\ Tell(Error(b + 1)) /\ Error(b + 1) \in Event
    BY <1>3, <1>6, OtherEvents DEF Refused
  <2>2. Served(reached', failed', late', b + 1)
    BY <1>1, <1>6, <2>1, KeyFails DEF Taken
  <2>3. Heard'
    <3> SUFFICES ASSUME attach = "watching", NEW k \in failed' \ told
                 PROVE  \E i \in DOMAIN events' : events'[i] = Error(k)
      BY <1>2 DEF Heard
    <3>1. /\ events' = Append(events, Error(b + 1)) /\ DOMAIN events = 1..Len(events) /\ Len(events) \in Nat
          /\ DOMAIN events' = 1..Len(events) + 1 /\ events'[Len(events) + 1] = Error(b + 1)
          /\ \A i \in 1..Len(events) : events'[i] = events[i]
      <4>1. events' = Append(events, Error(b + 1)) /\ events \in Seq(Event)
        BY <2>1 DEF Tell, IInv, Typed
      <4> QED
        BY <2>1, <4>1, Appended
    <3>2. CASE k = b + 1
      BY <3>1, <3>2
    <3>3. CASE k \in failed
      <4>1. PICK i \in DOMAIN events : events[i] = Error(k)
        BY <3>3 DEF KeyInv, Heard
      <4> QED
        BY <3>1, <4>1
    <3> QED
      BY <2>1, <3>2, <3>3
  <2>4. Taken(b + 1)'
    BY <1>4, <2>2 DEF Taken
  <2> QED
    BY <1>2, <1>3, <2>3, <2>4 DEF KeyInv, Ending
<1>7. Resolve(Target) \subseteq Nat
  BY DEF Resolve, IInv, Typed
<1>8. \/ \E i \in DOMAIN host : Reach(b + 1, i) /\ UNCHANGED <<failed, late, events>>
      \/ /\ Refused(b + 1) /\ UNCHANGED reached
         /\ late' = late \/ \E i \in Nat : late' = late \cup {[key |-> b + 1, at |-> i]}
  BY <1>1, <1>7 DEF Deliver
<1> QED
  BY <1>5, <1>6, <1>8

\* The mirror is not touched by that, but for a list or an error on the way.
LEMMA DeliverKeepsIt == ASSUME IInv, KeyInv, Deliver PROVE IInv'
<1>1. /\ UNCHANGED <<host, tabs, poll, next, screen, attach>> /\ attach # "connecting"
      /\ \E b \in Nat : Head(cmds) = b + 1
  BY DeliverAfterConnect DEF Deliver, hostvars, local, terminal
<1>2. Head(cmds) \in Nat
  BY <1>1
<1>3. UNCHANGED events \/ Tell(Error(Head(cmds)))
  BY DEF Deliver, Refused
<1>4. host \in Seq(Row) /\ tabs \in Seq(Tab) /\ next \in Nat \ {0} /\ poll \in [Tab -> Seq(Byte)]
  BY DEF IInv, Typed
<1>5. CASE UNCHANGED events
  BY <1>1, <1>4, <1>5, Untouched
<1>6. CASE Tell(Error(Head(cmds)))
  BY <1>1, <1>2, <1>4, <1>6, OtherEvents, PassingKeepsIt
<1> QED
  BY <1>3, <1>5, <1>6

\* The thread ends with every key taken.
LEMMA EndKeys == ASSUME IInv, KeyInv, End PROVE KeyInv'
<1>1. /\ Head(cmds) = Shutdown /\ cmds # <<>> /\ cmds' = Tail(cmds) /\ at' = "ended"
      /\ UNCHANGED <<keys, attach, stdin, told, events>>
  BY DEF End, local, terminal
<1>2. PICK b \in Nat : Taken(b)
  BY DEF KeyInv
<1>3. Forwarded' = Forwarded /\ typed' = typed
  BY <1>1 DEF Forwarded, keys
<1>4. b = Forwarded /\ Len(cmds) = 1 /\ cmds' = <<>> /\ Queued(cmds', Forwarded, Forwarded)
  BY <1>1, <1>2, ShutdownHeard DEF Taken
<1>5. attach = "gone"
  BY <1>2, <1>4 DEF Taken
<1>6. Taken(b)'
  BY <1>1, <1>2, <1>3, <1>4, <1>5 DEF Taken, keys
<1>7. Ending'
  BY <1>1, <1>3, <1>4, <1>5 DEF KeyInv, Ending
<1>8. Heard'
  BY <1>1, <1>5 DEF Heard
<1> QED
  BY <1>1, <1>3, <1>6, <1>7, <1>8 DEF KeyInv

\* The client is dropped with the keyboard's thread not begun, or joined.
LEMMA GoneKeys ==
    ASSUME KeyInv, Gone, attach \in {"connecting", "leaving"}, stdin \in {"none", "done"},
           UNCHANGED <<stdin, at, keys>>
    PROVE  KeyInv'
<1>1. attach' = "gone" /\ cmds' = Append(cmds, Shutdown)
  BY DEF Gone
<1>2. PICK b \in Nat : Taken(b)
  BY DEF KeyInv
<1>3. Forwarded' = Forwarded /\ typed' = typed
  BY DEF Forwarded, keys
<1>4. Queued(cmds', b, Forwarded)
  BY <1>1, <1>2, ShutdownForwarded DEF Taken
<1>5. Taken(b)'
  BY <1>1, <1>2, <1>3, <1>4 DEF Taken, keys
<1>6. Ending' /\ Heard'
  BY <1>1, <1>3 DEF KeyInv, Ending, Heard
<1> QED
  BY <1>3, <1>5, <1>6 DEF KeyInv

LEMMA AttachKeys == ASSUME IInv, KeyInv, AttachStep PROVE KeyInv'
<1>1. UNCHANGED <<at, keys>> /\ typed' = typed /\ failed' = failed
  BY DEF AttachStep, Connect, GiveUp, Watch, Leave, Join, Here, client, keys
<1>2. PICK b \in Nat : Taken(b)
  BY DEF KeyInv
<1>3. CASE Connect
  <2>1. CASE Gone /\ UNCHANGED stdin
    BY <1>1, <1>3, <2>1, GoneKeys DEF Connect, KeyInv, Ending
  <2>2. CASE attach' = "watching" /\ stdin' = "check" /\ UNCHANGED cmds
    <3>1. stdin = "none" /\ attach = "connecting" /\ typed = 0
      BY <1>3 DEF Connect, KeyInv, Ending
    <3>2. Forwarded' = Forwarded /\ Forwarded = 0
      BY <1>1, <2>2, <3>1 DEF Forwarded
    <3>3. Taken(b)'
      BY <1>1, <1>2, <2>2, <3>1, <3>2 DEF Taken, keys
    <3>4. b = 0 /\ failed = {}
      <4>1. b <= 0 /\ failed \subseteq 1..b
        BY <1>2, <3>2 DEF Taken, Queued, Served
      <4> QED
        BY <4>1
    <3>5. Ending' /\ Heard'
      BY <1>1, <2>2, <3>1, <3>4 DEF KeyInv, Ending, Heard
    <3> QED
      BY <1>1, <2>2, <3>3, <3>5 DEF KeyInv
  <2> QED
    BY <1>3, <2>1, <2>2 DEF Connect
<1>4. CASE GiveUp \/ Join
  BY <1>1, <1>4, GoneKeys DEF GiveUp, Join, KeyInv, Ending
<1>5. CASE Watch \/ Leave
  <2>1. /\ UNCHANGED <<cmds, stdin>> /\ attach = "watching"
        /\ attach' \in {"watching", "leaving"}
    BY <1>5 DEF Watch, Leave
  <2>2. Forwarded' = Forwarded
    BY <1>1, <2>1 DEF Forwarded
  <2>3. Taken(b)'
    BY <1>1, <1>2, <2>1, <2>2 DEF Taken, keys
  <2>4. Ending'
    BY <1>1, <2>1 DEF KeyInv, Ending
  <2>5. Heard'
    <3> SUFFICES ASSUME attach' = "watching", NEW k \in failed \ told'
                 PROVE  \E i \in DOMAIN events' : events'[i] = Error(k)
      BY <1>1 DEF Heard
    <3>1. /\ events # <<>> /\ events' = Tail(events)
          /\ told' = IF Head(events).kind = "error" THEN told \cup {Head(events).key} ELSE told
      BY <1>5 DEF Watch, Leave
    <3>2. /\ DOMAIN events = 1..Len(events) /\ DOMAIN events' = 1..Len(events) - 1 /\ Len(events) \in Nat
          /\ \A i \in 1..Len(events) - 1 : events'[i] = events[i + 1]
          /\ Head(events) = events[1]
      BY <3>1, Beheaded DEF IInv, Typed
    <3>3. k \in failed \ told
      BY <3>1
    <3>4. PICK i \in DOMAIN events : events[i] = Error(k)
      BY <2>1, <3>3 DEF KeyInv, Heard
    <3>5. i # 1
      <4> SUFFICES ASSUME i = 1 PROVE FALSE
        OBVIOUS
      <4>1. Head(events) = Error(k)
        BY <3>2, <3>4
      <4>2. Head(events).kind = "error" /\ Head(events).key = k
        BY <4>1 DEF Error
      <4> QED
        BY <3>1, <4>2
    <3>6. i - 1 \in DOMAIN events' /\ events'[i - 1] = events[i]
      BY <3>2, <3>4, <3>5
    <3> QED
      BY <3>4, <3>6
  <2> QED
    BY <1>1, <2>1, <2>3, <2>4, <2>5 DEF KeyInv
<1> QED
  BY <1>3, <1>4, <1>5 DEF AttachStep

\* A key is typed and forwarded at once, or typed as the last and forwarded
\* later.
LEMMA KeyboardKeys == ASSUME IInv, KeyInv, Keyboard \/ User PROVE KeyInv'
<1>1. UNCHANGED <<at, attach, reached, failed, late, told, events>>
  BY DEF Keyboard, User, Check, SendLast, Type, EndOfInput, Detach, Here, client, keys, terminal
<1>2. PICK b \in Nat : Taken(b)
  BY DEF KeyInv
<1>3. Heard'
  BY <1>1, HeardOn DEF IInv, KeyInv
<1>4. stdin \in {"read", "last"} => attach # "gone" /\ attach # "connecting" /\ at # "ended"
  BY DEF KeyInv, Ending
<1>5. CASE Type \/ SendLast
  <2>1. /\ cmds' = Append(cmds, Forwarded + 1) /\ Forwarded' = Forwarded + 1
        /\ stdin \in {"read", "last"} /\ stdin' \in {"check", "done"} /\ typed' \in Nat
    BY <1>5 DEF Type, SendLast, Forwarded, KeyInv, Here, keys
  <2>2. Queued(cmds', b, Forwarded') /\ Len(cmds') = Forwarded' - b
    <3>1. Queued(cmds, b, Forwarded) /\ Len(cmds) = Forwarded - b
      BY <1>2, <1>4, <2>1 DEF Taken
    <3>2. PICK n, d, m : n = Forwarded /\ d = cmds' /\ m = Forwarded'
      OBVIOUS
    <3>3. Queued(cmds, b, n) /\ Len(cmds) = n - b
      BY <3>1, <3>2
    <3>4. d = Append(cmds, n + 1) /\ m = n + 1
      BY <2>1, <3>2
    <3>5. Queued(d, b, m)
      BY <3>3, <3>4, KeyForwarded
    <3>6. Len(d) = m - b
      BY <3>3, <3>4, KeyForwarded
    <3> QED
      BY <3>2, <3>5, <3>6
  <2>3. Taken(b)'
    BY <1>1, <1>2, <2>2 DEF Taken
  <2>4. Ending'
    BY <1>1, <1>4, <2>1 DEF Ending
  <2> QED
    BY <1>3, <2>1, <2>3, <2>4 DEF KeyInv
<1>6. CASE Detach \/ EndOfInput \/ Check
  <2>1. /\ UNCHANGED cmds /\ Forwarded' = Forwarded /\ typed' \in Nat
        /\ stdin' = "last" => typed' > 0 /\ stdin = "read"
        /\ stdin = "check" \/ stdin = "read"
        /\ stdin' \in {"done", "read", "last"}
    BY <1>6 DEF Detach, EndOfInput, Check, Forwarded, KeyInv, Here, keys
  <2>2. Taken(b)'
    BY <1>1, <1>2, <2>1 DEF Taken
  <2>3. Ending'
    BY <1>1, <2>1 DEF KeyInv, Ending
  <2> QED
    BY <1>3, <2>1, <2>2, <2>3 DEF KeyInv
<1> QED
  BY <1>5, <1>6 DEF Keyboard, User

LEMMA NextKeys == IInv /\ KeyInv /\ [Next]_vars => KeyInv'
<1> SUFFICES ASSUME IInv, KeyInv, [Next]_vars PROVE KeyInv'
  OBVIOUS
<1>1. CASE HostStep
  BY <1>1, HostKeys
<1>2. CASE ClientStep
  BY <1>2, PollKeys, DeliverKeys, EndKeys DEF ClientStep
<1>3. CASE AttachStep
  BY <1>3, AttachKeys
<1>4. CASE Keyboard \/ User
  BY <1>4, KeyboardKeys
<1>5. CASE UNCHANGED vars
  <2>1. UNCHANGED <<cmds, keys, stdin, at, attach, told, events>>
    BY <1>5 DEF vars, local, client, terminal
  <2>2. Heard'
    BY <2>1, HeardOn DEF IInv, KeyInv, keys
  <2> QED
    BY <2>1, <2>2, KeysUntouched
<1> QED
  BY <1>1, <1>2, <1>3, <1>4, <1>5 DEF Next

LEMMA NextHolds == IInv /\ KeyInv /\ [Next]_vars => IInv'
<1> SUFFICES ASSUME IInv, KeyInv, [Next]_vars PROVE IInv'
  OBVIOUS
<1>1. CASE HostStep
  BY <1>1, HostKeepsIt
<1>2. CASE ClientStep
  BY <1>2, DeliverKeepsIt, ThreadKeepsIt, FetchTabsKeepsIt, TabsFailKeepsIt, FetchOutputKeepsIt DEF ClientStep
<1>3. CASE AttachStep
  BY <1>3, ConnectKeepsIt, WatchKeepsIt, LeaveKeepsIt DEF AttachStep
<1>4. CASE Keyboard \/ User
  BY <1>4, KeyboardKeepsIt
<1>5. CASE UNCHANGED vars
  <2>1. UNCHANGED <<host, tabs, poll, next, events, screen, attach>>
    BY <1>5 DEF vars, hostvars, client, local, terminal
  <2>2. host' \in Seq(Row)
    BY <2>1 DEF IInv, Typed
  <2>3. QED
    BY <2>1, <2>2, Untouched
<1>6. QED
  BY <1>1, <1>2, <1>3, <1>4, <1>5 DEF Next

\* What attach has drawn becomes, with the events under way, what the
\* thread tells the host that it has (remote.rs, run; output.rs, run;
\* attach.rs, run_loop).
THEOREM MirrorExact == Spec => []MirrorIsExact
<1>1. IInv => MirrorIsExact
  BY DEF IInv
<1>2. QED
  BY <1>1, InitHolds, NextHolds, InitKeys, NextKeys, PTL DEF Spec

LEMMA KeysAccountedFor == KeyInv => KeysAreAccounted
<1> SUFFICES ASSUME KeyInv PROVE KeysAreAccounted
  OBVIOUS
<1>1. PICK b \in Nat : Taken(b)
  BY DEF KeyInv
<1>2. Queued(cmds, b, Forwarded) /\ Served(reached, failed, late, b)
  BY <1>1 DEF Taken
<1>3. ASSUME NEW k \in 1..typed
      PROVE  \/ \E i \in DOMAIN reached : reached[i].key = k
             \/ k \in failed
             \/ at # "ended" /\ (Contains(cmds, k) \/ (stdin = "last" /\ k = typed))
  <2>1. CASE k \in 1..b
    BY <1>2, <2>1 DEF Served
  <2>2. CASE k \in b + 1..Forwarded
    <3>1. PICK l \in Nat : l = Forwarded - b
      BY <1>2 DEF Queued
    <3>2. Forwarded \in Nat /\ cmds \in Seq(Nat) /\ Len(cmds) \in {l, l + 1} /\ \A i \in 1..l : cmds[i] = b + i
      BY <1>2, <3>1 DEF Queued
    <3>3. k - b \in 1..l
      BY <2>2, <3>1, <3>2
    <3>4. k - b \in 1..Len(cmds) /\ cmds[k - b] = k
      BY <3>2, <3>3
    <3>5. DOMAIN cmds = 1..Len(cmds)
      BY <3>2, Elements
    <3>6. Contains(cmds, k)
      BY <3>4 DEF Contains
    <3>7. cmds # <<>>
      BY <3>4, <3>5
    <3>8. at # "ended"
      BY <3>7 DEF KeyInv, Ending
    <3> QED
      BY <3>6, <3>8
  <2>3. CASE k \notin 1..Forwarded
    <3>1. stdin = "last" /\ k = typed
      BY <2>3 DEF Forwarded, KeyInv
    <3>2. at # "ended"
      BY <3>1 DEF KeyInv, Ending
    <3> QED
      BY <3>1, <3>2
  <2>4. k \in 1..b \/ k \in b + 1..Forwarded \/ k \notin 1..Forwarded
    BY <1>2 DEF Queued
  <2> QED
    BY <2>1, <2>2, <2>3, <2>4
<1>4. \A i, j \in DOMAIN reached : i < j => /\ reached[i].key # reached[j].key
                                            /\ reached[i].key < reached[j].key \/ reached[j].key \in failed
  BY <1>2 DEF Served
<1>5. attach = "watching" => \A k \in failed \ told : \E i \in DOMAIN events : events[i] = Error(k)
  BY DEF KeyInv, Heard
<1> QED
  BY <1>3, <1>4, <1>5 DEF KeysAreAccounted

\* For any number of keys, failures and closed tabs: no key is doubled, only
\* one whose request failed comes after a later one, each is asked for before
\* the thread ends, and attach tells of what failed while it watches
\* (run_command of remote.rs; run_loop, spawn_stdin_forwarder of attach.rs).
THEOREM KeysKept == Spec => []KeysAreAccounted
BY InitHolds, NextHolds, InitKeys, NextKeys, KeysAccountedFor, PTL DEF Spec
=============================================================================

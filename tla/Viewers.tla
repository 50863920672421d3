-------------------------------- MODULE Viewers --------------------------------
(***************************************************************************)
(* Web viewers of one tab: the pump that src/src/api_ws.rs runs for every  *)
(* connection, and the page (src/assets/main.js) at its other end.         *)
(*                                                                         *)
(* The terminal writes into a PtyRing.  A pump sends what the ring has     *)
(* beyond its offset; frames are encoded outside the ring's lock, and the  *)
(* last one is cached for the pumps of the other viewers.  The page counts *)
(* the bytes it gets, and asks for the rest when it connects again.        *)
(*                                                                         *)
(* A byte is its number in all the tab ever wrote.  Some bytes make a       *)
(* character or a sequence together, which the end of a frame may cut.     *)
(***************************************************************************)
EXTENDS PtyRing, SequencesExt, FiniteSets

CONSTANTS
    Viewer,
    Scenario,       \* bound: what may happen, of which a behaviour has one: [viewers,
                    \* selecting, flaky: sets of viewers that connect, that select text,
                    \* whose connections may be lost; bursts: sizes of a write of the
                    \* terminal; drops, boots, locks: how many connections are lost,
                    \* restarts and lock changes there are]
    PreviewMin,     \* OFFLOAD_MIN_BYTES: history that gets a preview
    Joined,         \* bytes that are of one character or sequence with the next
    Modes,          \* bytes of sequences that stripUIModes takes out
    MaxBytes,       \* bound: bytes written
    MaxWire         \* bound: frames on their way to a page

ASSUME ViewerAssumption == PreviewMin \in Nat
ASSUME TextAssumption ==
    Joined \subseteq Nat /\ Modes \subseteq Nat /\ \A n \in Joined : n \in Modes <=> n + 1 \in Modes
ASSUME BoundAssumption ==
    /\ Scenario \subseteq [viewers : SUBSET Viewer, selecting : SUBSET Viewer, flaky : SUBSET Viewer,
                            bursts : SUBSET (1..MaxBytes), drops : Nat, boots : Nat, locks : Nat]
    /\ MaxBytes \in Nat /\ MaxWire \in Nat

VARIABLES
    ring,       \* the tab's PtyRing
    written,    \* history: bytes written so far, by all daemons
    lock,       \* the tab's lock: as asked last (queued: not drained yet), as the owner
                \* loop has it (drained: not refreshed yet), as the snapshot has it
    pump,       \* per viewer, the daemon's end of its connection
    wire,       \* frames on their way to it
    page,       \* per viewer, the page
    exact,      \* history: pages whose count is the ring's: no frame was queued when
                \* it connected, and no daemon restarted since it showed something
    whole,      \* history: pages that were sent no gap
    left        \* what is left of the scenario

tab == <<ring, written>>
history == <<exact, whole>>
vars == <<tab, lock, pump, wire, page, history, left>>

Out(from, to, bytes) == [from |-> from, to |-> to, bytes |-> bytes]
OutFrame(f) == [tag |-> "out", frame |-> f]
Meta(locked) == [tag |-> "meta", locked |-> locked]
Preview == [tag |-> "preview"]

\* phase: off; "hello" until the loop is entered; "loop"; "encode" while the
\* frame `job` is encoded; "meta" between reading the generation and the
\* tab.  news: the generation has moved since it was read last.
NoPump == [phase |-> "off", offset |-> 0, job |-> NoFrame, news |-> FALSE, sent |-> FALSE]

\* offset: ringOffset.  chain: frames waiting in outChain.  shown: for each
\* byte what the terminal got; preview: it shows a preview, which the next
\* frame wipes.  held: pendingBytesWhileSelecting.  cuts: history, the offsets
\* at which frames ended.
NewPage == [open |-> FALSE, offset |-> 0, chain |-> <<>>, shown |-> <<>>, preview |-> FALSE,
            selecting |-> FALSE, held |-> <<>>, locked |-> FALSE, cuts |-> {0}]

Init ==
    /\ ring = NewRing /\ written = 0
    /\ lock = [asked |-> FALSE, tab |-> FALSE, snap |-> FALSE, queued |-> FALSE, drained |-> FALSE]
    /\ pump = [v \in Viewer |-> NoPump]
    /\ wire = [v \in Viewer |-> <<>>]
    /\ page = [v \in Viewer |-> NewPage]
    /\ exact = Viewer /\ whole = Viewer
    /\ left \in Scenario

----------------------------------------------------------------------------
(* The tab.                                                                *)

\* ViewerGuard: counted from the loop on.
Watching == {v \in Viewer : pump[v].phase \in {"loop", "encode", "meta"}}

\* PtyTap: what the terminal prints goes to the ring.
Output(n) ==
    /\ n \in left.bursts /\ written + n <= MaxBytes
    /\ ring' = Push(ring, [i \in 1..n |-> written + i], Cardinality(Watching))
    /\ written' = written + n
    /\ UNCHANGED <<lock, pump, wire, page, history, left>>

\* POST lock: into the snapshot, and into the queue of the owner loop.
Lock(on) ==
    /\ left.locks > 0 /\ left' = [left EXCEPT !.locks = @ - 1]
    /\ lock' = [lock EXCEPT !.asked = on, !.snap = on, !.queued = TRUE]
    /\ UNCHANGED <<tab, pump, wire, page, history>>

\* Variants ending in _x and _y are bugs this code could have; nothing uses them.

\* No refresh is due, as there is no new output.
DrainLock_x ==
    /\ lock.queued
    /\ lock' = [lock EXCEPT !.tab = lock.asked, !.queued = FALSE]
    /\ UNCHANGED <<tab, pump, wire, page, history, left>>

\* drain_pending; a change makes a refresh due.
DrainLock ==
    /\ lock.queued
    /\ lock' = [lock EXCEPT !.tab = lock.asked, !.queued = FALSE, !.drained = TRUE]
    /\ UNCHANGED <<tab, pump, wire, page, history, left>>

\* A refresh puts up the loop's tabs and moves the generation.  One that
\* has nothing to tell of the lock is left out.
Refresh ==
    /\ lock.drained \/ lock.snap # lock.tab
    /\ lock' = [lock EXCEPT !.snap = lock.tab, !.drained = FALSE]
    /\ pump' = [v \in Viewer |-> IF pump[v].phase = "off" THEN pump[v] ELSE [pump[v] EXCEPT !.news = TRUE]]
    /\ UNCHANGED <<tab, wire, page, history, left>>

----------------------------------------------------------------------------
(* The pump.                                                               *)

\* handle_upgrade, with ?since=, and the first meta frame, for which the
\* generation was read before the tab was.
Connect(v) ==
    /\ ~page[v].open /\ v \in left.viewers
    /\ pump' = [pump EXCEPT ![v] = [NoPump EXCEPT !.phase = "hello", !.offset = page[v].offset,
                                    !.sent = lock.snap]]
    /\ wire' = [wire EXCEPT ![v] = <<Meta(lock.snap)>>]
    /\ page' = [page EXCEPT ![v].open = TRUE]
    /\ exact' = IF page[v].chain = <<>> THEN exact ELSE exact \ {v}
    /\ UNCHANGED <<tab, lock, whole, left>>

Room(v) == Len(wire[v]) < MaxWire

\* A long history is announced by a picture of its last rows.
Enter(v) ==
    /\ pump[v].phase = "hello" /\ Room(v)
    /\ pump' = [pump EXCEPT ![v].phase = "loop"]
    /\ wire' = [wire EXCEPT ![v] = IF pump[v].offset = 0 /\ Len(Since(ring, 0)) >= PreviewMin
                                   THEN Append(@, Preview) ELSE @]
    /\ UNCHANGED <<tab, lock, page, history, left>>

Behind(v) == pump[v].phase = "loop" /\ pump[v].offset # Total(ring)

\* The gap, if bytes have aged out, is sent as nothing: the page cannot tell.
Flushed(v) == whole' = IF pump[v].offset >= ring.base THEN whole ELSE whole \ {v}

\* Another pump has encoded this range.
Share(v) ==
    /\ Behind(v) /\ Room(v) /\ HasFrame(ring, pump[v].offset, Total(ring))
    /\ pump' = [pump EXCEPT ![v].offset = Total(ring)]
    /\ wire' = [wire EXCEPT ![v] = Append(@, OutFrame(ring.cache))]
    /\ Flushed(v)
    /\ UNCHANGED <<tab, lock, page, exact, left>>

\* The lock is released while the bytes are encoded.
Take(v) ==
    /\ Behind(v) /\ ~HasFrame(ring, pump[v].offset, Total(ring))
    /\ LET bytes == Since(ring, pump[v].offset)
           job   == Out(pump[v].offset, Total(ring), bytes)
       IN  pump' = [pump EXCEPT ![v].offset = Total(ring),
                                ![v].job = IF bytes = <<>> THEN NoFrame ELSE job,
                                ![v].phase = IF bytes = <<>> THEN "loop" ELSE "encode"]
    /\ Flushed(v)
    /\ UNCHANGED <<tab, lock, wire, page, exact, left>>

\* What is stored goes by the ring's length now, not when it was read.
Encode_x(v) ==
    /\ pump[v].phase = "encode" /\ Room(v)
    /\ ring' = StoreFrame(ring, [pump[v].job EXCEPT !.to = Total(ring)])
    /\ wire' = [wire EXCEPT ![v] = Append(@, OutFrame(pump[v].job))]
    /\ pump' = [pump EXCEPT ![v].phase = "loop", ![v].job = NoFrame]
    /\ UNCHANGED <<written, lock, page, history, left>>

\* What was printed meanwhile is skipped.
Encode_y(v) ==
    /\ pump[v].phase = "encode" /\ Room(v)
    /\ ring' = StoreFrame(ring, pump[v].job)
    /\ wire' = [wire EXCEPT ![v] = Append(@, OutFrame(pump[v].job))]
    /\ pump' = [pump EXCEPT ![v].phase = "loop", ![v].job = NoFrame, ![v].offset = Total(ring)]
    /\ UNCHANGED <<written, lock, page, history, left>>

\* The frame is cached, and sent.
Encode(v) ==
    /\ pump[v].phase = "encode" /\ Room(v)
    /\ ring' = StoreFrame(ring, pump[v].job)
    /\ wire' = [wire EXCEPT ![v] = Append(@, OutFrame(pump[v].job))]
    /\ pump' = [pump EXCEPT ![v].phase = "loop", ![v].job = NoFrame]
    /\ UNCHANGED <<written, lock, page, history, left>>

\* The meta tick: the generation is read, without a lock ...
MetaTick(v) ==
    /\ pump[v].phase = "loop" /\ pump[v].news
    /\ pump' = [pump EXCEPT ![v].phase = "meta", ![v].news = FALSE]
    /\ UNCHANGED <<tab, lock, wire, page, history, left>>

\* ... then the tab, and a frame goes out if it looks different.
MetaSend(v) ==
    /\ pump[v].phase = "meta" /\ Room(v)
    /\ pump' = [pump EXCEPT ![v].phase = "loop", ![v].sent = lock.snap]
    /\ wire' = [wire EXCEPT ![v] = IF pump[v].sent # lock.snap THEN Append(@, Meta(lock.snap)) ELSE @]
    /\ UNCHANGED <<tab, lock, page, history, left>>

----------------------------------------------------------------------------
(* The page.                                                               *)

\* onmessage: out frames and previews join outChain, meta is handled now.
Receive(v) ==
    /\ wire[v] # <<>>
    /\ LET m == Head(wire[v])
       IN  page' = IF m.tag = "meta" THEN [page EXCEPT ![v].locked = m.locked]
                   ELSE [page EXCEPT ![v].chain = Append(@, m)]
    /\ wire' = [wire EXCEPT ![v] = Tail(@)]
    /\ UNCHANGED <<tab, lock, pump, history, left>>

\* The bytes from m to n are of one character or sequence.
Together(m, n) == \A k \in m..(n - 1) : k \in Joined

\* What the terminal gets of a byte: a character that was cut becomes
\* replacement characters, and a mode is taken out unless it was cut.
Lost == 0
Fate(byte, cut) == IF byte \in Modes <=> cut THEN byte ELSE Lost

\* TextDecoder and stripUIModes, each frame by itself.
Decode(bytes) ==
    [i \in DOMAIN bytes |-> Fate(bytes[i], \/ Together(bytes[1] - 1, bytes[i])
                                          \/ Together(bytes[i], bytes[Len(bytes)] + 1))]

\* The preview is not wiped.
HandleOut_x(p, bytes) ==
    LET text == Decode(bytes)
        end  == p.offset + Len(bytes)
        q == [p EXCEPT !.offset = end, !.cuts = @ \cup {end}]
    IN  IF p.selecting THEN [q EXCEPT !.held = @ \o text]
        ELSE [q EXCEPT !.shown = @ \o p.held \o text, !.held = <<>>]

\* The offset waits for the selection to end.
HandleOut_y(p, bytes) ==
    LET text == Decode(bytes)
        end  == p.offset + Len(p.held \o bytes)
        q == [p EXCEPT !.preview = FALSE, !.shown = IF p.preview THEN <<>> ELSE @]
    IN  IF p.selecting THEN [q EXCEPT !.held = @ \o text]
        ELSE [q EXCEPT !.offset = end, !.cuts = @ \cup {end}, !.shown = @ \o p.held \o text, !.held = <<>>]

\* handleOut.  The offset moves on although a selection holds the text back.
HandleOut(p, bytes) ==
    LET text == Decode(bytes)
        end  == p.offset + Len(bytes)
        q == [p EXCEPT !.offset = end, !.cuts = @ \cup {end}, !.preview = FALSE,
                       !.shown = IF p.preview THEN <<>> ELSE @]
    IN  IF p.selecting THEN [q EXCEPT !.held = @ \o text]
        ELSE [q EXCEPT !.shown = @ \o p.held \o text, !.held = <<>>]

\* The next frame of outChain, inflated; the socket may be closed by now.
Handle(v) ==
    /\ page[v].chain # <<>>
    /\ LET m == Head(page[v].chain)
           p == [page[v] EXCEPT !.chain = Tail(@)]
       IN  page' = [page EXCEPT ![v] = IF m.tag = "preview" THEN [p EXCEPT !.preview = TRUE]
                                       ELSE HandleOut(p, m.frame.bytes)]
    /\ UNCHANGED <<tab, lock, pump, wire, history, left>>

Select(v) ==
    /\ v \in left.selecting /\ ~page[v].selecting
    /\ page' = [page EXCEPT ![v].selecting = TRUE]
    /\ UNCHANGED <<tab, lock, pump, wire, history, left>>

\* mouseup writes what was held back.
Deselect(v) ==
    /\ page[v].selecting
    /\ page' = [page EXCEPT ![v].selecting = FALSE, ![v].shown = @ \o page[v].held, ![v].held = <<>>]
    /\ UNCHANGED <<tab, lock, pump, wire, history, left>>

----------------------------------------------------------------------------
(* Failures.                                                               *)

\* The socket dies at both ends, with what was on it.
Lose(v) ==
    /\ v \in left.flaky /\ page[v].open
    /\ left.drops > 0 /\ left' = [left EXCEPT !.drops = @ - 1]
    /\ pump' = [pump EXCEPT ![v] = NoPump]
    /\ wire' = [wire EXCEPT ![v] = <<>>]
    /\ page' = [page EXCEPT ![v].open = FALSE]
    /\ UNCHANGED <<tab, lock, history>>

\* Another daemon, with an empty ring for the tab it restores.
Reboot ==
    /\ left.boots > 0 /\ left' = [left EXCEPT !.boots = @ - 1]
    /\ ring' = NewRing
    /\ lock' = [lock EXCEPT !.asked = lock.tab, !.snap = lock.tab, !.queued = FALSE, !.drained = FALSE]
    /\ pump' = [v \in Viewer |-> NoPump]
    /\ wire' = [v \in Viewer |-> <<>>]
    /\ page' = [v \in Viewer |-> [page[v] EXCEPT !.open = FALSE]]
    /\ exact' = {v \in exact : page[v].offset = 0 /\ page[v].chain = <<>>}
    /\ UNCHANGED <<written, whole>>

Owner == DrainLock \/ Refresh
Pump(v) == Enter(v) \/ Share(v) \/ Take(v) \/ Encode(v) \/ MetaTick(v) \/ MetaSend(v)
Page(v) == Connect(v) \/ Receive(v) \/ Handle(v) \/ Deselect(v)

Next ==
    \/ \E n \in 1..MaxBytes : Output(n)
    \/ \E on \in BOOLEAN : Lock(on)
    \/ Owner \/ Reboot
    \/ \E v \in Viewer : Pump(v) \/ Page(v) \/ Select(v) \/ Lose(v)

Spec == Init /\ [][Next]_vars

\* The owner loop and the pumps' ticks run for ever, a page reconnects until
\* it succeeds, and a selection ends.
FairSpec ==
    /\ Spec /\ WF_vars(DrainLock) /\ WF_vars(Refresh)
    /\ \A v \in Viewer :
        /\ WF_vars(Enter(v)) /\ SF_vars(Share(v) \/ Take(v)) /\ WF_vars(Encode(v))
        /\ WF_vars(MetaTick(v)) /\ WF_vars(MetaSend(v))
        /\ WF_vars(Connect(v)) /\ WF_vars(Receive(v)) /\ WF_vars(Handle(v)) /\ WF_vars(Deselect(v))

----------------------------------------------------------------------------

Frame == [from : Nat, to : Nat, bytes : Seq(Nat)]
Queued == [tag : {"out"}, frame : Frame] \cup {Preview}
Message == Queued \cup [tag : {"meta"}, locked : BOOLEAN]

Connection == [phase : {"off", "hello", "loop", "encode", "meta"}, offset : Nat,
               job : Frame \cup {NoFrame}, news : BOOLEAN, sent : BOOLEAN]
WebPage == [open : BOOLEAN, offset : Nat, chain : Seq(Queued), shown : Seq(Nat), preview : BOOLEAN,
            selecting : BOOLEAN, held : Seq(Nat), locked : BOOLEAN, cuts : SUBSET Nat]

TypeOK ==
    /\ ring \in [base : Nat, cold : Seq(Seq(Nat)), hot : Seq(Nat), cache : Frame \cup {NoFrame}]
    /\ written \in Nat
    /\ lock \in [asked : BOOLEAN, tab : BOOLEAN, snap : BOOLEAN, queued : BOOLEAN, drained : BOOLEAN]
    /\ pump \in [Viewer -> Connection] /\ wire \in [Viewer -> Seq(Message)]
    /\ page \in [Viewer -> WebPage]
    /\ exact \subseteq Viewer /\ whole \subseteq Viewer
    /\ \A v \in Viewer :
        /\ pump[v].phase = "off" <=> ~page[v].open
        /\ pump[v].phase = "encode" <=> pump[v].job # NoFrame
        /\ wire[v] # <<>> => page[v].open
        /\ page[v].held # <<>> => page[v].selecting

\* The first k of n successive numbers end with n: bytes up to the newest.
Tail_(k, n) == [i \in 1..k |-> n - k + i]

\* "Offset semantics and retained history are identical to the uncompressed
\* ring", but for "at most one chunk of slack": the ring has the newest bytes,
\* in order, up to its capacity, and what it gives for an offset is exact.
RingIsExact ==
    /\ Retained(ring) <= Cap
    /\ Retained(ring) < Total(ring) => Retained(ring) > Cap - ChunkRaw
    /\ Len(ring.hot) <= IF Cap > 2 * HotMax THEN HotMax ELSE Cap
    /\ \A offset \in 0..Total(ring) + 1 :
        LET owed == Total(ring) - offset
        IN  Since(ring, offset) =
              Tail_(IF owed < 0 THEN 0 ELSE IF owed > Retained(ring) THEN Retained(ring) ELSE owed, written)

\* What one connection is sending: on the wire, and being encoded.
InFlight(v) == wire[v] \o IF pump[v].phase = "encode" THEN <<OutFrame(pump[v].job)>> ELSE <<>>
Outs(s) == {i \in DOMAIN s : s[i].tag = "out"}

\* The frames of s go from lo to hi, each from where the one before ended.
Joins(s, lo, hi) ==
    /\ Outs(s) = {} => lo = hi
    /\ \A i \in Outs(s) :
        /\ (\A k \in Outs(s) : k >= i) => s[i].frame.from = lo
        /\ \A j \in Outs(s) :
            j < i /\ (\A k \in Outs(s) : k <= j \/ k >= i) => s[i].frame.from = s[j].frame.to
        /\ (\A k \in Outs(s) : k <= i) => s[i].frame.to = hi

\* What was written before this daemon came.
Before == written - Total(ring)

\* One connection sends each byte once and in order, whichever pump encoded
\* it, and leaves out only what had aged out when it was due ("correctness
\* never depends on the cache").
SentInOrder ==
    \A v \in Viewer :
        /\ \E lo \in 0..pump[v].offset : Joins(InFlight(v), lo, pump[v].offset)
        /\ \A i \in Outs(InFlight(v)) :
            LET f == InFlight(v)[i].frame
            IN  f.bytes # <<>> /\ f.bytes = Tail_(Len(f.bytes), Before + f.to)

\* Whether one of the frames that ended at es cut what the i-th byte after
\* the d-th is of.
IsCut(i, d, es) == \E e \in es : IF e < i THEN Together(d + e, d + i) ELSE Together(d + i, d + e + 1)
Text(n, d, es) == [i \in 1..n |-> Fate(d + i, IsCut(i, d, es))]

\* A page that missed nothing shows what was printed, each byte once, across
\* any number of connections, but for the characters that the end of a frame
\* cut, and the modes: those are taken out where none did.  That is all there
\* was up to its offset, shown or held back; what it has queued and is being
\* sent goes on from there, without a gap, to its pump's.
ExactPage ==
    \A v \in exact \cap whole :
        LET p  == page[v]
            on == p.shown \o p.held
        IN  /\ p.offset = Len(on) /\ on = Text(p.offset, Before, p.cuts)
            /\ \E mid \in p.offset..Total(ring) :
                /\ Joins(p.chain, p.offset, mid)
                /\ Joins(InFlight(v), mid, IF p.open THEN pump[v].offset ELSE mid)
            /\ \A m \in {p.chain[i] : i \in Outs(p.chain)} \cup {InFlight(v)[i] : i \in Outs(InFlight(v))} :
                m.frame.bytes = Tail_(m.frame.to - m.frame.from, Before + m.frame.to)

\* "The NEXT real frame must reset first, so the temporary preview is wiped
\* rather than duplicated": only a page that has shown nothing shows one.
PreviewComesFirst ==
    \A v \in exact : page[v].preview => page[v].shown = <<>> /\ page[v].held = <<>>

\* "On reconnect it passes the last byte it received", so that the server
\* resumes there: nothing is shown twice.  It is, by a page that came when
\* bytes had aged out (ViewersResume.cfg).
ShownOnce == \A v \in Viewer : \A i, j \in DOMAIN page[v].shown :
                 page[v].shown[i] = page[v].shown[j] => i = j \/ page[v].shown[i] = Lost

\* A page that stays connected ends up showing the last byte, unless it
\* connected with an offset beyond a younger ring and nothing came since.
CatchesUp ==
    \A v \in Viewer :
        <>[](v \in left.viewers =>
             /\ page[v].open
             /\ \/ Total(ring) = 0 \/ v \notin exact
                \/ /\ page[v].shown # <<>>
                   /\ \E cut \in BOOLEAN : Last(page[v].shown) = Fate(written, cut))

\* The lock last answered ends up on every page: the owner loop may put the
\* old one up in between, and the generation may move while the tab is read.
LockIsShown ==
    \A v \in Viewer : <>[](v \in left.viewers => page[v].locked = lock.asked /\ lock.tab = lock.asked)
=============================================================================

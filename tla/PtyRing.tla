-------------------------------- MODULE PtyRing --------------------------------
(***************************************************************************)
(* The output of one tab's terminal as its viewers read it:                *)
(* src/src/pty_ring.rs.  A ring is a value here; Viewers has the variable. *)
(*                                                                         *)
(* It keeps the newest bytes plain (hot) and older ones in compressed      *)
(* chunks (cold), and addresses them all by how many came before.          *)
(***************************************************************************)
EXTENDS Integers, Sequences

CONSTANTS
    Cap,        \* capacity
    HotMax,     \* HOT_MAX: plain bytes beyond which chunks are cut
    ChunkRaw,   \* CHUNK_RAW: the bytes of a chunk
    FrameMax    \* FRAME_CACHE_MAX

ASSUME SizeAssumption ==
    /\ Cap \in Nat \ {0} /\ HotMax \in Nat /\ FrameMax \in Nat
    /\ ChunkRaw \in 1..HotMax

NoFrame == [from |-> -1, to |-> -1, bytes |-> <<>>]

NewRing == [base |-> 0, cold |-> <<>>, hot |-> <<>>, cache |-> NoFrame]

Extent(cold) == ChunkRaw * Len(cold)

Retained(r) == Extent(r.cold) + Len(r.hot)

\* total_len: bytes ever pushed.
Total(r) == r.base + Retained(r)

----------------------------------------------------------------------------

\* ceil(n / ChunkRaw), and 0 for what is negative.
Chunks(n) == IF n <= 0 THEN 0 ELSE (n + ChunkRaw - 1) \div ChunkRaw

\* compact: the oldest plain bytes go to chunks until HotMax remain.
Compact(r) ==
    IF Cap <= 2 * HotMax THEN r
    ELSE LET k   == Chunks(Len(r.hot) - HotMax)
             cut == [i \in 1..k |-> SubSeq(r.hot, (i - 1) * ChunkRaw + 1, i * ChunkRaw)]
         IN  [r EXCEPT !.cold = @ \o cut, !.hot = SubSeq(@, k * ChunkRaw + 1, Len(@))]

\* evict_over_cap: whole chunks as long as there are any, then plain bytes.
EvictOverCap(r) ==
    LET overflow == Retained(r) - Cap
    IN  IF overflow <= 0 THEN r
        ELSE IF overflow <= Extent(r.cold)
        THEN LET k == Chunks(overflow)
             IN  [r EXCEPT !.base = @ + k * ChunkRaw, !.cold = SubSeq(@, k + 1, Len(@))]
        ELSE [r EXCEPT !.base = @ + overflow, !.cold = <<>>,
                       !.hot = SubSeq(@, overflow - Extent(r.cold) + 1, Len(@))]

\* push_inner.  Of more than fits only the tail survives.
PushInner(r, data) ==
    IF Len(data) >= Cap
    THEN LET skip == Len(data) - Cap
         IN  Compact([r EXCEPT !.base = @ + Retained(r) + skip, !.cold = <<>>,
                               !.hot = SubSeq(data, skip + 1, Len(data))])
    ELSE EvictOverCap(Compact([r EXCEPT !.hot = @ \o data]))

\* push, of one byte or more: the frame is kept only for viewers.
Push(r, data, viewers) ==
    LET s == PushInner(r, data)
    IN  IF viewers > 0 THEN s ELSE [s EXCEPT !.cache = NoFrame]

----------------------------------------------------------------------------

\* The bytes of the chunks after the first n, each inflated whole.
Inflated(cold, n) ==
    [i \in 1..ChunkRaw * (Len(cold) - n) |->
        cold[n + (i - 1) \div ChunkRaw + 1][((i - 1) % ChunkRaw) + 1]]

\* Variants ending in _x are bugs this code could have; nothing uses them.

\* All of a chunk is sent, not what is asked of it.
Since_x(r, offset) ==
    IF offset >= Total(r) THEN <<>>
    ELSE LET start == IF offset > r.base THEN offset ELSE r.base
             first == (start - r.base) \div ChunkRaw
         IN  IF start >= r.base + Extent(r.cold)
             THEN SubSeq(r.hot, start - r.base - Extent(r.cold) + 1, Len(r.hot))
             ELSE Inflated(r.cold, first) \o r.hot

\* since: from the offset on, or all there is if the offset has aged out.
\* Chunks that end before the start are not inflated.
Since(r, offset) ==
    IF offset >= Total(r) THEN <<>>
    ELSE LET start == IF offset > r.base THEN offset ELSE r.base
             first == (start - r.base) \div ChunkRaw
         IN  IF start >= r.base + Extent(r.cold)
             THEN SubSeq(r.hot, start - r.base - Extent(r.cold) + 1, Len(r.hot))
             ELSE LET raw == Inflated(r.cold, first)
                  IN  SubSeq(raw, ((start - r.base) % ChunkRaw) + 1, Len(raw)) \o r.hot

\* cached_frame: a frame of exactly this range.
HasFrame(r, from, to) == r.cache.from = from /\ r.cache.to = to

\* store_frame.
StoreFrame(r, frame) == IF Len(frame.bytes) <= FrameMax THEN [r EXCEPT !.cache = frame] ELSE r
=============================================================================

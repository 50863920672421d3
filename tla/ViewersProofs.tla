--------------------------- MODULE ViewersProofs ---------------------------
(***************************************************************************)
(* What the ring of a tab keeps of the terminal's output, and what its     *)
(* viewers get of it, for rings, chunks and writes of any size and any     *)
(* number of viewers.                                                      *)
(*                                                                         *)
(* A byte is its number in all that was written.  The ring has the newest  *)
(* bytes, each in its place, whether it lies in a chunk or among the plain *)
(* ones; no more of them than it may, and all but the slack of a chunk.    *)
(* What is on the way to a page goes on, frame by frame, from what the     *)
(* page counts to the offset of its pump.                                  *)
(***************************************************************************)
EXTENDS Viewers, SequenceTheorems, TLAPS

HotBound == IF Cap > 2 * HotMax THEN HotMax ELSE Cap

\* The bytes of n chunks.
Span(n) == n * ChunkRaw

\* The i-th chunk and the plain bytes begin where the ones before end; d is
\* what was written before the ring was there.
ChunkInPlace(r, d, i) ==
    /\ Len(r.cold[i]) = ChunkRaw
    /\ \A j \in 1..ChunkRaw : r.cold[i][j] = d + r.base + Span(i - 1) + j
InPlace(r, d) ==
    /\ \A i \in 1..Len(r.cold) : ChunkInPlace(r, d, i)
    /\ \A j \in 1..Len(r.hot) : r.hot[j] = d + r.base + Extent(r.cold) + j

\* Whatever frame is cached.
IsRing(r) ==
    /\ r = [base |-> r.base, cold |-> r.cold, hot |-> r.hot, cache |-> r.cache]
    /\ r.base \in Nat /\ r.cold \in Seq(Seq(Nat)) /\ r.hot \in Seq(Nat)

\* Of what has gone there is at most one chunk of slack.
Bounded(r) ==
    /\ Retained(r) <= Cap /\ Len(r.hot) <= HotBound
    /\ r.base > 0 => Retained(r) > Cap - ChunkRaw

Good(r, d) == IsRing(r) /\ InPlace(r, d) /\ Bounded(r)

----------------------------------------------------------------------------
(* Chunks add up.                                                          *)

LEMMA Sizes == /\ Cap \in Nat /\ Cap > 0 /\ HotMax \in Nat /\ FrameMax \in Nat
               /\ ChunkRaw \in Nat /\ ChunkRaw > 0 /\ ChunkRaw <= HotMax
BY SizeAssumption

LEMMA SpanType == /\ \A i \in Int : Span(i) \in Int
                  /\ \A i \in Nat : Span(i) \in Nat
BY Sizes DEF Span

LEMMA SpanAdds ==
    ASSUME NEW i \in Int, NEW j \in Int
    PROVE  Span(i + j) = Span(i) + Span(j) /\ Span(i - j) = Span(i) - Span(j)
BY Sizes DEF Span

LEMMA SpanOfOne == /\ Span(0) = 0 /\ Span(1) = ChunkRaw
                   /\ \A i \in Int : Span(i) = Span(i - 1) + ChunkRaw
BY Sizes DEF Span

LEMMA SpanGrows ==
    ASSUME NEW i \in Int, NEW j \in Int
    PROVE  i <= j <=> Span(i) <= Span(j)
<1>1. CASE i <= j
  <2>1. (j - i) * ChunkRaw >= 0
    BY <1>1, Sizes
  <2> QED
    BY <1>1, <2>1, Sizes DEF Span
<1>2. CASE i >= j + 1
  <2>1. (i - j - 1) * ChunkRaw >= 0
    BY <1>2, Sizes
  <2> QED
    BY <1>2, <2>1, Sizes DEF Span
<1> QED
  BY <1>1, <1>2

LEMMA ExtentIsSpan ==
    ASSUME NEW s \in Seq(Seq(Nat))
    PROVE  Extent(s) = Span(Len(s)) /\ Extent(s) \in Nat
BY Sizes DEF Extent, Span

\* The whole chunks that it takes for n bytes.
LEMMA ChunksCover ==
    ASSUME NEW n \in Int, n > 0
    PROVE  /\ Chunks(n) \in Nat /\ Chunks(n) > 0
           /\ Span(Chunks(n)) >= n
           /\ Span(Chunks(n)) < n + ChunkRaw
<1> DEFINE q == (n + ChunkRaw - 1) \div ChunkRaw
           m == (n + ChunkRaw - 1) % ChunkRaw
<1>1. n + ChunkRaw - 1 \in Nat /\ ChunkRaw \in Nat \ {0}
  BY Sizes
<1>2. q \in Int /\ m \in 0..ChunkRaw - 1 /\ n + ChunkRaw - 1 = ChunkRaw * q + m
  BY <1>1, Sizes
<1>3. Chunks(n) = q
  BY DEF Chunks
<1>4. q > 0
  <2> SUFFICES ASSUME q <= 0 PROVE FALSE
    BY <1>2
  <2>1. ChunkRaw * q <= 0
    BY <1>2, Sizes
  <2> QED
    BY <1>2, <2>1, Sizes
<1> HIDE DEF q, m
<1> QED
  BY <1>2, <1>3, <1>4, Sizes DEF Span

LEMMA ChunksOfNone == ASSUME NEW n \in Int, n <= 0 PROVE Chunks(n) = 0
BY DEF Chunks

----------------------------------------------------------------------------
(* Rings, and sequences.                                                   *)

\* What assignments to some fields leave.
LEMMA WithCache ==
    ASSUME NEW r, IsRing(r), NEW f
    PROVE  [r EXCEPT !.cache = f] = [base |-> r.base, cold |-> r.cold, hot |-> r.hot, cache |-> f]
<1>1. r \in [base : {r.base}, cold : {r.cold}, hot : {r.hot}, cache : {r.cache}]
  BY DEF IsRing
<1> QED
  BY <1>1

LEMMA WithHot ==
    ASSUME NEW r, IsRing(r), NEW h
    PROVE  [r EXCEPT !.hot = h] = [base |-> r.base, cold |-> r.cold, hot |-> h, cache |-> r.cache]
<1>1. r \in [base : {r.base}, cold : {r.cold}, hot : {r.hot}, cache : {r.cache}]
  BY DEF IsRing
<1> QED
  BY <1>1

LEMMA WithColdHot ==
    ASSUME NEW r, IsRing(r), NEW c, NEW h
    PROVE  [r EXCEPT !.cold = c, !.hot = h] = [base |-> r.base, cold |-> c, hot |-> h, cache |-> r.cache]
<1>1. r \in [base : {r.base}, cold : {r.cold}, hot : {r.hot}, cache : {r.cache}]
  BY DEF IsRing
<1>2. PICK s : s = [r EXCEPT !.cold = c]
  OBVIOUS
<1>3. s \in [base : {r.base}, cold : {c}, hot : {r.hot}, cache : {r.cache}]
  BY <1>1, <1>2
<1>4. [s EXCEPT !.hot = h] = [base |-> r.base, cold |-> c, hot |-> h, cache |-> r.cache]
  BY <1>3
<1> QED
  BY <1>2, <1>4

LEMMA WithBaseCold ==
    ASSUME NEW r, IsRing(r), NEW b, NEW c
    PROVE  [r EXCEPT !.base = b, !.cold = c] = [base |-> b, cold |-> c, hot |-> r.hot, cache |-> r.cache]
<1>1. r \in [base : {r.base}, cold : {r.cold}, hot : {r.hot}, cache : {r.cache}]
  BY DEF IsRing
<1>2. PICK s : s = [r EXCEPT !.base = b]
  OBVIOUS
<1>3. s \in [base : {b}, cold : {r.cold}, hot : {r.hot}, cache : {r.cache}]
  BY <1>1, <1>2
<1>4. [s EXCEPT !.cold = c] = [base |-> b, cold |-> c, hot |-> r.hot, cache |-> r.cache]
  BY <1>3
<1> QED
  BY <1>2, <1>4

\* What comes after the first lo, up to the hi-th.
LEMMA Slice ==
    ASSUME NEW S, NEW q \in Seq(S), NEW lo \in Nat, NEW hi \in Int, lo <= hi, hi <= Len(q)
    PROVE  /\ SubSeq(q, lo + 1, hi) \in Seq(S) /\ Len(SubSeq(q, lo + 1, hi)) = hi - lo
           /\ \A j \in 1..hi - lo : SubSeq(q, lo + 1, hi)[j] = q[lo + j]
<1>1. \A x \in lo + 1 .. hi : q[x] \in S
  OBVIOUS
<1>2. lo + 1 \in Int /\ hi \in Int
  OBVIOUS
<1>3. /\ SubSeq(q, lo + 1, hi) \in Seq(S)
      /\ Len(SubSeq(q, lo + 1, hi)) = IF lo + 1 <= hi THEN hi - (lo + 1) + 1 ELSE 0
      /\ \A j \in 1..hi - (lo + 1) + 1 : SubSeq(q, lo + 1, hi)[j] = q[lo + 1 + j - 1]
  BY <1>1, <1>2, SubSeqProperties
<1>4. hi - (lo + 1) + 1 = hi - lo /\ \A j \in Int : lo + 1 + j - 1 = lo + j
  OBVIOUS
<1> QED
  BY <1>3, <1>4

LEMMA SliceOfBytes ==
    ASSUME NEW q \in Seq(Nat), NEW lo \in Nat, NEW hi \in Nat, lo <= hi, hi <= Len(q)
    PROVE  /\ SubSeq(q, lo + 1, hi) \in Seq(Nat) /\ Len(SubSeq(q, lo + 1, hi)) = hi - lo
           /\ \A j \in 1..hi - lo : SubSeq(q, lo + 1, hi)[j] = q[lo + j]
<1>1. hi \in Int
  OBVIOUS
<1> QED
  BY <1>1, Slice

\* Both parts of a concatenation.
LEMMA Both ==
    ASSUME NEW S, NEW q \in Seq(S), NEW t \in Seq(S)
    PROVE  /\ q \o t \in Seq(S) /\ Len(q \o t) = Len(q) + Len(t)
           /\ \A i \in 1..Len(q) : (q \o t)[i] = q[i]
           /\ \A i \in 1..Len(t) : (q \o t)[Len(q) + i] = t[i]
           /\ \A i \in 1..Len(q) + Len(t) : i \in 1..Len(q) \/ \E m \in 1..Len(t) : i = Len(q) + m
<1>1. Len(q) \in Nat /\ Len(t) \in Nat
  OBVIOUS
<1>2. /\ q \o t \in Seq(S) /\ Len(q \o t) = Len(q) + Len(t)
      /\ \A i \in 1..Len(q) + Len(t) : (q \o t)[i] = IF i <= Len(q) THEN q[i] ELSE t[i - Len(q)]
  BY ConcatProperties
<1>3. ASSUME NEW i \in 1..Len(q) + Len(t), i \notin 1..Len(q)
      PROVE  \E m \in 1..Len(t) : i = Len(q) + m
  <2>1. i - Len(q) \in 1..Len(t) /\ i = Len(q) + (i - Len(q))
    BY <1>1, <1>3
  <2> QED
    BY <2>1
<1> QED
  BY <1>1, <1>2, <1>3

LEMMA FunctionIsSeq ==
    ASSUME NEW S, NEW n \in Nat, NEW f \in [1..n -> S]
    PROVE  f \in Seq(S) /\ Len(f) = n
OBVIOUS

----------------------------------------------------------------------------
(* compact.                                                                *)

ChunkAt(h, i) == SubSeq(h, Span(i - 1) + 1, Span(i))
FirstChunks(r, k) == [i \in 1..k |-> ChunkAt(r.hot, i)]
Cut(r, k) == [base |-> r.base, cold |-> r.cold \o FirstChunks(r, k),
              hot |-> SubSeq(r.hot, Span(k) + 1, Len(r.hot)), cache |-> r.cache]

LEMMA ChunkOfHot ==
    ASSUME NEW h \in Seq(Nat), NEW k \in Nat, Span(k) <= Len(h), NEW i \in 1..k
    PROVE  /\ ChunkAt(h, i) \in Seq(Nat) /\ Len(ChunkAt(h, i)) = ChunkRaw
           /\ Span(i - 1) \in Nat /\ Span(i - 1) + ChunkRaw <= Len(h)
           /\ \A j \in 1..ChunkRaw : ChunkAt(h, i)[j] = h[Span(i - 1) + j]
<1>1. Span(i - 1) \in Nat /\ Span(i) \in Int /\ Span(i) = Span(i - 1) + ChunkRaw /\ Span(k) \in Int
  <2>1. i - 1 \in Nat /\ i \in Int /\ k \in Int
    OBVIOUS
  <2> QED
    BY <2>1, SpanType, SpanOfOne
<1>2. Span(i) <= Span(k)
  BY SpanGrows
<1>3. PICK lo \in Nat, hi \in Int : lo = Span(i - 1) /\ hi = Span(i)
  BY <1>1
<1>4. hi = lo + ChunkRaw /\ hi <= Len(h)
  <2>1. Len(h) \in Nat /\ hi <= Span(k)
    BY <1>2, <1>3
  <2> QED
    BY <1>1, <1>3, <2>1
<1>5. lo <= hi /\ hi - lo = ChunkRaw
  BY <1>4, Sizes
<1>6. /\ SubSeq(h, lo + 1, hi) \in Seq(Nat) /\ Len(SubSeq(h, lo + 1, hi)) = hi - lo
      /\ \A j \in 1..hi - lo : SubSeq(h, lo + 1, hi)[j] = h[lo + j]
  BY <1>4, <1>5, Slice, SMTT(30)
<1> QED
  BY <1>3, <1>4, <1>5, <1>6 DEF ChunkAt

\* The first k chunks' worth of plain bytes move, and keep their places.
LEMMA CutKeeps ==
    ASSUME NEW r, NEW d \in Nat, IsRing(r), InPlace(r, d),
           NEW k \in Nat, Span(k) <= Len(r.hot),
           NEW s, s = Cut(r, k)
    PROVE  /\ IsRing(s) /\ InPlace(s, d) /\ s.base = r.base
           /\ Retained(s) = Retained(r) /\ Len(s.hot) = Len(r.hot) - Span(k)
<1>1. r.base \in Nat /\ r.cold \in Seq(Seq(Nat)) /\ r.hot \in Seq(Nat)
      /\ Len(r.hot) \in Nat /\ Len(r.cold) \in Nat
  BY DEF IsRing
<1>2. PICK cut : cut = FirstChunks(r, k)
  OBVIOUS
<1>3. PICK n \in Nat : n = Span(k) /\ n <= Len(r.hot)
  BY SpanType
<1>4. ASSUME NEW i \in 1..k
      PROVE  /\ cut[i] \in Seq(Nat) /\ Len(cut[i]) = ChunkRaw
             /\ Span(i - 1) \in Nat /\ Span(i - 1) + ChunkRaw <= Len(r.hot)
             /\ \A j \in 1..ChunkRaw : cut[i][j] = r.hot[Span(i - 1) + j]
  <2>1. cut[i] = ChunkAt(r.hot, i)
    BY <1>2 DEF FirstChunks
  <2> QED
    <3>1. PICK h \in Seq(Nat) : h = r.hot
      BY <1>1
    <3>2. Span(k) <= Len(h)
      BY <3>1
    <3>3. /\ ChunkAt(h, i) \in Seq(Nat) /\ Len(ChunkAt(h, i)) = ChunkRaw
          /\ Span(i - 1) \in Nat /\ Span(i - 1) + ChunkRaw <= Len(h)
          /\ \A j \in 1..ChunkRaw : ChunkAt(h, i)[j] = h[Span(i - 1) + j]
      BY <3>2, ChunkOfHot
    <3> QED
      BY <2>1, <3>1, <3>3, Zenon
<1>5. cut \in Seq(Seq(Nat)) /\ Len(cut) = k
  <2>1. cut \in [1..k -> Seq(Nat)]
    BY <1>2, <1>4 DEF FirstChunks
  <2> QED
    BY <2>1, FunctionIsSeq
<1>6. s.base = r.base /\ s.cold = r.cold \o cut /\ s.hot = SubSeq(r.hot, n + 1, Len(r.hot))
      /\ s = [base |-> s.base, cold |-> s.cold, hot |-> s.hot, cache |-> s.cache]
  BY <1>2, <1>3 DEF Cut
<1>7. /\ s.cold \in Seq(Seq(Nat)) /\ Len(s.cold) = Len(r.cold) + k
      /\ \A i \in 1..Len(r.cold) : s.cold[i] = r.cold[i]
      /\ \A i \in 1..k : s.cold[Len(r.cold) + i] = cut[i]
      /\ \A i \in 1..Len(s.cold) : i \in 1..Len(r.cold) \/ \E m \in 1..k : i = Len(r.cold) + m
  <2>1. /\ r.cold \o cut \in Seq(Seq(Nat)) /\ Len(r.cold \o cut) = Len(r.cold) + Len(cut)
        /\ \A i \in 1..Len(r.cold) : (r.cold \o cut)[i] = r.cold[i]
        /\ \A i \in 1..Len(cut) : (r.cold \o cut)[Len(r.cold) + i] = cut[i]
        /\ \A i \in 1..Len(r.cold) + Len(cut) :
                i \in 1..Len(r.cold) \/ \E m \in 1..Len(cut) : i = Len(r.cold) + m
    <3>1. r.cold \in Seq(Seq(Nat)) /\ cut \in Seq(Seq(Nat))
      BY <1>1, <1>5
    <3> QED
      BY <3>1, Both, ZenonT(80)
  <2> QED
    BY <1>5, <1>6, <2>1
<1>8. /\ s.hot \in Seq(Nat) /\ Len(s.hot) = Len(r.hot) - n
      /\ \A j \in 1..Len(s.hot) : s.hot[j] = r.hot[n + j]
  <2>1. /\ SubSeq(r.hot, n + 1, Len(r.hot)) \in Seq(Nat)
        /\ Len(SubSeq(r.hot, n + 1, Len(r.hot))) = Len(r.hot) - n
        /\ \A j \in 1..Len(r.hot) - n : SubSeq(r.hot, n + 1, Len(r.hot))[j] = r.hot[n + j]
    <3>1. PICK l \in Nat : l = Len(r.hot)
      BY <1>1
    <3>2. n <= l /\ l <= Len(r.hot)
      BY <1>3, <3>1
    <3>3. /\ SubSeq(r.hot, n + 1, l) \in Seq(Nat) /\ Len(SubSeq(r.hot, n + 1, l)) = l - n
          /\ \A j \in 1..l - n : SubSeq(r.hot, n + 1, l)[j] = r.hot[n + j]
      BY <1>1, <3>2, SliceOfBytes, ZenonT(80)
    <3> QED
      BY <3>1, <3>3, Zenon
  <2> QED
    BY <1>6, <2>1
<1>9. IsRing(s)
  BY <1>1, <1>6, <1>7, <1>8 DEF IsRing
<1>10. PICK x \in Nat : x = Extent(r.cold)
  BY <1>1, ExtentIsSpan
<1>11. Extent(s.cold) = x + n
  <2>1. Extent(s.cold) = Span(Len(r.cold) + k)
    BY <1>7, ExtentIsSpan
  <2>2. Span(Len(r.cold) + k) = Span(Len(r.cold)) + Span(k)
    <3>1. PICK c \in Int : c = Len(r.cold)
      BY <1>1
    <3> QED
      <4>1. Span(c + k) = Span(c) + Span(k)
        BY SpanAdds
      <4> QED
        BY <3>1, <4>1
  <2> QED
    BY <1>1, <1>3, <1>10, <2>1, <2>2, ExtentIsSpan
<1>12. Retained(s) = Retained(r)
  BY <1>1, <1>8, <1>10, <1>11 DEF Retained
<1>13. ASSUME NEW j \in 1..Len(s.hot) PROVE s.hot[j] = d + s.base + Extent(s.cold) + j
  <2>0. PICK l \in Nat : l = Len(r.hot) /\ n <= l /\ j \in 1..l - n
    BY <1>1, <1>3, <1>8, Zenon
  <2>1. n + j \in 1..Len(r.hot)
    BY <2>0
  <2>2. r.hot[n + j] = d + r.base + x + (n + j)
    BY <1>10, <2>1 DEF InPlace
  <2>3. j \in Int /\ d + r.base + x + (n + j) = d + r.base + (x + n) + j
    BY <1>1, <1>8, SMTT(30)
  <2> QED
    BY <1>6, <1>8, <1>11, <2>2, <2>3
<1>14. ASSUME NEW i \in 1..Len(s.cold) PROVE ChunkInPlace(s, d, i)
  <2>1. CASE i \in 1..Len(r.cold)
    <3>1. ChunkInPlace(r, d, i)
      BY <2>1 DEF InPlace
    <3> QED
      BY <1>6, <1>7, <2>1, <3>1 DEF ChunkInPlace
  <2>2. ASSUME NEW m \in 1..k, i = Len(r.cold) + m PROVE ChunkInPlace(s, d, i)
    <3>1. s.cold[i] = cut[m]
      BY <1>7, <2>2
    <3>2. PICK lo \in Nat : lo = Span(m - 1) /\ lo + ChunkRaw <= Len(r.hot)
      BY <1>4
    <3>3. Span(i - 1) = x + lo
      <4>1. i - 1 = Len(r.cold) + (m - 1) /\ m - 1 \in Int
        BY <1>1, <2>2
      <4> QED
        <5>1. Span(i - 1) = Span(Len(r.cold)) + Span(m - 1)
          <6>1. PICK c \in Int : c = Len(r.cold)
            BY <1>1
          <6>2. PICK e \in Int : e = m - 1
            OBVIOUS
          <6>3. Span(c + e) = Span(c) + Span(e)
            BY SpanAdds
          <6> QED
            BY <4>1, <6>1, <6>2, <6>3
        <5> QED
          BY <1>1, <1>10, <3>2, <5>1, ExtentIsSpan
    <3>4. ASSUME NEW j \in 1..ChunkRaw
          PROVE  s.cold[i][j] = d + s.base + Span(i - 1) + j
      <4>1. lo + j \in 1..Len(r.hot) /\ j \in Int
        BY <1>1, <3>2, Sizes, SMTT(30)
      <4>2. r.hot[lo + j] = d + r.base + x + (lo + j)
        BY <1>10, <4>1 DEF InPlace
      <4>3. s.cold[i][j] = r.hot[lo + j]
        BY <1>4, <3>1, <3>2
      <4>4. d + r.base + x + (lo + j) = d + r.base + (x + lo) + j
        BY <1>1, <4>1, SMTT(30)
      <4> QED
        BY <1>6, <3>3, <4>2, <4>3, <4>4
    <3> QED
      BY <1>4, <3>1, <3>4 DEF ChunkInPlace
  <2> QED
    BY <1>7, <2>1, <2>2
<1> QED
  BY <1>3, <1>6, <1>8, <1>9, <1>12, <1>13, <1>14 DEF InPlace

\* Compaction keeps every byte in its place, and the plain ones few.
LEMMA CompactKeeps ==
    ASSUME NEW r, NEW d \in Nat, IsRing(r), InPlace(r, d)
    PROVE  /\ IsRing(Compact(r)) /\ InPlace(Compact(r), d)
           /\ Compact(r).base = r.base /\ Retained(Compact(r)) = Retained(r)
           /\ Len(Compact(r).hot) <= Len(r.hot)
           /\ Cap > 2 * HotMax => Len(Compact(r).hot) <= HotMax
<1>1. PICK h \in Nat : h = Len(r.hot)
  BY SMTT(30) DEF IsRing
<1>2. CASE Cap <= 2 * HotMax
  <2>1. Compact(r) = r
    BY <1>2 DEF Compact
  <2> QED
    BY <1>1, <1>2, <2>1, Sizes
<1>3. CASE ~(Cap <= 2 * HotMax)
  <2>1. PICK k : k = Chunks(h - HotMax)
    OBVIOUS
  <2>2. Compact(r) = [r EXCEPT !.cold = @ \o FirstChunks(r, k), !.hot = SubSeq(@, k * ChunkRaw + 1, Len(@))]
    BY <1>1, <1>3, <2>1 DEF Compact, FirstChunks, ChunkAt, Span
  <2>3. Compact(r) = Cut(r, k)
    <3>1. PICK c, t :
              /\ c = r.cold \o FirstChunks(r, k) /\ t = SubSeq(r.hot, k * ChunkRaw + 1, Len(r.hot))
              /\ Compact(r) = [r EXCEPT !.cold = c, !.hot = t]
      BY <2>2
    <3>2. Compact(r) = [base |-> r.base, cold |-> c, hot |-> t, cache |-> r.cache]
      BY <3>1, WithColdHot, ZenonT(80)
    <3>3. k * ChunkRaw = Span(k)
      BY DEF Span
    <3> QED
      BY <3>1, <3>2, <3>3, Zenon DEF Cut
  <2>4. k \in Nat /\ Span(k) \in Nat /\ Span(k) <= h /\ h - Span(k) <= HotMax
    <3>1. h - HotMax \in Int
      BY Sizes
    <3>2. CASE h - HotMax > 0
      <4>1. k \in Nat /\ Span(k) >= h - HotMax /\ Span(k) < h - HotMax + ChunkRaw
        BY <2>1, <3>1, <3>2, ChunksCover
      <4>2. Span(k) \in Nat
        BY <4>1, SpanType
      <4> QED
        BY <4>1, <4>2, Sizes
    <3>3. CASE h - HotMax <= 0
      <4>1. k = 0
        BY <2>1, <3>1, <3>3, ChunksOfNone
      <4> QED
        BY <3>3, <4>1, SpanOfOne, Sizes
    <3> QED
      BY <3>1, <3>2, <3>3
  <2>5. PICK s : s = Cut(r, k)
    OBVIOUS
  <2>6. /\ IsRing(s) /\ InPlace(s, d) /\ s.base = r.base
        /\ Retained(s) = Retained(r) /\ Len(s.hot) = h - Span(k)
    BY <1>1, <2>4, <2>5, CutKeeps
  <2>7. Len(s.hot) <= h /\ Len(s.hot) <= HotMax
    BY <2>4, <2>6
  <2> QED
    BY <1>1, <2>3, <2>5, <2>6, <2>7
<1> QED
  BY <1>2, <1>3

----------------------------------------------------------------------------
(* evict_over_cap.                                                         *)

DropChunks(r, k) == [base |-> r.base + Span(k), cold |-> SubSeq(r.cold, k + 1, Len(r.cold)),
                     hot |-> r.hot, cache |-> r.cache]

\* The oldest k chunks go; the others keep their places.
LEMMA DropKeeps ==
    ASSUME NEW r, NEW d \in Nat, IsRing(r), InPlace(r, d),
           NEW k \in Nat, k <= Len(r.cold),
           NEW s, s = DropChunks(r, k)
    PROVE  /\ IsRing(s) /\ InPlace(s, d) /\ s.hot = r.hot
           /\ s.base = r.base + Span(k) /\ Retained(s) = Retained(r) - Span(k)
<1>1. r.base \in Nat /\ r.cold \in Seq(Seq(Nat)) /\ r.hot \in Seq(Nat) /\ Len(r.hot) \in Nat
  BY DEF IsRing
<1>2. PICK c \in Nat : c = Len(r.cold) /\ k <= c
  BY <1>1
<1>3. PICK n \in Nat : n = Span(k)
  BY SpanType
<1>4. /\ s.base = r.base + n /\ s.hot = r.hot /\ s.cold = SubSeq(r.cold, k + 1, c)
      /\ s = [base |-> s.base, cold |-> s.cold, hot |-> s.hot, cache |-> s.cache]
  BY <1>2, <1>3 DEF DropChunks
<1>5. /\ s.cold \in Seq(Seq(Nat)) /\ Len(s.cold) = c - k
      /\ \A i \in 1..c - k : s.cold[i] = r.cold[k + i]
  <2>1. /\ SubSeq(r.cold, k + 1, c) \in Seq(Seq(Nat)) /\ Len(SubSeq(r.cold, k + 1, c)) = c - k
        /\ \A i \in 1..c - k : SubSeq(r.cold, k + 1, c)[i] = r.cold[k + i]
    <3>1. c \in Int /\ c <= Len(r.cold)
      BY <1>2
    <3> QED
      BY <1>1, <1>2, <3>1, Slice
  <2> QED
    BY <1>4, <2>1
<1>6. IsRing(s)
  BY <1>1, <1>3, <1>4, <1>5, SMTT(30) DEF IsRing
<1>7. Extent(s.cold) \in Nat /\ Extent(r.cold) \in Nat /\ Extent(s.cold) = Extent(r.cold) - n
  <2>1. Span(c - k) = Span(c) - Span(k)
    <3>1. c \in Int /\ k \in Int
      OBVIOUS
    <3> QED
      BY <3>1, SpanAdds
  <2> QED
    BY <1>1, <1>2, <1>3, <1>5, <2>1, ExtentIsSpan
<1>8. Retained(s) = Retained(r) - n
  BY <1>1, <1>4, <1>7 DEF Retained
<1>9. ASSUME NEW j \in 1..Len(s.hot) PROVE s.hot[j] = d + s.base + Extent(s.cold) + j
  <2>1. j \in 1..Len(r.hot) /\ j \in Int
    BY <1>1, <1>4
  <2>2. r.hot[j] = d + r.base + Extent(r.cold) + j
    BY <2>1 DEF InPlace
  <2> QED
    BY <1>1, <1>4, <1>7, <2>1, <2>2, SMTT(30)
<1>10. ASSUME NEW i \in 1..Len(s.cold) PROVE ChunkInPlace(s, d, i)
  <2>1. i \in 1..c - k /\ i - 1 \in Nat /\ k + i \in 1..Len(r.cold)
    BY <1>2, <1>5, SMTT(30)
  <2>2. ChunkInPlace(r, d, k + i) /\ s.cold[i] = r.cold[k + i]
    BY <1>5, <2>1 DEF InPlace
  <2>3. PICK lo \in Nat : lo = Span(i - 1)
    BY <2>1, SpanType
  <2>4. Span(k + i - 1) = n + lo
    <3>1. k \in Int /\ i - 1 \in Int /\ k + i - 1 = k + (i - 1)
      BY <2>1
    <3>2. Span(k + (i - 1)) = Span(k) + Span(i - 1)
      BY <3>1, SpanAdds
    <3> QED
      BY <1>3, <2>3, <3>1, <3>2
  <2>5. ASSUME NEW j \in 1..ChunkRaw PROVE s.cold[i][j] = d + s.base + Span(i - 1) + j
    <3>1. s.cold[i][j] = d + r.base + (n + lo) + j
      BY <2>2, <2>4 DEF ChunkInPlace
    <3>2. PICK b \in Nat : b = r.base
      BY <1>1
    <3>3. j \in Int
      BY Sizes
    <3>4. d + b + (n + lo) + j = d + (b + n) + lo + j
      BY <3>3
    <3> QED
      BY <1>4, <2>3, <3>1, <3>2, <3>4
  <2> QED
    BY <2>2, <2>5 DEF ChunkInPlace
<1> QED
  BY <1>3, <1>4, <1>6, <1>8, <1>9, <1>10 DEF InPlace

DropPlain(r, n) == [base |-> r.base + Extent(r.cold) + n, cold |-> <<>>,
                    hot |-> SubSeq(r.hot, n + 1, Len(r.hot)), cache |-> r.cache]

\* All chunks go, and the oldest n plain bytes.
LEMMA DropPlainKeeps ==
    ASSUME NEW r, NEW d \in Nat, IsRing(r), InPlace(r, d),
           NEW n \in Nat, n <= Len(r.hot)
    PROVE  /\ IsRing(DropPlain(r, n)) /\ InPlace(DropPlain(r, n), d)
           /\ Len(DropPlain(r, n).hot) = Len(r.hot) - n
           /\ DropPlain(r, n).base = r.base + Extent(r.cold) + n
           /\ Retained(DropPlain(r, n)) = Len(r.hot) - n
<1>0. PICK s : s = DropPlain(r, n)
  OBVIOUS
<1>1. r.base \in Nat /\ r.cold \in Seq(Seq(Nat)) /\ r.hot \in Seq(Nat)
  BY DEF IsRing
<1>2. PICK l \in Nat : l = Len(r.hot) /\ n <= l
  BY <1>1
<1>3. PICK x \in Nat : x = Extent(r.cold)
  BY <1>1, ExtentIsSpan
<1>4. /\ s.base = r.base + x + n /\ s.cold = <<>> /\ s.hot = SubSeq(r.hot, n + 1, l)
      /\ s = [base |-> s.base, cold |-> s.cold, hot |-> s.hot, cache |-> s.cache]
  BY <1>0, <1>2, <1>3 DEF DropPlain
<1>5. /\ s.hot \in Seq(Nat) /\ Len(s.hot) = l - n
      /\ \A j \in 1..l - n : s.hot[j] = r.hot[n + j]
  <2>1. /\ SubSeq(r.hot, n + 1, Len(r.hot)) \in Seq(Nat)
        /\ Len(SubSeq(r.hot, n + 1, Len(r.hot))) = Len(r.hot) - n
        /\ \A j \in 1..Len(r.hot) - n : SubSeq(r.hot, n + 1, Len(r.hot))[j] = r.hot[n + j]
    <3>1. PICK m \in Nat : m = Len(r.hot)
      BY <1>1
    <3>2. n <= m /\ m <= Len(r.hot)
      BY <1>2, <3>1
    <3>3. /\ SubSeq(r.hot, n + 1, m) \in Seq(Nat) /\ Len(SubSeq(r.hot, n + 1, m)) = m - n
          /\ \A j \in 1..m - n : SubSeq(r.hot, n + 1, m)[j] = r.hot[n + j]
      BY <1>1, <3>1, <3>2, SliceOfBytes, ZenonT(80)
    <3> QED
      BY <3>1, <3>3, Zenon
  <2> QED
    BY <1>2, <1>4, <2>1
<1>6. s.cold \in Seq(Seq(Nat)) /\ Len(s.cold) = 0 /\ Extent(s.cold) = 0
  <2>1. s.cold \in Seq(Seq(Nat)) /\ Len(s.cold) = 0
    BY <1>4
  <2> QED
    BY <2>1, ExtentIsSpan, SpanOfOne
<1>7. IsRing(s)
  BY <1>1, <1>4, <1>5, <1>6, SMTT(30) DEF IsRing
<1>8. Retained(s) = l - n
  BY <1>5, <1>6 DEF Retained
<1>9. ASSUME NEW j \in 1..Len(s.hot) PROVE s.hot[j] = d + s.base + Extent(s.cold) + j
  <2>1. j \in 1..l - n
    BY <1>5
  <2>2. n + j \in 1..Len(r.hot)
    BY <1>2, <2>1
  <2>3. s.hot[j] = d + r.base + x + (n + j)
    BY <1>3, <1>5, <2>1, <2>2 DEF InPlace
  <2>4. PICK b \in Nat : b = r.base
    BY <1>1
  <2>5. d + b + x + (n + j) = d + (b + x + n) + 0 + j
    BY <2>1
  <2> QED
    BY <1>4, <1>6, <2>3, <2>4, <2>5
<1> QED
  <2>1. InPlace(s, d)
    BY <1>6, <1>9 DEF InPlace
  <2>2. s.base = r.base + Extent(r.cold) + n
    BY <1>3, <1>4
  <2> QED
    BY <1>0, <1>2, <1>5, <1>7, <1>8, <2>1, <2>2

Slack(r) == r.base > 0 => Retained(r) > Cap - ChunkRaw

\* Eviction makes room, and not much more.
LEMMA EvictKeeps ==
    ASSUME NEW r, NEW d \in Nat, IsRing(r), InPlace(r, d), Len(r.hot) <= HotBound \/ Cap <= 2 * HotMax, Slack(r)
    PROVE  Good(EvictOverCap(r), d) /\ Total(EvictOverCap(r)) = Total(r)
<1>1. r.base \in Nat /\ r.cold \in Seq(Seq(Nat)) /\ r.hot \in Seq(Nat)
  BY DEF IsRing
<1>2. PICK l \in Nat, x \in Nat, c \in Nat, b \in Nat :
          l = Len(r.hot) /\ x = Extent(r.cold) /\ c = Len(r.cold) /\ b = r.base
  BY <1>1, ExtentIsSpan
<1>3. x = Span(c) /\ Retained(r) = x + l
  BY <1>1, <1>2, ExtentIsSpan DEF Retained
<1>4. PICK o \in Int : o = x + l - Cap /\ o = Retained(r) - Cap
  BY <1>3, Sizes
<1>8. EvictOverCap(r) =
        IF o <= 0 THEN r
        ELSE IF o <= Extent(r.cold)
        THEN [r EXCEPT !.base = r.base + Chunks(o) * ChunkRaw,
                       !.cold = SubSeq(r.cold, Chunks(o) + 1, Len(r.cold))]
        ELSE [r EXCEPT !.base = r.base + o, !.cold = <<>>,
                       !.hot = SubSeq(r.hot, o - Extent(r.cold) + 1, Len(r.hot))]
  BY <1>4, Zenon DEF EvictOverCap
<1>9. /\ HotBound \in Nat
      /\ l <= HotBound \/ HotBound = Cap
  BY <1>2, Sizes DEF HotBound
<1>5. CASE o <= 0
  <2>1. EvictOverCap(r) = r
    BY <1>5, <1>8
  <2>2. Retained(r) <= Cap /\ l <= Cap
    BY <1>3, <1>4, <1>5, Sizes
  <2>3. Len(r.hot) <= HotBound
    BY <1>2, <1>9, <2>2
  <2> QED
    BY <2>1, <2>2, <2>3 DEF Good, Bounded, Slack
<1>6. CASE o > 0 /\ o <= x
  <2>1. PICK k : k = Chunks(o)
    OBVIOUS
  <2>2. k \in Nat /\ k > 0 /\ Span(k) >= o /\ Span(k) < o + ChunkRaw
    BY <1>6, <2>1, ChunksCover
  <2>3. PICK n \in Nat : n = Span(k)
    BY <2>2, SpanType
  <2>4. k <= c
    <3>1. Span(k - 1) = n - ChunkRaw
      <4>1. k \in Int /\ k - 1 \in Int
        BY <2>2
      <4>2. Span(k) = Span(k - 1) + ChunkRaw /\ Span(k - 1) \in Int
        BY <4>1, SpanOfOne, SpanType
      <4> QED
        BY <2>3, <4>2, Sizes
    <3>2. n - ChunkRaw < x
      BY <1>6, <2>2, <2>3, Sizes
    <3>3. ~(Span(c) <= Span(k - 1))
      BY <1>3, <3>1, <3>2, Sizes
    <3>4. ~(c <= k - 1)
      <4>1. k - 1 \in Int /\ c \in Int
        BY <2>2
      <4> QED
        BY <3>3, <4>1, SpanGrows
    <3> QED
      BY <2>2, <3>4
  <2>5. EvictOverCap(r) = DropChunks(r, k)
    <3>1. EvictOverCap(r) = [r EXCEPT !.base = r.base + k * ChunkRaw, !.cold = SubSeq(r.cold, k + 1, Len(r.cold))]
      BY <1>2, <1>6, <1>8, <2>1
    <3>2. PICK e, t : /\ e = r.base + Span(k) /\ t = SubSeq(r.cold, k + 1, Len(r.cold))
                      /\ EvictOverCap(r) = [r EXCEPT !.base = e, !.cold = t]
      BY <3>1 DEF Span
    <3>3. EvictOverCap(r) = [base |-> e, cold |-> t, hot |-> r.hot, cache |-> r.cache]
      <4>1. [r EXCEPT !.base = e, !.cold = t] = [base |-> e, cold |-> t, hot |-> r.hot, cache |-> r.cache]
        BY WithBaseCold
      <4> QED
        BY <3>2, <4>1
    <3> QED
      BY <3>2, <3>3 DEF DropChunks
  <2>6. PICK s : s = DropChunks(r, k)
    OBVIOUS
  <2>7. /\ IsRing(s) /\ InPlace(s, d) /\ s.hot = r.hot
        /\ s.base = b + n /\ Retained(s) = x + l - n
    BY <1>2, <1>3, <2>2, <2>3, <2>4, <2>6, DropKeeps, SMTT(30)
  <2>8. Retained(s) <= Cap /\ Retained(s) > Cap - ChunkRaw
    BY <1>4, <2>2, <2>3, <2>7, Sizes, SMTT(30)
  <2>9. Len(s.hot) <= HotBound
    <3>1. l <= Cap
      BY <1>4, <1>6, Sizes
    <3> QED
      BY <1>2, <1>9, <2>7, <3>1
  <2>10. Total(s) = Total(r)
    BY <1>2, <1>3, <2>7 DEF Total
  <2> QED
    BY <2>5, <2>6, <2>7, <2>8, <2>9, <2>10 DEF Good, Bounded
<1>7. CASE o > 0 /\ o > x
  <2>1. PICK n \in Nat : n = o - x /\ n <= l
    BY <1>4, <1>7, Sizes
  <2>2. EvictOverCap(r) = DropPlain(r, n)
    <3>1. EvictOverCap(r) = [r EXCEPT !.base = r.base + o, !.cold = <<>>, !.hot = SubSeq(r.hot, o - x + 1, Len(r.hot))]
      BY <1>2, <1>7, <1>8
    <3>2. PICK e, h, t : /\ e = b + o /\ t = SubSeq(r.hot, o - x + 1, Len(r.hot)) /\ h = <<>>
                         /\ EvictOverCap(r) = [r EXCEPT !.base = e, !.cold = h, !.hot = t]
      BY <1>2, <3>1
    <3>3. EvictOverCap(r) = [base |-> e, cold |-> <<>>, hot |-> t, cache |-> r.cache]
      <4>1. PICK u : u = [r EXCEPT !.base = e, !.cold = h]
        OBVIOUS
      <4>2. u = [base |-> e, cold |-> h, hot |-> r.hot, cache |-> r.cache]
        BY <4>1, WithBaseCold
      <4>3. IsRing(u)
        <5>1. u = [base |-> u.base, cold |-> u.cold, hot |-> u.hot, cache |-> u.cache]
          BY <4>2
        <5>2. u.base \in Nat /\ u.cold \in Seq(Seq(Nat)) /\ u.hot \in Seq(Nat)
          BY <1>1, <1>7, <3>2, <4>2
        <5> QED
          BY <5>1, <5>2 DEF IsRing
      <4>4. [u EXCEPT !.hot = t] = [base |-> u.base, cold |-> u.cold, hot |-> t, cache |-> u.cache]
        BY <4>3, WithHot
      <4>5. EvictOverCap(r) = [u EXCEPT !.hot = t]
        BY <3>2, <4>1
      <4> QED
        BY <3>2, <4>2, <4>4, <4>5
    <3>4. e = b + x + n /\ t = SubSeq(r.hot, n + 1, Len(r.hot))
      BY <2>1, <3>2
    <3> QED
      BY <1>2, <3>3, <3>4 DEF DropPlain
  <2>3. PICK s : s = DropPlain(r, n)
    OBVIOUS
  <2>4. /\ IsRing(s) /\ InPlace(s, d) /\ Len(s.hot) = l - n
        /\ s.base = b + x + n /\ Retained(s) = l - n
    <3>1. n <= Len(r.hot)
      BY <1>2, <2>1
    <3>2. /\ IsRing(s) /\ InPlace(s, d) /\ Len(s.hot) = Len(r.hot) - n
          /\ s.base = r.base + Extent(r.cold) + n /\ Retained(s) = Len(r.hot) - n
      BY <2>3, <3>1, DropPlainKeeps
    <3> QED
      BY <1>2, <3>2
  <2>5. Retained(s) = Cap
    BY <1>4, <2>1, <2>4, Sizes, SMTT(30)
  <2>6. Len(s.hot) <= HotBound
    <3>1. l - n = Cap /\ l - n <= l
      BY <1>4, <2>1, Sizes
    <3> QED
      BY <1>9, <2>4, <3>1
  <2>7. Total(s) = Total(r)
    <3>1. b + x + n + (l - n) = b + (x + l)
      OBVIOUS
    <3>2. Total(s) = b + x + n + (l - n) /\ Total(r) = b + (x + l)
      BY <1>2, <1>3, <2>4, Zenon DEF Total
    <3> QED
      BY <3>1, <3>2
  <2> QED
    BY <2>2, <2>3, <2>4, <2>5, <2>6, <2>7, Sizes DEF Good, Bounded
<1> QED
  BY <1>4, <1>5, <1>6, <1>7

----------------------------------------------------------------------------
(* push.                                                                   *)

\* Bytes that follow those in the ring.
Next_(r, d, data) ==
    /\ data \in Seq(Nat)
    /\ \A j \in 1..Len(data) : data[j] = d + Total(r) + j

LEMMA TotalType ==
    ASSUME NEW r, IsRing(r)
    PROVE  /\ r.base \in Nat /\ Extent(r.cold) \in Nat /\ Len(r.hot) \in Nat
           /\ Retained(r) = Extent(r.cold) + Len(r.hot)
           /\ Retained(r) \in Nat /\ Total(r) \in Nat /\ Total(r) = r.base + Retained(r)
<1>1. r.base \in Nat /\ Extent(r.cold) \in Nat /\ Len(r.hot) \in Nat
  BY ExtentIsSpan DEF IsRing
<1> QED
  BY <1>1 DEF Retained, Total

HotIs(r, h) == [base |-> r.base, cold |-> r.cold, hot |-> h, cache |-> r.cache]

\* A write that fits is appended to the plain bytes.
LEMMA AppendKeeps ==
    ASSUME NEW r, NEW d \in Nat, IsRing(r), InPlace(r, d), NEW data, Next_(r, d, data)
    PROVE  /\ IsRing(HotIs(r, r.hot \o data)) /\ InPlace(HotIs(r, r.hot \o data), d)
           /\ HotIs(r, r.hot \o data).base = r.base
           /\ Retained(HotIs(r, r.hot \o data)) = Retained(r) + Len(data)
           /\ Len(HotIs(r, r.hot \o data).hot) = Len(r.hot) + Len(data)
<1>1. PICK s : s = HotIs(r, r.hot \o data)
  OBVIOUS
<1>2. r.base \in Nat /\ r.cold \in Seq(Seq(Nat)) /\ r.hot \in Seq(Nat) /\ data \in Seq(Nat)
  BY DEF IsRing, Next_
<1>3. PICK l \in Nat, n \in Nat, x \in Nat, b \in Nat :
          l = Len(r.hot) /\ n = Len(data) /\ x = Extent(r.cold) /\ b = r.base
  BY <1>2, ExtentIsSpan
<1>4. /\ s.base = b /\ s.cold = r.cold /\ s.hot = r.hot \o data
      /\ s = [base |-> s.base, cold |-> s.cold, hot |-> s.hot, cache |-> s.cache]
  BY <1>1, <1>3 DEF HotIs
<1>5. /\ s.hot \in Seq(Nat) /\ Len(s.hot) = l + n
      /\ \A i \in 1..l : s.hot[i] = r.hot[i]
      /\ \A i \in 1..n : s.hot[l + i] = data[i]
      /\ \A i \in 1..l + n : i \in 1..l \/ \E m \in 1..n : i = l + m
  <2>1. /\ r.hot \o data \in Seq(Nat) /\ Len(r.hot \o data) = Len(r.hot) + Len(data)
        /\ \A i \in 1..Len(r.hot) : (r.hot \o data)[i] = r.hot[i]
        /\ \A i \in 1..Len(data) : (r.hot \o data)[Len(r.hot) + i] = data[i]
        /\ \A i \in 1..Len(r.hot) + Len(data) :
                i \in 1..Len(r.hot) \/ \E m \in 1..Len(data) : i = Len(r.hot) + m
    BY <1>2, Both, SMTT(30)
  <2> QED
    BY <1>3, <1>4, <2>1
<1>6. IsRing(s)
  BY <1>2, <1>3, <1>4, <1>5 DEF IsRing
<1>7. Retained(s) = x + (l + n) /\ Retained(r) = x + l /\ Total(r) = b + (x + l)
  BY <1>3, <1>4, <1>5 DEF Retained, Total
<1>8. ASSUME NEW j \in 1..Len(s.hot) PROVE s.hot[j] = d + s.base + Extent(s.cold) + j
  <2>1. CASE j \in 1..l
    <3>1. r.hot[j] = d + r.base + Extent(r.cold) + j
      BY <1>3, <2>1 DEF InPlace
    <3> QED
      BY <1>3, <1>4, <1>5, <2>1, <3>1
  <2>2. ASSUME NEW m \in 1..n, j = l + m PROVE s.hot[j] = d + s.base + Extent(s.cold) + j
    <3>1. s.hot[j] = d + (b + (x + l)) + m
      BY <1>3, <1>5, <1>7, <2>2 DEF Next_
    <3>2. d + (b + (x + l)) + m = d + b + x + (l + m)
      OBVIOUS
    <3> QED
      BY <1>3, <1>4, <2>2, <3>1, <3>2
  <2> QED
    BY <1>5, <2>1, <2>2
<1>9. InPlace(s, d)
  <2>1. \A i \in 1..Len(s.cold) : ChunkInPlace(s, d, i)
    BY <1>3, <1>4 DEF InPlace, ChunkInPlace
  <2> QED
    BY <1>8, <2>1 DEF InPlace
<1>10. Retained(s) = Retained(r) + Len(data) /\ Len(s.hot) = Len(r.hot) + Len(data)
  <2>1. Retained(s) = (x + l) + n
    BY <1>7
  <2> QED
    BY <1>3, <1>5, <1>7, <2>1, Zenon
<1> QED
  BY <1>1, <1>3, <1>4, <1>6, <1>9, <1>10

Refilled(r, data, n) ==
    [base |-> r.base + Retained(r) + n, cold |-> <<>>,
     hot |-> SubSeq(data, n + 1, Len(data)), cache |-> r.cache]

\* A write that does not fit takes the whole ring, with its tail.
LEMMA RefillKeeps ==
    ASSUME NEW r, NEW d \in Nat, IsRing(r), NEW data, Next_(r, d, data),
           NEW n \in Nat, n <= Len(data)
    PROVE  /\ IsRing(Refilled(r, data, n)) /\ InPlace(Refilled(r, data, n), d)
           /\ Refilled(r, data, n).base = Total(r) + n
           /\ Retained(Refilled(r, data, n)) = Len(data) - n
           /\ Len(Refilled(r, data, n).hot) = Len(data) - n
<1>1. PICK s : s = Refilled(r, data, n)
  OBVIOUS
<1>2. PICK t \in Nat : t = Total(r) /\ t = r.base + Retained(r)
  BY TotalType
<1>3. data \in Seq(Nat) /\ \A j \in 1..Len(data) : data[j] = d + t + j
  BY <1>2 DEF Next_
<1>4. PICK l \in Nat : l = Len(data) /\ n <= l
  BY <1>3
<1>5. /\ s.base = t + n /\ s.cold = <<>> /\ s.hot = SubSeq(data, n + 1, Len(data))
      /\ s = [base |-> s.base, cold |-> s.cold, hot |-> s.hot, cache |-> s.cache]
  BY <1>1, <1>2 DEF Refilled
<1>6. /\ s.hot \in Seq(Nat) /\ Len(s.hot) = l - n
      /\ \A j \in 1..l - n : s.hot[j] = data[n + j]
  <2>1. /\ SubSeq(data, n + 1, Len(data)) \in Seq(Nat)
        /\ Len(SubSeq(data, n + 1, Len(data))) = Len(data) - n
        /\ \A j \in 1..Len(data) - n : SubSeq(data, n + 1, Len(data))[j] = data[n + j]
    <3>1. PICK m \in Int : m = Len(data)
      BY <1>4
    <3>2. n <= m /\ m <= Len(data)
      BY <1>4, <3>1
    <3> QED
      BY <1>3, <3>1, <3>2, Slice
  <2> QED
    BY <1>4, <1>5, <2>1
<1>7. s.cold \in Seq(Seq(Nat)) /\ Len(s.cold) = 0 /\ Extent(s.cold) = 0
  <2>1. s.cold \in Seq(Seq(Nat)) /\ Len(s.cold) = 0
    BY <1>5
  <2> QED
    BY <2>1, ExtentIsSpan, SpanOfOne
<1>8. IsRing(s)
  BY <1>5, <1>6, <1>7, SMTT(30) DEF IsRing
<1>9. Retained(s) = l - n
  BY <1>6, <1>7 DEF Retained
<1>10. ASSUME NEW j \in 1..Len(s.hot) PROVE s.hot[j] = d + s.base + Extent(s.cold) + j
  <2>1. j \in 1..l - n /\ n + j \in 1..Len(data)
    BY <1>4, <1>6
  <2>2. s.hot[j] = d + t + (n + j)
    BY <1>3, <1>6, <2>1
  <2>3. d + t + (n + j) = d + (t + n) + 0 + j
    BY <2>1
  <2> QED
    BY <1>5, <1>7, <2>2, <2>3
<1>11. InPlace(s, d)
  BY <1>7, <1>10 DEF InPlace
<1> QED
  BY <1>1, <1>2, <1>4, <1>5, <1>6, <1>8, <1>9, <1>11

\* After a push the ring is in order again, and longer by what was pushed.
LEMMA PushInnerKeeps ==
    ASSUME NEW r, NEW d \in Nat, Good(r, d), NEW data, Next_(r, d, data)
    PROVE  /\ Good(PushInner(r, data), d)
           /\ Total(PushInner(r, data)) = Total(r) + Len(data)
<1>1. IsRing(r) /\ InPlace(r, d) /\ Slack(r)
  BY DEF Good, Bounded, Slack
<1>2. PICK n \in Nat : n = Len(data)
  BY DEF Next_
<1>3. PICK t \in Nat : t = Total(r)
  BY <1>1, TotalType
<1>4. CASE n >= Cap
  <2>1. PICK k \in Nat : k = n - Cap /\ k <= Len(data)
    <3>1. n - Cap \in Nat /\ n - Cap <= n
      BY <1>4, Sizes
    <3> QED
      BY <1>2, <3>1
  <2>2. PICK s : s = Refilled(r, data, k)
    OBVIOUS
  <2>3. PushInner(r, data) = Compact(s)
    <3>1. PushInner(r, data) = Compact([r EXCEPT !.base = r.base + Retained(r) + k, !.cold = <<>>,
                                                 !.hot = SubSeq(data, k + 1, Len(data))])
      BY <1>2, <1>4, <2>1, Zenon DEF PushInner
    <3>2. PICK b, c, h : b = r.base + Retained(r) + k /\ c = <<>> /\ h = SubSeq(data, k + 1, Len(data))
      OBVIOUS
    <3>3. PICK u : u = [r EXCEPT !.base = b, !.cold = c]
      OBVIOUS
    <3>4. u = [base |-> b, cold |-> c, hot |-> r.hot, cache |-> r.cache]
      BY <1>1, <3>3, WithBaseCold
    <3>5. IsRing(u)
      <4>1. u = [base |-> u.base, cold |-> u.cold, hot |-> u.hot, cache |-> u.cache]
        BY <3>4
      <4>2. b \in Nat /\ c \in Seq(Seq(Nat)) /\ r.hot \in Seq(Nat)
        <5>1. r.base \in Nat /\ Retained(r) \in Nat
          BY <1>1, TotalType
        <5> QED
          BY <1>1, <3>2, <5>1 DEF IsRing
      <4> QED
        BY <3>4, <4>1, <4>2 DEF IsRing
    <3>6. [u EXCEPT !.hot = h] = [base |-> u.base, cold |-> u.cold, hot |-> h, cache |-> u.cache]
      BY <3>5, WithHot
    <3>7. PushInner(r, data) = Compact([u EXCEPT !.hot = h])
      BY <3>1, <3>2, <3>3
    <3>8. s = [base |-> u.base, cold |-> u.cold, hot |-> h, cache |-> u.cache]
      BY <2>2, <3>2, <3>4 DEF Refilled
    <3> QED
      BY <3>6, <3>7, <3>8, Zenon
  <2>4. /\ IsRing(s) /\ InPlace(s, d) /\ s.base = t + k
        /\ Retained(s) = n - k /\ Len(s.hot) = n - k
    <3>1. /\ IsRing(s) /\ InPlace(s, d) /\ s.base = Total(r) + k
          /\ Retained(s) = Len(data) - k /\ Len(s.hot) = Len(data) - k
      BY <1>1, <2>1, <2>2, RefillKeeps
    <3> QED
      BY <1>2, <1>3, <3>1
  <2>5. PICK q : q = Compact(s)
    OBVIOUS
  <2>6. /\ IsRing(q) /\ InPlace(q, d) /\ q.base = s.base /\ Retained(q) = Retained(s)
        /\ Len(q.hot) <= Len(s.hot) /\ (Cap > 2 * HotMax => Len(q.hot) <= HotMax)
    BY <2>4, <2>5, CompactKeeps
  <2>7. Retained(q) = Cap /\ Len(q.hot) <= HotBound
    <3>1. n - k = Cap
      BY <2>1, Sizes
    <3> QED
      BY <2>4, <2>6, <3>1, Sizes DEF HotBound
  <2>8. Total(q) = t + n
    <3>1. t + k + (n - k) = t + n
      OBVIOUS
    <3> QED
      BY <2>4, <2>6, <3>1, Zenon DEF Total
  <2> QED
    BY <1>2, <1>3, <2>3, <2>5, <2>6, <2>7, <2>8, Sizes DEF Good, Bounded
<1>5. CASE ~(n >= Cap)
  <2>1. PICK s : s = HotIs(r, r.hot \o data)
    OBVIOUS
  <2>2. PushInner(r, data) = EvictOverCap(Compact(s))
    <3>1. PushInner(r, data) = EvictOverCap(Compact([r EXCEPT !.hot = r.hot \o data]))
      BY <1>2, <1>5, Zenon DEF PushInner
    <3>2. [r EXCEPT !.hot = r.hot \o data] = s
      BY <1>1, <2>1, WithHot, Zenon DEF HotIs
    <3> QED
      BY <3>1, <3>2
  <2>3. /\ IsRing(s) /\ InPlace(s, d) /\ s.base = r.base /\ Retained(s) = Retained(r) + n
    BY <1>1, <1>2, <2>1, AppendKeeps
  <2>4. PICK q : q = Compact(s)
    OBVIOUS
  <2>5. /\ IsRing(q) /\ InPlace(q, d) /\ q.base = s.base /\ Retained(q) = Retained(s)
        /\ (Cap > 2 * HotMax => Len(q.hot) <= HotMax)
    BY <2>3, <2>4, CompactKeeps
  <2>6. PICK b \in Nat, x \in Nat : b = r.base /\ x = Retained(r) /\ t = b + x
    BY <1>1, <1>3, TotalType
  <2>7. q.base = b /\ Retained(q) = x + n
    BY <2>3, <2>5, <2>6
  <2>8. Slack(q)
    <3>1. b > 0 => x > Cap - ChunkRaw
      BY <1>1, <2>6 DEF Slack
    <3>2. b > 0 => x + n > Cap - ChunkRaw
      BY <3>1, Sizes
    <3> QED
      BY <2>7, <3>2 DEF Slack
  <2>9. Len(q.hot) <= HotBound \/ Cap <= 2 * HotMax
    BY <2>5, Sizes DEF HotBound
  <2>10. Good(EvictOverCap(q), d) /\ Total(EvictOverCap(q)) = Total(q)
    BY <2>5, <2>8, <2>9, EvictKeeps
  <2>11. Total(q) = t + n
    <3>1. b + (x + n) = (b + x) + n
      OBVIOUS
    <3> QED
      BY <2>6, <2>7, <3>1, Zenon DEF Total
  <2> QED
    BY <1>2, <1>3, <2>2, <2>4, <2>10, <2>11
<1> QED
  BY <1>4, <1>5

\* The cached frame makes no difference.
LEMMA CacheIsExtra ==
    ASSUME NEW r, NEW d \in Nat, Good(r, d), NEW f
    PROVE  Good([r EXCEPT !.cache = f], d) /\ Total([r EXCEPT !.cache = f]) = Total(r)
<1>1. PICK s : s = [r EXCEPT !.cache = f]
  OBVIOUS
<1>2. s = [base |-> r.base, cold |-> r.cold, hot |-> r.hot, cache |-> f]
  BY <1>1, WithCache DEF Good
<1>3. s.base = r.base /\ s.cold = r.cold /\ s.hot = r.hot
      /\ s = [base |-> s.base, cold |-> s.cold, hot |-> s.hot, cache |-> s.cache]
  BY <1>2
<1>4. IsRing(s)
  BY <1>3 DEF Good, IsRing
<1>5. InPlace(s, d)
  BY <1>3 DEF Good, InPlace, ChunkInPlace
<1>6. Retained(s) = Retained(r) /\ Total(s) = Total(r)
  BY <1>3 DEF Retained, Total
<1>7. Bounded(s)
  BY <1>3, <1>6 DEF Good, Bounded
<1> QED
  BY <1>1, <1>4, <1>5, <1>6, <1>7 DEF Good

LEMMA PushKeeps ==
    ASSUME NEW r, NEW d \in Nat, Good(r, d), NEW data, Next_(r, d, data), NEW viewers
    PROVE  /\ Good(Push(r, data, viewers), d)
           /\ Total(Push(r, data, viewers)) = Total(r) + Len(data)
<1>1. PICK s : s = PushInner(r, data)
  OBVIOUS
<1>2. Good(s, d) /\ Total(s) = Total(r) + Len(data)
  BY <1>1, PushInnerKeeps
<1>3. Push(r, data, viewers) = s \/ Push(r, data, viewers) = [s EXCEPT !.cache = NoFrame]
  BY <1>1 DEF Push
<1>4. Good([s EXCEPT !.cache = NoFrame], d) /\ Total([s EXCEPT !.cache = NoFrame]) = Total(s)
  BY <1>2, CacheIsExtra
<1> QED
  BY <1>2, <1>3, <1>4, Zenon

LEMMA StoreKeeps ==
    ASSUME NEW r, NEW d \in Nat, Good(r, d), NEW f
    PROVE  Good(StoreFrame(r, f), d) /\ Total(StoreFrame(r, f)) = Total(r)
BY CacheIsExtra DEF StoreFrame

LEMMA NewIsGood ==
    ASSUME NEW d \in Nat
    PROVE  Good(NewRing, d) /\ Total(NewRing) = 0
<1>1. /\ NewRing.base = 0 /\ NewRing.cold = <<>> /\ NewRing.hot = <<>>
      /\ IsRing(NewRing)
  BY DEF NewRing, IsRing
<1>2. Len(NewRing.cold) = 0 /\ Len(NewRing.hot) = 0 /\ Extent(NewRing.cold) = 0
  <2>1. Len(NewRing.cold) = 0 /\ Len(NewRing.hot) = 0
    BY <1>1
  <2>2. Extent(NewRing.cold) = Span(Len(NewRing.cold))
    BY <1>1, ExtentIsSpan DEF IsRing
  <2> QED
    BY <2>1, <2>2, SpanOfOne
<1>3. InPlace(NewRing, d)
  BY <1>2 DEF InPlace
<1>4. Retained(NewRing) = 0 /\ Total(NewRing) = 0
  BY <1>1, <1>2 DEF Retained, Total
<1>5. Bounded(NewRing)
  BY <1>1, <1>2, <1>4, Sizes DEF Bounded, HotBound
<1> QED
  BY <1>1, <1>3, <1>4, <1>5 DEF Good

----------------------------------------------------------------------------
(* since.                                                                  *)

LEMMA Division ==
    ASSUME NEW i \in Nat
    PROVE  /\ i \div ChunkRaw \in Nat /\ i % ChunkRaw \in 0..ChunkRaw - 1
           /\ i = Span(i \div ChunkRaw) + (i % ChunkRaw)
<1>1. ChunkRaw \in Nat \ {0}
  BY Sizes
<1>2. /\ i \div ChunkRaw \in Int /\ i % ChunkRaw \in 0..ChunkRaw - 1
      /\ i = ChunkRaw * (i \div ChunkRaw) + (i % ChunkRaw)
  BY <1>1
<1>3. PICK q \in Int, m \in 0..ChunkRaw - 1 : q = i \div ChunkRaw /\ m = i % ChunkRaw /\ i = ChunkRaw * q + m
  BY <1>2
<1>4. q \in Nat
  <2> SUFFICES ASSUME q <= -1 PROVE FALSE
    OBVIOUS
  <2>1. ChunkRaw * (q + 1) <= 0
    BY Sizes
  <2>2. ChunkRaw * (q + 1) = ChunkRaw * q + ChunkRaw
    BY Sizes
  <2> QED
    BY <1>3, <2>1, <2>2, Sizes
<1>5. ChunkRaw * q = Span(q)
  BY <1>3, Sizes DEF Span
<1> QED
  BY <1>3, <1>4, <1>5

ByteAt(cold, f, i) == cold[f + (i - 1) \div ChunkRaw + 1][((i - 1) % ChunkRaw) + 1]

\* What n bytes into the chunks after the f-th belongs to one of them.
LEMMA ByteOfChunk ==
    ASSUME NEW r, NEW d \in Nat, IsRing(r), InPlace(r, d),
           NEW f \in Nat, NEW c \in Nat, c = Len(r.cold), f <= c,
           NEW i \in 1..Span(c - f)
    PROVE  ByteAt(r.cold, f, i) = d + r.base + Span(f) + i
<1>0. c - f \in Int /\ c - f \in Nat
  OBVIOUS
<1>1. PICK n \in Nat : n = Span(c - f) /\ i \in 1..n
  BY <1>0, SpanType
<1>12. i \in Nat /\ i - 1 \in Nat /\ i - 1 < n
  BY <1>1
<1>2. PICK q \in Nat, m \in 0..ChunkRaw - 1 :
          /\ q = (i - 1) \div ChunkRaw /\ m = (i - 1) % ChunkRaw /\ i - 1 = Span(q) + m
  BY <1>12, Division
<1>3. Span(q) \in Nat /\ Span(q) < n
  <2>1. Span(q) \in Nat
    BY SpanType
  <2> QED
    BY <1>2, <1>12, <2>1, Sizes
<1>4. ~(c - f <= q)
  <2>1. q \in Int
    OBVIOUS
  <2>2. ~(Span(c - f) <= Span(q))
    BY <1>1, <1>3
  <2> QED
    BY <1>0, <2>1, <2>2, SpanGrows
<1>5. PICK k \in Nat : k = f + q + 1 /\ k \in 1..Len(r.cold) /\ k - 1 = f + q
  BY <1>0, <1>4
<1>6. m + 1 \in 1..ChunkRaw
  BY Sizes
<1>7. r.cold[k][m + 1] = d + r.base + Span(k - 1) + (m + 1)
  BY <1>5, <1>6 DEF InPlace, ChunkInPlace
<1>8. PICK x \in Nat, y \in Nat : x = Span(f) /\ y = Span(q) /\ Span(k - 1) = x + y
  <2>1. f \in Int /\ q \in Int
    OBVIOUS
  <2>2. Span(f + q) = Span(f) + Span(q)
    BY <2>1, SpanAdds
  <2> QED
    BY <1>5, <2>2, SpanType
<1>9. PICK b \in Nat : b = r.base
  BY DEF IsRing
<1>10. d + b + (x + y) + (m + 1) = d + b + x + i
  <2>1. i = y + m + 1 /\ m \in Int
    BY <1>2, <1>8, <1>12, Sizes
  <2> QED
    BY <2>1
<1>11. r.cold[f + q + 1][m + 1] = d + b + x + i
  BY <1>5, <1>7, <1>8, <1>9, <1>10
<1> QED
  BY <1>2, <1>8, <1>9, <1>11 DEF ByteAt

LEMMA InflatedIs ==
    ASSUME NEW r, NEW d \in Nat, IsRing(r), InPlace(r, d),
           NEW f \in Nat, NEW c \in Nat, c = Len(r.cold), f <= c
    PROVE  /\ Inflated(r.cold, f) \in Seq(Nat) /\ Len(Inflated(r.cold, f)) = Span(c - f)
           /\ \A i \in 1..Span(c - f) : Inflated(r.cold, f)[i] = d + r.base + Span(f) + i
<1>1. PICK n \in Nat : n = Span(c - f) /\ n = ChunkRaw * (Len(r.cold) - f)
  <2>1. c - f \in Nat
    OBVIOUS
  <2>2. Span(c - f) = ChunkRaw * (c - f)
    BY <2>1, Sizes DEF Span
  <2> QED
    BY <2>1, <2>2, SpanType
<1>2. PICK raw : raw = Inflated(r.cold, f)
  OBVIOUS
<1>3. raw = [i \in 1..n |-> ByteAt(r.cold, f, i)]
  BY <1>1, <1>2 DEF Inflated, ByteAt
<1>4. PICK b \in Nat, x \in Nat : b = r.base /\ x = Span(f)
  BY SpanType DEF IsRing
<1>5. ASSUME NEW i \in 1..n PROVE raw[i] = d + b + x + i /\ raw[i] \in Nat
  <2>1. ByteAt(r.cold, f, i) = d + r.base + Span(f) + i
    BY <1>1, ByteOfChunk
  <2>2. raw[i] = d + b + x + i
    BY <1>3, <1>4, <2>1
  <2> QED
    BY <2>2
<1>6. raw \in [1..n -> Nat]
  BY <1>3, <1>5, Zenon
<1>7. raw \in Seq(Nat) /\ Len(raw) = n
  BY <1>6, FunctionIsSeq
<1> QED
  BY <1>1, <1>2, <1>4, <1>5, <1>7

LEMMA IsTail ==
    ASSUME NEW k \in Nat, NEW n \in Nat, NEW q \in Seq(Nat), Len(q) = k,
           \A i \in 1..k : q[i] = n - k + i
    PROVE  q = Tail_(k, n)
<1>1. q = [i \in 1..Len(q) |-> q[i]]
  OBVIOUS
<1>2. q = [i \in 1..k |-> n - k + i]
  BY <1>1, Zenon
<1> QED
  BY <1>2 DEF Tail_

\* How many bytes are owed for an offset.
Owed(r, offset) ==
    IF Total(r) - offset < 0 THEN 0
    ELSE IF Total(r) - offset > Retained(r) THEN Retained(r) ELSE Total(r) - offset

\* From `at` bytes after the oldest on, where the plain bytes are.
PlainFrom(r, at) == SubSeq(r.hot, at - Extent(r.cold) + 1, Len(r.hot))
\* ... and where the chunks are.
ChunksFrom(r, at) == LET raw == Inflated(r.cold, at \div ChunkRaw)
                     IN  SubSeq(raw, (at % ChunkRaw) + 1, Len(raw)) \o r.hot

\* The three parts of what was ever pushed.
LEMMA Parts ==
    ASSUME NEW r, IsRing(r)
    PROVE  \E b \in Nat, e \in Nat, h \in Nat :
              /\ b = r.base /\ e = Extent(r.cold) /\ h = Len(r.hot)
              /\ Retained(r) = e + h /\ Total(r) = b + e + h
<1>1. PICK b \in Nat : b = r.base
  BY TotalType
<1>2. PICK e \in Nat : e = Extent(r.cold)
  BY TotalType
<1>3. PICK h \in Nat : h = Len(r.hot)
  BY TotalType
<1>4. Retained(r) = e + h /\ Total(r) = b + e + h
  <2>1. Retained(r) = e + h
    BY <1>2, <1>3 DEF Retained
  <2> QED
    BY <1>1, <2>1 DEF Total
<1> QED
  BY <1>1, <1>2, <1>3, <1>4, Zenon

LEMMA PlainFromIs ==
    ASSUME NEW r, NEW d \in Nat, IsRing(r), InPlace(r, d),
           NEW at \in Nat, Extent(r.cold) <= at, at <= Retained(r)
    PROVE  PlainFrom(r, at) = Tail_(Retained(r) - at, d + Total(r))
<1>1. PICK b \in Nat, e \in Nat, h \in Nat :
          /\ b = r.base /\ e = Extent(r.cold) /\ h = Len(r.hot)
          /\ Retained(r) = e + h /\ Total(r) = b + e + h
  BY Parts, Zenon
<1>2. PICK hot : hot = r.hot /\ hot \in Seq(Nat) /\ Len(hot) = h
  BY <1>1 DEF IsRing
<1>3. \A j \in 1..h : hot[j] = d + b + e + j
  BY <1>1, <1>2 DEF InPlace
<1>4. PICK lo \in Nat : lo = at - e /\ lo <= h
  BY <1>1, SMTT(30)
<1>5. PICK q : q = SubSeq(hot, lo + 1, h)
  OBVIOUS
<1>6. /\ q \in Seq(Nat) /\ Len(q) = h - lo
      /\ \A j \in 1..h - lo : q[j] = hot[lo + j]
  BY <1>2, <1>4, <1>5, Slice
<1>7. PICK k \in Nat, n \in Nat : k = h - lo /\ n = d + (b + e + h)
  BY <1>4
<1>8. ASSUME NEW i \in 1..k PROVE q[i] = n - k + i
  <2>1. lo + i \in 1..h /\ d + b + e + (lo + i) = n - k + i
    BY <1>4, <1>7
  <2>2. q[i] = hot[lo + i]
    BY <1>6, <1>7
  <2> QED
    BY <1>3, <2>1, <2>2
<1>9. q = Tail_(k, n)
  BY <1>6, <1>7, <1>8, IsTail
<1>10. k = Retained(r) - at /\ n = d + Total(r)
  BY <1>1, <1>4, <1>7, SMTT(30)
<1>11. PlainFrom(r, at) = q
  BY <1>1, <1>2, <1>4, <1>5 DEF PlainFrom
<1> QED
  BY <1>9, <1>10, <1>11

LEMMA ChunksFromIs ==
    ASSUME NEW r, NEW d \in Nat, IsRing(r), InPlace(r, d),
           NEW at \in Nat, at < Extent(r.cold)
    PROVE  ChunksFrom(r, at) = Tail_(Retained(r) - at, d + Total(r))
<1>1. PICK b \in Nat, e \in Nat, h \in Nat :
          /\ b = r.base /\ e = Extent(r.cold) /\ h = Len(r.hot)
          /\ Retained(r) = e + h /\ Total(r) = b + e + h
  BY Parts, Zenon
<1>2. PICK hot : hot = r.hot /\ hot \in Seq(Nat) /\ Len(hot) = h
  BY <1>1 DEF IsRing
<1>3. \A j \in 1..h : hot[j] = d + b + e + j
  BY <1>1, <1>2 DEF InPlace
<1>4. PICK c \in Nat : c = Len(r.cold) /\ e = Span(c)
  <2>1. r.cold \in Seq(Seq(Nat))
    BY DEF IsRing
  <2>2. Len(r.cold) \in Nat /\ Extent(r.cold) = Span(Len(r.cold))
    BY <2>1, ExtentIsSpan
  <2> QED
    BY <1>1, <2>2
<1>5. PICK f \in Nat, m \in 0..ChunkRaw - 1 :
          f = at \div ChunkRaw /\ m = at % ChunkRaw /\ at = Span(f) + m
  BY Division
<1>6. PICK x \in Nat : x = Span(f) /\ at = x + m /\ m \in Nat
  BY <1>5, SpanType, Sizes
<1>7. f < c
  <2>1. f \in Int /\ c \in Int
    OBVIOUS
  <2>2. ~(Span(c) <= Span(f))
    BY <1>1, <1>4, <1>6
  <2> QED
    BY <2>1, <2>2, SpanGrows
<1>8. PICK n \in Nat : n = Span(c - f) /\ n = e - x
  <2>1. f \in Int /\ c \in Int /\ c - f \in Nat
    BY <1>7
  <2>2. Span(c - f) = Span(c) - Span(f) /\ Span(c - f) \in Nat
    BY <2>1, SpanAdds, SpanType
  <2> QED
    BY <2>2, <1>4, <1>6
<1>9. m <= n /\ at <= e /\ n \in Int
  <2>1. at < e
    BY <1>1
  <2> QED
    BY <2>1, <1>6, <1>8
<1>10. PICK raw : raw = Inflated(r.cold, f)
  OBVIOUS
<1>11. raw \in Seq(Nat) /\ Len(raw) = n /\ \A i \in 1..n : raw[i] = d + b + x + i
  <2>1. f <= c
    BY <1>7
  <2>2. /\ Inflated(r.cold, f) \in Seq(Nat) /\ Len(Inflated(r.cold, f)) = Span(c - f)
        /\ \A i \in 1..Span(c - f) : Inflated(r.cold, f)[i] = d + r.base + Span(f) + i
    BY <1>4, <2>1, InflatedIs, SMTT(60)
  <2> QED
    BY <1>1, <1>6, <1>8, <1>10, <2>2
<1>12. PICK q : q = SubSeq(raw, m + 1, n)
  OBVIOUS
<1>13. /\ q \in Seq(Nat) /\ Len(q) = n - m
       /\ \A j \in 1..n - m : q[j] = raw[m + j]
  <2>1. n <= Len(raw) /\ m \in Nat /\ n \in Int /\ m <= n
    BY <1>6, <1>9, <1>11
  <2>2. /\ SubSeq(raw, m + 1, n) \in Seq(Nat) /\ Len(SubSeq(raw, m + 1, n)) = n - m
        /\ \A j \in 1..n - m : SubSeq(raw, m + 1, n)[j] = raw[m + j]
    BY <1>11, <2>1, SliceOfBytes
  <2> QED
    BY <1>12, <2>2, Zenon
<1>14. PICK l \in Nat : l = n - m
  BY <1>6, <1>9
<1>15. ASSUME NEW j \in 1..l PROVE q[j] = d + b + at + j
  <2>1. m + j \in 1..n /\ d + b + x + (m + j) = d + b + at + j
    BY <1>6, <1>14
  <2>2. q[j] = raw[m + j]
    BY <1>13, <1>14
  <2> QED
    BY <1>11, <2>1, <2>2
<1>16. PICK s : s = q \o hot
  OBVIOUS
<1>17. /\ s \in Seq(Nat) /\ Len(s) = l + h
       /\ \A i \in 1..l : s[i] = q[i]
       /\ \A i \in 1..h : s[l + i] = hot[i]
       /\ \A i \in 1..l + h : i \in 1..l \/ \E j \in 1..h : i = l + j
  <2>1. q \in Seq(Nat) /\ hot \in Seq(Nat) /\ Len(q) = l /\ Len(hot) = h
    BY <1>2, <1>13, <1>14
  <2>2. /\ q \o hot \in Seq(Nat) /\ Len(q \o hot) = Len(q) + Len(hot)
        /\ \A i \in 1..Len(q) : (q \o hot)[i] = q[i]
        /\ \A i \in 1..Len(hot) : (q \o hot)[Len(q) + i] = hot[i]
        /\ \A i \in 1..Len(q) + Len(hot) :
            i \in 1..Len(q) \/ \E j \in 1..Len(hot) : i = Len(q) + j
    BY <2>1, Both, ZenonT(80)
  <2> QED
    BY <1>16, <2>1, <2>2, Zenon
<1>18. PICK k \in Nat, t \in Nat : k = l + h /\ t = d + (b + e + h)
  OBVIOUS
<1>19. l = e - at
  BY <1>6, <1>8, <1>14
<1>20. ASSUME NEW i \in 1..k PROVE s[i] = t - k + i
  <2>1. CASE i \in 1..l
    <3>1. s[i] = d + b + at + i
      BY <2>1, <1>15, <1>17
    <3> QED
      BY <3>1, <1>18, <1>19
  <2>2. ASSUME NEW j \in 1..h, i = l + j PROVE s[i] = t - k + i
    <3>1. s[i] = d + b + e + j
      BY <2>2, <1>3, <1>17
    <3> QED
      BY <2>2, <3>1, <1>18, <1>19
  <2> QED
    BY <1>17, <1>18, <2>1, <2>2
<1>21. s = Tail_(k, t)
  BY <1>17, <1>18, <1>20, IsTail
<1>22. k = Retained(r) - at /\ t = d + Total(r)
  <2>1. (e + h) - at = l + h
    BY <1>19, SMTT(30)
  <2> QED
    BY <1>1, <1>18, <2>1
<1>23. ChunksFrom(r, at) = s
  BY <1>2, <1>5, <1>10, <1>11, <1>12, <1>16 DEF ChunksFrom
<1> QED
  BY <1>21, <1>22, <1>23

LEMMA SinceIsExact ==
    ASSUME NEW r, NEW d \in Nat, IsRing(r), InPlace(r, d), NEW offset \in Nat
    PROVE  Since(r, offset) = Tail_(Owed(r, offset), d + Total(r))
<1>1. PICK b \in Nat, e \in Nat, n \in Nat, t \in Nat :
          /\ b = r.base /\ e = Extent(r.cold) /\ n = Retained(r) /\ t = Total(r)
          /\ t = b + n /\ e <= n
  BY TotalType
<1>2. CASE offset >= t
  <2>1. Since(r, offset) = <<>>
    BY <1>1, <1>2 DEF Since
  <2>2. Owed(r, offset) = 0
    BY <1>1, <1>2 DEF Owed
  <2>3. PICK m \in Nat : m = d + t
    OBVIOUS
  <2>4. <<>> = Tail_(0, m)
    BY DEF Tail_
  <2> QED
    BY <1>1, <2>1, <2>2, <2>3, <2>4, Zenon
<1>3. CASE offset < t
  <2>1. PICK start \in Nat : start = IF offset > b THEN offset ELSE b
    OBVIOUS
  <2>2. PICK at \in Nat : at = start - b /\ at <= n
    BY <1>1, <1>3, <2>1
  <2>3. Owed(r, offset) = n - at
    BY <1>1, <1>3, <2>1, <2>2 DEF Owed
  <2>4. Since(r, offset) = IF start >= b + e THEN PlainFrom(r, at) ELSE ChunksFrom(r, at)
    <3>1. ~(offset >= Total(r))
      BY <1>1, <1>3
    <3>2. start = IF offset > r.base THEN offset ELSE r.base
      BY <1>1, <2>1
    <3> QED
      BY <1>1, <2>2, <3>1, <3>2, Zenon DEF Since, PlainFrom, ChunksFrom
  <2>5. CASE start >= b + e
    <3>1. e <= at
      BY <2>2, <2>5
    <3>2. Extent(r.cold) <= at /\ at <= Retained(r)
      BY <1>1, <2>2, <3>1
    <3>3. PlainFrom(r, at) = Tail_(Retained(r) - at, d + Total(r))
      BY <3>2, PlainFromIs
    <3> QED
      BY <1>1, <2>3, <2>4, <2>5, <3>3
  <2>6. CASE ~(start >= b + e)
    <3>1. at < e
      BY <2>2, <2>6
    <3>2. ChunksFrom(r, at) = Tail_(n - at, d + t)
      BY <1>1, <3>1, ChunksFromIs, ZenonT(80)
    <3> QED
      BY <1>1, <2>3, <2>4, <2>6, <3>2
  <2> QED
    BY <2>5, <2>6
<1> QED
  BY <1>1, <1>2, <1>3

----------------------------------------------------------------------------
(* The tab.                                                                *)

\* What was written before this daemon came is not in its ring.
RingInv ==
    /\ written \in Nat /\ Total(ring) <= written
    /\ Good(ring, written - Total(ring))

LEMMA RingUntouched ==
    ASSUME RingInv, UNCHANGED tab
    PROVE  RingInv'
BY DEF RingInv, tab, Good, IsRing, InPlace, ChunkInPlace, Bounded, Total, Retained

\* What becomes of the ring and of the count, put in terms of values.
LEMMA RingBecomes ==
    ASSUME NEW r, NEW n \in Nat, Total(r) <= n, Good(r, n - Total(r)), ring' = r, written' = n
    PROVE  RingInv'
BY DEF RingInv, Good, IsRing, InPlace, ChunkInPlace, Bounded, Total, Retained

LEMMA OutputKeeps ==
    ASSUME RingInv, NEW n \in 1..MaxBytes, Output(n)
    PROVE  RingInv'
<1>1. PICK t \in Nat, d \in Nat, w \in Nat :
          t = Total(ring) /\ w = written /\ d = w - t /\ w = d + t /\ Good(ring, d)
  <2>1. Total(ring) \in Nat
    BY TotalType DEF RingInv, Good
  <2> QED
    BY <2>1 DEF RingInv
<1>2. n \in Nat
  OBVIOUS
<1>3. PICK data : data = [i \in 1..n |-> w + i]
  OBVIOUS
<1>4. data \in Seq(Nat) /\ Len(data) = n
  <2>1. data \in [1..n -> Nat]
    BY <1>3
  <2> QED
    BY <1>2, <2>1, FunctionIsSeq
<1>5. Next_(ring, d, data)
  <2>1. ASSUME NEW j \in 1..Len(data) PROVE data[j] = d + Total(ring) + j
    BY <1>1, <1>3, <1>4
  <2> QED
    BY <1>4, <2>1 DEF Next_
<1>6. PICK r : r = Push(ring, data, Cardinality(Watching))
  OBVIOUS
<1>7. Good(r, d) /\ Total(r) = t + n
  BY <1>1, <1>4, <1>5, <1>6, PushKeeps, SMTT(30)
<1>8. ring' = r /\ written' = w + n
  BY <1>1, <1>3, <1>6 DEF Output
<1>9. w + n \in Nat /\ Total(r) <= w + n /\ (w + n) - Total(r) = d
  BY <1>1, <1>7
<1>10. Good(r, (w + n) - Total(r))
  BY <1>7, <1>9
<1> QED
  BY <1>8, <1>9, <1>10, RingBecomes

LEMMA EncodeKeeps ==
    ASSUME RingInv, NEW v \in Viewer, Encode(v)
    PROVE  RingInv'
<1>1. PICK d \in Nat, w \in Nat :
          w = written /\ d = w - Total(ring) /\ Total(ring) <= w /\ Good(ring, d)
  <2>1. Total(ring) \in Nat
    BY TotalType DEF RingInv, Good
  <2> QED
    BY <2>1 DEF RingInv
<1>2. PICK r : r = StoreFrame(ring, pump[v].job)
  OBVIOUS
<1>3. Good(r, d) /\ Total(r) = Total(ring)
  BY <1>1, <1>2, StoreKeeps
<1>4. Total(r) <= w /\ Good(r, w - Total(r))
  BY <1>1, <1>3
<1>5. ring' = r /\ written' = w
  BY <1>1, <1>2 DEF Encode
<1> QED
  BY <1>4, <1>5, RingBecomes

LEMMA RebootKeeps ==
    ASSUME RingInv, Reboot
    PROVE  RingInv'
<1>1. written \in Nat
  BY DEF RingInv
<1>2. Good(NewRing, written) /\ Total(NewRing) = 0
  BY <1>1, NewIsGood
<1>3. Total(NewRing) <= written /\ Good(NewRing, written - Total(NewRing))
  BY <1>1, <1>2
<1>4. ring' = NewRing /\ written' = written
  BY DEF Reboot
<1> QED
  BY <1>1, <1>3, <1>4, RingBecomes

LEMMA InitRing == Init => RingInv
<1> SUFFICES ASSUME Init PROVE RingInv
  OBVIOUS
<1>1. Good(NewRing, 0) /\ Total(NewRing) = 0
  BY NewIsGood
<1>2. ring = NewRing /\ written = 0
  BY DEF Init
<1> QED
  BY <1>1, <1>2 DEF RingInv

LEMMA NextRing == RingInv /\ [Next]_vars => RingInv'
<1> SUFFICES ASSUME RingInv, [Next]_vars PROVE RingInv'
  OBVIOUS
<1>1. ASSUME NEW n \in 1..MaxBytes, Output(n) PROVE RingInv'
  BY <1>1, OutputKeeps
<1>2. CASE \/ \E on \in BOOLEAN : Lock(on)
           \/ DrainLock \/ Refresh
  BY <1>2, RingUntouched DEF Lock, DrainLock, Refresh
<1>3. CASE Reboot
  BY <1>3, RebootKeeps
<1>4. ASSUME NEW v \in Viewer, Encode(v) PROVE RingInv'
  BY <1>4, EncodeKeeps
<1>5. ASSUME NEW v \in Viewer, Enter(v) \/ Share(v) \/ Take(v) \/ MetaTick(v) \/ MetaSend(v)
      PROVE  RingInv'
  BY <1>5, RingUntouched DEF Enter, Share, Take, MetaTick, MetaSend
<1>6. ASSUME NEW v \in Viewer, Page(v) \/ Select(v) \/ Lose(v)
      PROVE  RingInv'
  BY <1>6, RingUntouched DEF Page, Connect, Receive, Handle, Deselect, Select, Lose
<1>7. CASE UNCHANGED vars
  BY <1>7, RingUntouched DEF vars
<1> QED
  BY <1>1, <1>2, <1>3, <1>4, <1>5, <1>6, <1>7 DEF Next, Owner, Pump

LEMMA InvIsExact == RingInv => RingIsExact
<1> SUFFICES ASSUME RingInv PROVE RingIsExact
  OBVIOUS
<1>1. PICK b \in Nat, n \in Nat, t \in Nat, d \in Nat :
          /\ b = ring.base /\ n = Retained(ring) /\ t = Total(ring) /\ t = b + n
          /\ written = d + t /\ Good(ring, d)
  <2>1. /\ ring.base \in Nat /\ Retained(ring) \in Nat /\ Total(ring) \in Nat
        /\ Total(ring) = ring.base + Retained(ring)
    BY TotalType DEF RingInv, Good
  <2>2. PICK d \in Nat : d = written - Total(ring) /\ written = d + Total(ring)
    BY <2>1 DEF RingInv
  <2> QED
    BY <2>1, <2>2 DEF RingInv
<1>2. /\ n <= Cap /\ Len(ring.hot) <= HotBound
      /\ n < t => n > Cap - ChunkRaw
  BY <1>1 DEF Good, Bounded
<1>3. ASSUME NEW offset \in 0..Total(ring) + 1
      PROVE  LET owed == Total(ring) - offset
             IN  Since(ring, offset) =
                   Tail_(IF owed < 0 THEN 0 ELSE IF owed > Retained(ring) THEN Retained(ring) ELSE owed, written)
  <2>1. offset \in Nat
    OBVIOUS
  <2>2. Since(ring, offset) = Tail_(Owed(ring, offset), d + Total(ring))
    BY <1>1, <2>1, SinceIsExact DEF Good
  <2>3. d + Total(ring) = written
    BY <1>1
  <2> QED
    BY <2>2, <2>3, Zenon DEF Owed
<1> QED
  BY <1>1, <1>2, <1>3 DEF RingIsExact, HotBound

\* A viewer that asks from any offset on gets the bytes the terminal printed
\* from there, or all the ring has if they have aged out, whatever it has
\* compressed and evicted, and however much is written at once
\* (PtyRing::since over push, compact and evict_over_cap).
THEOREM RingExact == Spec => []RingIsExact
<1>1. Spec => []RingInv
  BY InitRing, NextRing, PTL DEF Spec
<1> QED
  BY <1>1, InvIsExact, PTL

----------------------------------------------------------------------------
(* The connections: what holds of a viewer, put in terms of the values of  *)
(* its pump pm, its wire w and its page p, and of the ring: t bytes went   *)
(* into it, after d that went to others, and it has them from b on.        *)

Flight(pm, w) == w \o IF pm.phase = "encode" THEN <<OutFrame(pm.job)>> ELSE <<>>

\* A frame is up to date, and has all of its range unless some of it is gone.
Sendable(f, d, t, b) ==
    /\ f \in Frame /\ f.from < f.to /\ f.to <= t
    /\ f.bytes # <<>> /\ f.bytes = Tail_(Len(f.bytes), d + f.to)
    /\ f.from >= b => Len(f.bytes) = f.to - f.from

AllSendable(s, d, t, b) == \A i \in Outs(s) : Sendable(s[i].frame, d, t, b)

Gapless(s, d) == \A i \in Outs(s) : s[i].frame.bytes = Tail_(s[i].frame.to - s[i].frame.from, d + s[i].frame.to)

\* The frames that join are in order; what Joins says of neighbours does not
\* tell that without an induction.
Ordered(s, lo, hi) ==
    /\ lo <= hi
    /\ \A i \in Outs(s) : lo <= s[i].frame.from /\ s[i].frame.from < s[i].frame.to /\ s[i].frame.to <= hi
    /\ \A i, j \in Outs(s) : i < j => s[i].frame.to <= s[j].frame.from
Run(s, lo, hi) == Joins(s, lo, hi) /\ Ordered(s, lo, hi)

Typed(pm, w, p) ==
    /\ pm \in Connection /\ w \in Seq(Message) /\ p \in WebPage
    /\ pm.phase = "off" <=> ~p.open
    /\ pm.phase = "encode" <=> pm.job # NoFrame
    /\ w # <<>> => p.open
    /\ p.held # <<>> => p.selecting

\* s is what a connection sends, o its pump's offset.
Sends(s, o, d, t, b) ==
    /\ AllSendable(s, d, t, b)
    /\ Outs(s) # {} => o <= t
    /\ \E lo \in Nat : Run(s, lo, o)

Blank(p) == p.shown = <<>> /\ p.held = <<>>
Previews(s) == {i \in DOMAIN s : s[i].tag = "preview"}

\* The page counts what it has, and a preview comes before any of it.
Counts(pm, w, p) ==
    /\ p.offset = Len(p.shown \o p.held)
    /\ p.preview => Blank(p)
    /\ \A i \in Previews(p.chain) : Blank(p) /\ \A j \in Outs(p.chain) : i < j
    /\ \A i \in Previews(w) : Blank(p) /\ Outs(p.chain) = {} /\ \A j \in Outs(w) : i < j
    /\ pm.phase = "hello" =>
        pm.offset = p.offset /\ p.chain = <<>> /\ Outs(w) = {} /\ Previews(w) = {}

\* It has the text from the first byte on, and what is coming goes on from
\* there.
Shows(s, o, p, d, t) ==
    /\ p.shown \o p.held = Text(p.offset, d, p.cuts)
    /\ p.cuts \subseteq 0..p.offset /\ p.offset \in p.cuts
    /\ \E mid \in Nat : /\ mid <= t /\ Run(p.chain, p.offset, mid)
                        /\ Run(s, mid, IF p.open THEN o ELSE mid)
    /\ p.open => o <= t
    /\ Gapless(p.chain, d) /\ Gapless(s, d)

\* x: the viewer is among the exact ones; y: among the whole ones.
Fine(pm, w, p, x, y, d, t, b) ==
    /\ Typed(pm, w, p)
    /\ Sends(Flight(pm, w), pm.offset, d, t, b)
    /\ x => Counts(pm, w, p)
    /\ x /\ y => Shows(Flight(pm, w), pm.offset, p, d, t)

FineAt(v) == Fine(pump[v], wire[v], page[v], v \in exact, v \in whole, Before, Total(ring), ring.base)

Cached(f, d, t, b) == f = NoFrame \/ Sendable(f, d, t, b)

\* Only a ring that compresses has chunks; one that had bytes has some left.
Stocked(r) == /\ Cap <= 2 * HotMax => r.cold = <<>>
              /\ Total(r) > 0 => Retained(r) > 0

----------------------------------------------------------------------------
(* What is on its way.                                                     *)

LEMMA QueuedIsMessage == \A s \in Seq(Queued) : s \in Seq(Message)
BY DEF Message

LEMMA FrameIsMessage ==
    ASSUME NEW f \in Frame
    PROVE  /\ OutFrame(f) \in Queued /\ OutFrame(f) \in Message
           /\ OutFrame(f).tag = "out" /\ OutFrame(f).frame = f /\ f.to \in Nat /\ f.from \in Nat
<1>1. OutFrame(f) \in [tag : {"out"}, frame : Frame]
  BY DEF OutFrame
<1>2. f.to \in Nat /\ f.from \in Nat
  BY DEF Frame
<1> QED
  BY <1>1, <1>2 DEF Message, Queued, OutFrame

LEMMA OutIs ==
    ASSUME NEW s \in Seq(Message), NEW i \in Outs(s)
    PROVE  /\ i \in 1..Len(s) /\ i \in Nat
           /\ s[i] = OutFrame(s[i].frame) /\ s[i].frame \in Frame
           /\ s[i].frame.from \in Nat /\ s[i].frame.to \in Nat /\ s[i].frame.bytes \in Seq(Nat)
<1>1. i \in 1..Len(s) /\ s[i] \in Message /\ s[i].tag = "out"
  BY DEF Outs
<1>2. s[i] \in [tag : {"out"}, frame : Frame]
  BY <1>1 DEF Message, Queued, Preview
<1>3. s[i].frame \in Frame /\ s[i] = OutFrame(s[i].frame)
  BY <1>2 DEF OutFrame
<1> QED
  BY <1>1, <1>3 DEF Frame

\* A message at the end, and one less at the front.
LEMMA Appended ==
    ASSUME NEW s \in Seq(Message), NEW m \in Message
    PROVE  /\ Append(s, m) \in Seq(Message) /\ Len(Append(s, m)) = Len(s) + 1
           /\ \A i \in 1..Len(s) : Append(s, m)[i] = s[i]
           /\ Append(s, m)[Len(s) + 1] = m
           /\ \A i : i \in Outs(Append(s, m)) <=> i \in Outs(s) \/ (m.tag = "out" /\ i = Len(s) + 1)
           /\ \A i : i \in Previews(Append(s, m)) <=> i \in Previews(s) \/ (m.tag = "preview" /\ i = Len(s) + 1)
<1>1. PICK t : t = Append(s, m)
  OBVIOUS
<1>2. PICK n \in Nat : n = Len(s)
  OBVIOUS
<1>3. /\ t \in Seq(Message) /\ Len(t) = n + 1
      /\ \A i \in 1..n : t[i] = s[i]
      /\ t[n + 1] = m
  BY <1>1, <1>2
<1>4. DOMAIN t = 1..n + 1 /\ DOMAIN s = 1..n
  BY <1>2, <1>3
<1>5. \A i : i \in Outs(t) <=> i \in Outs(s) \/ (m.tag = "out" /\ i = n + 1)
  BY <1>3, <1>4 DEF Outs
<1>6. \A i : i \in Previews(t) <=> i \in Previews(s) \/ (m.tag = "preview" /\ i = n + 1)
  BY <1>3, <1>4 DEF Previews
<1> QED
  BY <1>1, <1>2, <1>3, <1>5, <1>6

LEMMA Behead ==
    ASSUME NEW s \in Seq(Message), s # <<>>
    PROVE  /\ Head(s) = s[1] /\ s[1] \in Message /\ Len(s) \in Nat \ {0}
           /\ Tail(s) \in Seq(Message) /\ Len(Tail(s)) = Len(s) - 1
           /\ \A i \in 1..Len(s) - 1 : Tail(s)[i] = s[i + 1]
           /\ \A i : i \in Outs(Tail(s)) <=> i \in Nat \ {0} /\ i + 1 \in Outs(s)
           /\ \A i : i \in Previews(Tail(s)) <=> i \in Nat \ {0} /\ i + 1 \in Previews(s)
<1>1. PICK t : t = Tail(s)
  OBVIOUS
<1>2. PICK n \in Nat : n = Len(s)
  OBVIOUS
<1>3. /\ n # 0 /\ s[1] \in Message /\ Head(s) = s[1]
      /\ t \in Seq(Message) /\ Len(t) = n - 1
      /\ \A i \in 1..n - 1 : t[i] = s[i + 1]
  BY <1>1, <1>2, HeadTailProperties
<1>4. DOMAIN t = 1..n - 1 /\ DOMAIN s = 1..n
  BY <1>2, <1>3
<1>5. \A i : i \in Outs(t) <=> i \in Nat \ {0} /\ i + 1 \in Outs(s)
  BY <1>3, <1>4 DEF Outs
<1>6. \A i : i \in Previews(t) <=> i \in Nat \ {0} /\ i + 1 \in Previews(s)
  BY <1>3, <1>4 DEF Previews
<1> QED
  BY <1>1, <1>2, <1>3, <1>5, <1>6

LEMMA RunOfNone ==
    ASSUME NEW s, Outs(s) = {}, NEW n \in Nat
    PROVE  Run(s, n, n)
BY DEF Run, Joins, Ordered

\* Of two frames with none between them, the second starts where the first ends.
LEMMA RunJoins ==
    ASSUME NEW s, NEW lo, NEW hi, Run(s, lo, hi), NEW i \in Outs(s), NEW j \in Outs(s), j < i,
           \A k \in Outs(s) : k <= j \/ k >= i
    PROVE  s[i].frame.from = s[j].frame.to
BY DEF Run, Joins

\* A frame that goes on where the run ended makes it longer.
LEMMA RunOut ==
    ASSUME NEW s \in Seq(Message), NEW lo \in Nat, NEW hi \in Nat, Run(s, lo, hi),
           NEW f \in Frame, f.from = hi, hi < f.to
    PROVE  Run(Append(s, OutFrame(f)), lo, f.to)
<1>1. OutFrame(f) \in Message /\ OutFrame(f).tag = "out" /\ OutFrame(f).frame = f /\ f.to \in Nat
  BY DEF Message, Queued, OutFrame, Frame
<1>0. PICK n \in Nat : n = Len(s)
  OBVIOUS
<1>2. PICK t : t = Append(s, OutFrame(f))
  OBVIOUS
<1>3. /\ t \in Seq(Message) /\ Len(t) = n + 1
      /\ \A i \in 1..n : t[i] = s[i]
      /\ t[n + 1].frame = f
      /\ \A i : i \in Outs(t) <=> i \in Outs(s) \/ i = n + 1
  BY <1>0, <1>1, <1>2, Appended
<1>4. \A i \in Outs(s) : i \in 1..n /\ t[i] = s[i] /\ s[i].frame.from \in Nat /\ s[i].frame.to \in Nat
  BY <1>0, <1>2, <1>3, OutIs
<1>5. Ordered(t, lo, f.to)
  <2>1. lo <= f.to
    BY <1>1 DEF Run, Ordered
  <2>2. ASSUME NEW i \in Outs(t)
        PROVE  lo <= t[i].frame.from /\ t[i].frame.from < t[i].frame.to /\ t[i].frame.to <= f.to
    BY <1>1, <1>3, <1>4 DEF Run, Ordered
  <2>3. ASSUME NEW i \in Outs(t), NEW j \in Outs(t), i < j
        PROVE  t[i].frame.to <= t[j].frame.from
    BY <2>3, <1>1, <1>3, <1>4 DEF Run, Ordered
  <2> QED
    BY <2>1, <2>2, <2>3 DEF Ordered
<1>6. Joins(t, lo, f.to)
  <2>1. Outs(t) # {}
    BY <1>3
  <2>2. ASSUME NEW i \in Outs(t), \A k \in Outs(t) : k >= i PROVE t[i].frame.from = lo
    <3>1. CASE i \in Outs(s)
      <4>1. \A k \in Outs(s) : k >= i
        BY <2>2, <1>3
      <4> QED
        BY <3>1, <4>1, <1>4 DEF Run, Joins
    <3>2. CASE i = n + 1
      <4>1. Outs(s) = {}
        <5> SUFFICES ASSUME NEW k \in Outs(s) PROVE FALSE
          OBVIOUS
        <5>1. k \in Outs(t)
          BY <1>3
        <5>2. k >= n + 1
          BY <2>2, <3>2, <5>1
        <5>3. k \in Nat /\ k < n + 1
          BY <1>4
        <5> QED
          BY <5>2, <5>3
      <4> QED
        BY <3>2, <4>1, <1>3 DEF Run, Joins
    <3> QED
      BY <3>1, <3>2, <1>3
  <2>3. ASSUME NEW i \in Outs(t), NEW j \in Outs(t), j < i, \A k \in Outs(t) : k <= j \/ k >= i
        PROVE  t[i].frame.from = t[j].frame.to
    <3>1. j \in Outs(s)
      BY <2>3, <1>3, <1>4
    <3>2. CASE i \in Outs(s)
      <4>1. \A k \in Outs(s) : k <= j \/ k >= i
        BY <2>3, <1>3
      <4>2. s[i].frame.from = s[j].frame.to
        BY <2>3, <3>1, <3>2, <4>1, RunJoins
      <4> QED
        BY <3>1, <3>2, <4>2, <1>4
    <3>3. CASE i = n + 1
      <4>1. \A k \in Outs(s) : k <= j
        BY <2>3, <3>3, <1>3, <1>4
      <4>2. s[j].frame.to = hi
        BY <3>1, <4>1 DEF Run, Joins
      <4> QED
        BY <3>1, <3>3, <4>2, <1>3, <1>4
    <3> QED
      BY <3>2, <3>3, <1>3
  <2>4. ASSUME NEW i \in Outs(t), \A k \in Outs(t) : k <= i PROVE t[i].frame.to = f.to
    <3>1. n + 1 \in Outs(t)
      BY <1>3
    <3>2. i = n + 1
      BY <2>4, <3>1, <1>3, <1>4
    <3> QED
      BY <3>2, <1>3
  <2> QED
    BY <2>1, <2>2, <2>3, <2>4 DEF Joins
<1> QED
  BY <1>2, <1>5, <1>6 DEF Run

\* Other messages are no part of it.
LEMMA RunOther ==
    ASSUME NEW s \in Seq(Message), NEW lo \in Nat, NEW hi \in Nat, Run(s, lo, hi),
           NEW m \in Message, m.tag # "out"
    PROVE  Run(Append(s, m), lo, hi)
<1>0. PICK n \in Nat : n = Len(s)
  OBVIOUS
<1>1. PICK t : t = Append(s, m)
  OBVIOUS
<1>2. /\ \A i \in 1..n : t[i] = s[i]
      /\ \A i : i \in Outs(t) <=> i \in Outs(s)
  BY <1>0, <1>1, Appended
<1>3. Outs(t) = Outs(s) /\ \A i \in Outs(s) : t[i] = s[i]
  BY <1>0, <1>1, <1>2, OutIs
<1> QED
  <2>1. Joins(t, lo, hi)
    BY <1>3 DEF Run, Joins
  <2>2. Ordered(t, lo, hi)
    BY <1>3 DEF Run, Ordered
  <2> QED
    BY <1>1, <2>1, <2>2 DEF Run

LEMMA RunTailOther ==
    ASSUME NEW s \in Seq(Message), s # <<>>, NEW lo \in Nat, NEW hi \in Nat, Run(s, lo, hi),
           Head(s).tag # "out"
    PROVE  Run(Tail(s), lo, hi)
<1>0. PICK n \in Nat : n = Len(s)
  OBVIOUS
<1>1. PICK t : t = Tail(s)
  OBVIOUS
<1>2. /\ \A i \in 1..n - 1 : t[i] = s[i + 1]
      /\ \A i : i \in Outs(t) <=> i \in Nat \ {0} /\ i + 1 \in Outs(s)
      /\ 1 \notin Outs(s) /\ n # 0
  BY <1>0, <1>1, Behead DEF Outs
<1>3. \A k \in Outs(s) : k \in Nat /\ k - 1 \in Outs(t) /\ k \in 2..n
  <2> SUFFICES ASSUME NEW k \in Outs(s) PROVE k \in Nat /\ k - 1 \in Outs(t) /\ k \in 2..n
    OBVIOUS
  <2>1. k \in 1..n /\ k # 1
    BY <1>0, <1>1, <1>2, OutIs
  <2>2. k - 1 \in Nat \ {0} /\ (k - 1) + 1 \in Outs(s)
    BY <2>1
  <2>3. k - 1 \in Outs(t)
    BY <1>2, <2>2, Zenon
  <2> QED
    BY <2>1, <2>3
<1>4. \A i \in Outs(t) : i \in Nat /\ i + 1 \in Outs(s) /\ t[i] = s[i + 1]
  <2> SUFFICES ASSUME NEW i \in Outs(t) PROVE i \in Nat /\ i + 1 \in Outs(s) /\ t[i] = s[i + 1]
    OBVIOUS
  <2>1. i \in Nat \ {0} /\ i + 1 \in Outs(s)
    BY <1>2
  <2>2. i + 1 \in 2..n
    BY <1>3, <2>1
  <2> QED
    BY <1>2, <2>1, <2>2
<1>5. Ordered(t, lo, hi)
  BY <1>4 DEF Run, Ordered
<1>6. Joins(t, lo, hi)
  <2>1. Outs(t) = {} => lo = hi
    BY <1>3 DEF Run, Joins
  <2>2. ASSUME NEW i \in Outs(t), \A k \in Outs(t) : k >= i PROVE t[i].frame.from = lo
    <3>1. \A k \in Outs(s) : k >= i + 1
      BY <2>2, <1>3, <1>4
    <3> QED
      BY <3>1, <1>4 DEF Run, Joins
  <2>3. ASSUME NEW i \in Outs(t), NEW j \in Outs(t), j < i, \A k \in Outs(t) : k <= j \/ k >= i
        PROVE  t[i].frame.from = t[j].frame.to
    <3>1. \A k \in Outs(s) : k <= j + 1 \/ k >= i + 1
      <4> SUFFICES ASSUME NEW k \in Outs(s) PROVE k <= j + 1 \/ k >= i + 1
        OBVIOUS
      <4>1. k \in Nat /\ (k - 1 <= j \/ k - 1 >= i)
        BY <2>3, <1>3
      <4> QED
        BY <4>1, <1>4
    <3>2. j + 1 < i + 1 /\ i + 1 \in Outs(s) /\ j + 1 \in Outs(s)
      BY <2>3, <1>4
    <3>3. s[i + 1].frame.from = s[j + 1].frame.to
      BY <3>1, <3>2, <1>2, RunJoins
    <3> QED
      BY <3>3, <1>4
  <2>4. ASSUME NEW i \in Outs(t), \A k \in Outs(t) : k <= i PROVE t[i].frame.to = hi
    <3>1. \A k \in Outs(s) : k <= i + 1
      BY <2>4, <1>3, <1>4
    <3> QED
      BY <3>1, <1>4 DEF Run, Joins
  <2> QED
    BY <2>1, <2>2, <2>3, <2>4 DEF Joins
<1> QED
  BY <1>1, <1>5, <1>6 DEF Run

\* Without its first frame a run begins where that one ended.
LEMMA RunTailOut ==
    ASSUME NEW s \in Seq(Message), s # <<>>, NEW lo \in Nat, NEW hi \in Nat, Run(s, lo, hi),
           Head(s).tag = "out"
    PROVE  /\ Head(s).frame.from = lo /\ lo < Head(s).frame.to /\ Head(s).frame.to <= hi
           /\ Run(Tail(s), Head(s).frame.to, hi)
<1>0. PICK n \in Nat : n = Len(s)
  OBVIOUS
<1>1. PICK t, f : t = Tail(s) /\ f = Head(s).frame
  OBVIOUS
<1>2. /\ \A i \in 1..n - 1 : t[i] = s[i + 1]
      /\ \A i : i \in Outs(t) <=> i \in Nat \ {0} /\ i + 1 \in Outs(s)
      /\ 1 \in Outs(s) /\ n # 0 /\ s[1].frame = f
  BY <1>0, <1>1, Behead DEF Outs
<1>3. \A k \in Outs(s) : k \in Nat /\ (k = 1 \/ (k - 1 \in Outs(t) /\ k \in 2..n))
  <2> SUFFICES ASSUME NEW k \in Outs(s), k # 1 PROVE k \in Nat /\ k - 1 \in Outs(t) /\ k \in 2..n
    BY <1>2
  <2>1. k \in 1..n /\ k # 1
    BY <1>0, <1>1, OutIs
  <2>2. k - 1 \in Nat \ {0} /\ (k - 1) + 1 \in Outs(s)
    BY <2>1
  <2>3. k - 1 \in Outs(t)
    BY <1>2, <2>2, Zenon
  <2> QED
    BY <2>1, <2>3
<1>4. \A i \in Outs(t) : i \in Nat \ {0} /\ i + 1 \in Outs(s) /\ t[i] = s[i + 1]
  <2> SUFFICES ASSUME NEW i \in Outs(t) PROVE i \in Nat \ {0} /\ i + 1 \in Outs(s) /\ t[i] = s[i + 1]
    OBVIOUS
  <2>1. i \in Nat \ {0} /\ i + 1 \in Outs(s)
    BY <1>2
  <2>2. i + 1 \in 2..n
    BY <1>3, <2>1
  <2> QED
    BY <1>2, <2>1, <2>2
<1>5. f.from = lo /\ lo < f.to /\ f.to <= hi /\ f.to \in Nat
  <2>1. \A k \in Outs(s) : k >= 1
    BY <1>3
  <2> QED
    BY <2>1, <1>2, OutIs DEF Run, Joins, Ordered
<1>6. Ordered(t, f.to, hi)
  <2>1. ASSUME NEW i \in Outs(t)
        PROVE  f.to <= t[i].frame.from /\ t[i].frame.from < t[i].frame.to /\ t[i].frame.to <= hi
    BY <1>2, <1>4 DEF Run, Ordered
  <2>2. ASSUME NEW i \in Outs(t), NEW j \in Outs(t), i < j PROVE t[i].frame.to <= t[j].frame.from
    BY <2>2, <1>4 DEF Run, Ordered
  <2> QED
    BY <1>5, <2>1, <2>2 DEF Ordered
<1>7. Joins(t, f.to, hi)
  <2>1. ASSUME Outs(t) = {} PROVE f.to = hi
    <3>1. \A k \in Outs(s) : k <= 1
      BY <2>1, <1>3
    <3> QED
      BY <3>1, <1>2 DEF Run, Joins
  <2>2. ASSUME NEW i \in Outs(t), \A k \in Outs(t) : k >= i PROVE t[i].frame.from = f.to
    <3>1. \A k \in Outs(s) : k <= 1 \/ k >= i + 1
      <4> SUFFICES ASSUME NEW k \in Outs(s), k # 1 PROVE k >= i + 1
        BY <1>3
      <4>1. k \in Nat /\ k - 1 >= i
        BY <2>2, <1>3
      <4> QED
        BY <4>1, <1>4
    <3>2. 1 < i + 1 /\ i + 1 \in Outs(s)
      BY <1>4
    <3>3. s[i + 1].frame.from = s[1].frame.to
      BY <3>1, <3>2, <1>2 DEF Run, Joins
    <3> QED
      BY <3>3, <1>2, <1>4
  <2>3. ASSUME NEW i \in Outs(t), NEW j \in Outs(t), j < i, \A k \in Outs(t) : k <= j \/ k >= i
        PROVE  t[i].frame.from = t[j].frame.to
    <3>1. \A k \in Outs(s) : k <= j + 1 \/ k >= i + 1
      <4> SUFFICES ASSUME NEW k \in Outs(s), k # 1 PROVE k <= j + 1 \/ k >= i + 1
        BY <1>4
      <4>1. k \in Nat /\ (k - 1 <= j \/ k - 1 >= i)
        BY <2>3, <1>3
      <4> QED
        BY <4>1, <1>4
    <3>2. j + 1 < i + 1 /\ i + 1 \in Outs(s) /\ j + 1 \in Outs(s)
      BY <2>3, <1>4
    <3>3. s[i + 1].frame.from = s[j + 1].frame.to
      BY <3>1, <3>2, <1>2, RunJoins
    <3> QED
      BY <3>3, <1>4
  <2>4. ASSUME NEW i \in Outs(t), \A k \in Outs(t) : k <= i PROVE t[i].frame.to = hi
    <3>1. \A k \in Outs(s) : k <= i + 1
      BY <2>4, <1>3, <1>4
    <3> QED
      BY <3>1, <1>4 DEF Run, Joins
  <2> QED
    BY <2>1, <2>2, <2>3, <2>4 DEF Joins
<1> QED
  BY <1>1, <1>5, <1>6, <1>7 DEF Run

----------------------------------------------------------------------------
(* What a connection sends, and what a page makes of it.                   *)

LEMMA FlightIs ==
    ASSUME NEW pm \in Connection, NEW w \in Seq(Message),
           pm.phase = "encode" <=> pm.job # NoFrame
    PROVE  /\ pm.phase # "encode" => Flight(pm, w) = w
           /\ pm.phase = "encode" =>
                pm.job \in Frame /\ OutFrame(pm.job) \in Message /\ Flight(pm, w) = Append(w, OutFrame(pm.job))
           /\ Flight(pm, w) \in Seq(Message)
<1>1. CASE pm.phase # "encode"
  <2>1. Flight(pm, w) = w \o <<>>
    BY <1>1 DEF Flight
  <2>2. w \o <<>> = w
    OBVIOUS
  <2> QED
    BY <1>1, <2>1, <2>2
<1>2. CASE pm.phase = "encode"
  <2>1. pm.job \in Frame
    BY <1>2 DEF Connection
  <2>2. PICK e \in Message : e = OutFrame(pm.job)
    BY <2>1 DEF OutFrame, Message, Queued
  <2>3. Flight(pm, w) = w \o <<e>>
    BY <1>2, <2>2 DEF Flight
  <2>4. w \o <<e>> = Append(w, e)
    OBVIOUS
  <2>5. Append(w, e) \in Seq(Message)
    OBVIOUS
  <2> QED
    BY <1>2, <2>1, <2>2, <2>3, <2>4, <2>5
<1> QED
  BY <1>1, <1>2

\* A frame from where the pump is to the end of the ring.
LEMMA MoreSends ==
    ASSUME NEW s \in Seq(Message), NEW o \in Nat, NEW d, NEW t \in Nat, NEW b, Sends(s, o, d, t, b),
           NEW f, Sendable(f, d, t, b), f.from = o, f.to = t
    PROVE  Sends(Append(s, OutFrame(f)), t, d, t, b)
<1>1. f \in Frame /\ o < f.to
  BY DEF Sendable
<1>2. PICK m \in Message : m = OutFrame(f) /\ m.tag = "out" /\ m.frame = f
  BY <1>1, FrameIsMessage
<1>3. PICK lo \in Nat : Run(s, lo, o)
  BY DEF Sends
<1>4. Run(Append(s, m), lo, t)
  BY <1>1, <1>2, <1>3, RunOut
<1>5. PICK u : u = Append(s, m)
  OBVIOUS
<1>6. AllSendable(u, d, t, b)
  <2> SUFFICES ASSUME NEW i \in Outs(u) PROVE Sendable(u[i].frame, d, t, b)
    BY DEF AllSendable
  <2>1. CASE i \in Outs(s)
    <3>1. i \in 1..Len(s)
      BY <2>1, OutIs
    <3>2. u[i] = s[i]
      BY <1>5, <3>1, Appended
    <3> QED
      BY <2>1, <3>2 DEF Sends, AllSendable
  <2>2. CASE i = Len(s) + 1
    <3>1. u[i] = m
      BY <1>5, <2>2, Appended
    <3> QED
      BY <1>2, <3>1
  <2> QED
    BY <1>5, <2>1, <2>2, Appended
<1> QED
  BY <1>2, <1>3, <1>4, <1>5, <1>6 DEF Sends

LEMMA GaplessMore ==
    ASSUME NEW s \in Seq(Message), NEW m \in Message, NEW d, Gapless(s, d),
           m.tag = "out" => m.frame.bytes = Tail_(m.frame.to - m.frame.from, d + m.frame.to)
    PROVE  Gapless(Append(s, m), d)
<1>1. PICK u : u = Append(s, m)
  OBVIOUS
<1> SUFFICES ASSUME NEW i \in Outs(u)
             PROVE  u[i].frame.bytes = Tail_(u[i].frame.to - u[i].frame.from, d + u[i].frame.to)
  BY <1>1 DEF Gapless
<1>2. CASE i \in Outs(s)
  <2>1. i \in 1..Len(s)
    BY <1>2, OutIs
  <2>2. u[i] = s[i]
    BY <1>1, <2>1, Appended
  <2> QED
    BY <1>2, <2>2 DEF Gapless
<1>3. CASE m.tag = "out" /\ i = Len(s) + 1
  <2>1. u[i] = m
    BY <1>1, <1>3, Appended
  <2> QED
    BY <1>3, <2>1, Zenon
<1>4. i \in Outs(s) \/ (m.tag = "out" /\ i = Len(s) + 1)
  BY <1>1, Appended
<1> QED
  BY <1>2, <1>3, <1>4

LEMMA MoreShows ==
    ASSUME NEW s \in Seq(Message), NEW o \in Nat, NEW p, NEW d, NEW t \in Nat, NEW b,
           Shows(s, o, p, d, t), p.open,
           NEW f, Sendable(f, d, t, b), f.from = o, f.to = t, o >= b
    PROVE  Shows(Append(s, OutFrame(f)), t, p, d, t)
<1>1. f \in Frame /\ o < f.to /\ f.bytes = Tail_(f.to - f.from, d + f.to)
  BY DEF Sendable
<1>2. PICK m \in Message : m = OutFrame(f) /\ m.tag = "out" /\ m.frame = f
  BY <1>1, FrameIsMessage
<1>3. PICK mid \in Nat : mid <= t /\ Run(p.chain, p.offset, mid) /\ Run(s, mid, o)
  BY DEF Shows
<1>4. Run(Append(s, m), mid, t)
  BY <1>1, <1>2, <1>3, RunOut
<1>5. Gapless(Append(s, m), d)
  BY <1>1, <1>2, GaplessMore DEF Shows
<1> QED
  BY <1>2, <1>3, <1>4, <1>5 DEF Shows

\* Another message.
LEMMA OtherSends ==
    ASSUME NEW s \in Seq(Message), NEW o \in Nat, NEW d, NEW t, NEW b, Sends(s, o, d, t, b),
           NEW m \in Message, m.tag # "out"
    PROVE  Sends(Append(s, m), o, d, t, b)
<1>1. PICK lo \in Nat : Run(s, lo, o)
  BY DEF Sends
<1>2. Run(Append(s, m), lo, o)
  BY <1>1, RunOther
<1>3. Outs(Append(s, m)) = Outs(s) /\ \A i \in Outs(s) : Append(s, m)[i] = s[i]
  <2>1. \A i : i \in Outs(Append(s, m)) <=> i \in Outs(s)
    BY Appended, Zenon
  <2>2. \A i \in Outs(s) : Append(s, m)[i] = s[i]
    <3>1. \A i \in Outs(s) : i \in 1..Len(s)
      BY OutIs
    <3> QED
      BY <3>1, Appended, ZenonT(60)
  <2> QED
    BY <2>1, <2>2
<1>4. AllSendable(Append(s, m), d, t, b)
  BY <1>3 DEF Sends, AllSendable
<1> QED
  BY <1>2, <1>3, <1>4 DEF Sends

LEMMA OtherShows ==
    ASSUME NEW s \in Seq(Message), NEW o \in Nat, NEW p, NEW d, NEW t, Shows(s, o, p, d, t), p.open,
           NEW m \in Message, m.tag # "out"
    PROVE  Shows(Append(s, m), o, p, d, t)
<1>1. PICK mid \in Nat : mid <= t /\ Run(p.chain, p.offset, mid) /\ Run(s, mid, o)
  BY DEF Shows
<1>2. Run(Append(s, m), mid, o)
  BY <1>1, RunOther
<1>3. Gapless(Append(s, m), d)
  BY GaplessMore DEF Shows
<1> QED
  BY <1>1, <1>2, <1>3 DEF Shows

LEMMA LessSends ==
    ASSUME NEW s \in Seq(Message), s # <<>>, NEW o \in Nat, NEW d, NEW t, NEW b, Sends(s, o, d, t, b)
    PROVE  Sends(Tail(s), o, d, t, b)
<1>1. PICK lo \in Nat : Run(s, lo, o)
  BY DEF Sends
<1>2. \E l \in Nat : Run(Tail(s), l, o)
  <2>1. CASE Head(s).tag = "out"
    <3>1. Run(Tail(s), Head(s).frame.to, o)
      BY <1>1, <2>1, RunTailOut
    <3>2. 1 \in Outs(s) /\ Head(s) = s[1]
      BY <2>1, Behead DEF Outs
    <3>3. Head(s).frame.to \in Nat
      BY <3>2, OutIs
    <3> QED
      BY <3>1, <3>3
  <2>2. CASE Head(s).tag # "out"
    BY <1>1, <2>2, RunTailOther
  <2> QED
    BY <2>1, <2>2
<1>3. ASSUME NEW i \in Outs(Tail(s)) PROVE i + 1 \in Outs(s) /\ Tail(s)[i] = s[i + 1]
  <2>1. i \in Nat \ {0} /\ i + 1 \in Outs(s)
    BY Behead
  <2>2. i + 1 \in 1..Len(s) /\ Len(s) \in Nat
    BY <2>1, OutIs
  <2>3. i \in 1..Len(s) - 1
    BY <2>1, <2>2
  <2> QED
    BY <2>1, <2>3, Behead
<1>4. AllSendable(Tail(s), d, t, b)
  BY <1>3 DEF Sends, AllSendable
<1>5. Outs(Tail(s)) # {} => o <= t
  BY <1>3 DEF Sends
<1> QED
  BY <1>2, <1>4, <1>5 DEF Sends

LEMMA GaplessLess ==
    ASSUME NEW s \in Seq(Message), s # <<>>, NEW d, Gapless(s, d)
    PROVE  Gapless(Tail(s), d)
<1>1. ASSUME NEW i \in Outs(Tail(s)) PROVE i + 1 \in Outs(s) /\ Tail(s)[i] = s[i + 1]
  <2>1. i \in Nat \ {0} /\ i + 1 \in Outs(s)
    BY Behead
  <2>2. i + 1 \in 1..Len(s) /\ Len(s) \in Nat
    BY <2>1, OutIs
  <2>3. i \in 1..Len(s) - 1
    BY <2>1, <2>2
  <2> QED
    BY <2>1, <2>3, Behead
<1> QED
  BY <1>1 DEF Gapless

----------------------------------------------------------------------------
(* What the steps make of one viewer.                                      *)

LEMMA PreviewIs ==
    ASSUME NEW s \in Seq(Message), NEW i \in Previews(s)
    PROVE  i \in 1..Len(s) /\ i \in Nat
BY DEF Previews

LEMMA OnPage ==
    ASSUME NEW p \in WebPage
    PROVE  /\ p.shown \in Seq(Nat) /\ p.held \in Seq(Nat) /\ p.shown \o p.held \in Seq(Nat)
           /\ Len(p.shown \o p.held) = 0 => p.shown = <<>> /\ p.held = <<>>
<1>1. PICK u \in Seq(Nat), h \in Seq(Nat) : u = p.shown /\ h = p.held
  BY DEF WebPage
<1>2. u \o h \in Seq(Nat) /\ Len(u \o h) = Len(u) + Len(h) /\ Len(u) \in Nat /\ Len(h) \in Nat
  BY ConcatProperties, LenProperties
<1>3. ASSUME Len(u \o h) = 0 PROVE u = <<>> /\ h = <<>>
  <2>1. Len(u) = 0 /\ Len(h) = 0
    BY <1>2, <1>3
  <2> QED
    BY <2>1, EmptySeq
<1> QED
  BY <1>1, <1>2, <1>3

LEMMA CountsMore ==
    ASSUME NEW pm, NEW w \in Seq(Message), NEW p, Counts(pm, w, p),
           NEW q, q.phase # "hello", NEW m \in Message, m.tag # "preview"
    PROVE  Counts(q, Append(w, m), p)
<1>0. PICK n \in Nat : n = Len(w)
  OBVIOUS
<1>1. PICK u : u = Append(w, m)
  OBVIOUS
<1>2. ASSUME NEW i \in Previews(u)
      PROVE  Blank(p) /\ Outs(p.chain) = {} /\ \A j \in Outs(u) : i < j
  <2>1. i \in Previews(w) /\ i \in 1..n
    BY <1>0, <1>1, Appended, PreviewIs
  <2>2. ASSUME NEW j \in Outs(u) PROVE i < j
    <3>1. j \in Outs(w) \/ j = n + 1
      BY <1>0, <1>1, Appended
    <3> QED
      BY <2>1, <3>1 DEF Counts
  <2> QED
    BY <2>1, <2>2 DEF Counts
<1> QED
  BY <1>1, <1>2 DEF Counts

LEMMA SendsLonger ==
    ASSUME NEW s \in Seq(Message), NEW o \in Nat, NEW d \in Nat, NEW t \in Nat, NEW b \in Nat,
           Sends(s, o, d, t, b), NEW t2 \in Nat, t <= t2, NEW b2 \in Nat, b <= b2
    PROVE  Sends(s, o, d, t2, b2)
<1>1. ASSUME NEW i \in Outs(s) PROVE Sendable(s[i].frame, d, t2, b2)
  <2>1. Sendable(s[i].frame, d, t, b)
    BY DEF Sends, AllSendable
  <2>2. s[i].frame.from \in Nat /\ s[i].frame.to \in Nat
    BY OutIs
  <2>3. PICK f : f = s[i].frame
    OBVIOUS
  <2>4. Sendable(f, d, t, b) /\ f.from \in Nat /\ f.to \in Nat
    BY <2>1, <2>2, <2>3, Zenon
  <2>5. Sendable(f, d, t2, b2)
    BY <2>4 DEF Sendable
  <2> QED
    BY <2>3, <2>5, Zenon
<1> QED
  BY <1>1 DEF Sends, AllSendable

\* The ring may get longer, and the viewer leave the exact or the whole ones.
LEMMA Longer ==
    ASSUME NEW pm, NEW w, NEW p, NEW x \in BOOLEAN, NEW y \in BOOLEAN,
           NEW d \in Nat, NEW t \in Nat, NEW b \in Nat, Fine(pm, w, p, x, y, d, t, b),
           NEW x2 \in BOOLEAN, x2 => x, NEW y2 \in BOOLEAN, y2 => y,
           NEW t2 \in Nat, t <= t2, NEW b2 \in Nat, b <= b2
    PROVE  Fine(pm, w, p, x2, y2, d, t2, b2)
<1>1. Typed(pm, w, p) /\ Flight(pm, w) \in Seq(Message) /\ pm.offset \in Nat
  <2>1. Typed(pm, w, p)
    BY DEF Fine
  <2> QED
    BY <2>1, FlightIs DEF Typed, Connection
<1>2. PICK s : s = Flight(pm, w) /\ s \in Seq(Message)
  BY <1>1
<1>3. Sends(s, pm.offset, d, t2, b2)
  BY <1>1, <1>2, SendsLonger DEF Fine
<1>4. x => Counts(pm, w, p)
  BY DEF Fine
<1>5. ASSUME Shows(s, pm.offset, p, d, t) PROVE Shows(s, pm.offset, p, d, t2)
  <2>1. PICK mid \in Nat : /\ mid <= t /\ Run(p.chain, p.offset, mid)
                           /\ Run(s, mid, IF p.open THEN pm.offset ELSE mid)
    BY <1>5 DEF Shows
  <2>2. mid <= t2
    BY <2>1
  <2>3. p.open => pm.offset <= t2
    BY <1>1, <1>5 DEF Shows
  <2> QED
    BY <1>5, <2>1, <2>2, <2>3 DEF Shows
<1>6. x /\ y => Shows(s, pm.offset, p, d, t)
  BY <1>2 DEF Fine
<1> QED
  BY <1>1, <1>2, <1>3, <1>4, <1>5, <1>6, Zenon DEF Fine

LEMMA Connects ==
    ASSUME NEW pm, NEW w, NEW p, NEW x \in BOOLEAN, NEW y \in BOOLEAN,
           NEW d \in Nat, NEW t \in Nat, NEW b \in Nat, Fine(pm, w, p, x, y, d, t, b),
           ~p.open,
           NEW q \in Connection, q.phase = "hello", q.offset = p.offset, q.job = NoFrame,
           NEW m \in Message, m.tag = "meta",
           NEW p2, p2 = [p EXCEPT !.open = TRUE],
           NEW x2 \in BOOLEAN, x2 => x /\ p.chain = <<>>
    PROVE  Fine(q, <<m>>, p2, x2, y, d, t, b)
<1>1. p \in WebPage /\ Typed(pm, w, p)
  BY DEF Fine, Typed
<1>2. /\ p2 \in WebPage /\ p2.open /\ p2.offset = p.offset /\ p2.chain = p.chain /\ p2.shown = p.shown
      /\ p2.preview = p.preview /\ p2.selecting = p.selecting /\ p2.held = p.held /\ p2.cuts = p.cuts
  BY <1>1 DEF WebPage
<1>3. PICK s : s = <<m>> /\ s \in Seq(Message) /\ Len(s) = 1 /\ s[1] = m
  <2>1. <<m>> \in Seq(Message) /\ Len(<<m>>) = 1 /\ <<m>>[1] = m
    OBVIOUS
  <2> QED
    BY <2>1
<1>4. Outs(s) = {} /\ Previews(s) = {}
  BY <1>3 DEF Outs, Previews
<1>5. Typed(q, s, p2)
  <2>1. (p2.held # <<>> => p2.selecting) /\ q.phase # "off" /\ q.phase # "encode"
    BY <1>1, <1>2 DEF Typed
  <2> QED
    BY <1>2, <1>3, <2>1, Zenon DEF Typed
<1>6. Flight(q, s) = s /\ p.offset \in Nat
  BY <1>1, <1>5, FlightIs DEF Typed, WebPage
<1>7. Sends(s, q.offset, d, t, b)
  BY <1>4, <1>6, RunOfNone DEF Sends, AllSendable
<1>8. x2 => Counts(q, s, p2)
  BY <1>2, <1>4 DEF Fine, Counts, Blank
<1>9. ASSUME x2, y PROVE Shows(s, q.offset, p2, d, t)
  <2>1. Shows(Flight(pm, w), pm.offset, p, d, t) /\ p.chain = <<>>
    BY <1>9 DEF Fine
  <2>2. PICK mid \in Nat : mid <= t /\ Run(p.chain, p.offset, mid)
    BY <2>1 DEF Shows
  <2>3. mid = p.offset
    BY <2>1, <2>2 DEF Run, Joins, Outs
  <2>4. Run(s, p.offset, p.offset)
    BY <1>4, <1>6, RunOfNone
  <2>5. Gapless(s, d)
    BY <1>4 DEF Gapless
  <2> QED
    BY <1>2, <2>1, <2>2, <2>3, <2>4, <2>5 DEF Shows
<1> QED
  BY <1>3, <1>5, <1>6, <1>7, <1>8, <1>9 DEF Fine

LEMMA Enters ==
    ASSUME NEW pm, NEW w, NEW p, NEW x \in BOOLEAN, NEW y \in BOOLEAN,
           NEW d \in Nat, NEW t \in Nat, NEW b \in Nat, Fine(pm, w, p, x, y, d, t, b),
           pm.phase = "hello",
           NEW q \in Connection, q.phase = "loop", q.offset = pm.offset, q.job = pm.job,
           NEW u, u = w \/ (pm.offset = 0 /\ u = Append(w, Preview))
    PROVE  Fine(q, u, p, x, y, d, t, b)
<1>1. Typed(pm, w, p) /\ p \in WebPage /\ w \in Seq(Message) /\ pm \in Connection
  BY DEF Fine, Typed
<1>2. Preview \in Message /\ Preview.tag = "preview"
  BY DEF Message, Queued, Preview
<1>3. u \in Seq(Message) /\ p.open
  BY <1>1, <1>2, Appended DEF Typed
<1>4. Typed(q, u, p)
  BY <1>1, <1>3 DEF Typed
<1>5. Flight(q, u) = u /\ Flight(pm, w) = w /\ pm.offset \in Nat
  BY <1>1, <1>3, <1>4, FlightIs DEF Typed, Connection
<1>6. Sends(w, pm.offset, d, t, b)
  BY <1>5 DEF Fine
<1>7. Sends(u, q.offset, d, t, b)
  BY <1>1, <1>2, <1>5, <1>6, OtherSends
<1>8. ASSUME x PROVE Counts(q, u, p)
  <2>1. /\ Counts(pm, w, p) /\ pm.offset = p.offset /\ p.chain = <<>>
        /\ Outs(w) = {} /\ Previews(w) = {}
    BY <1>8 DEF Fine, Counts
  <2>2. CASE u = w
    BY <2>1, <2>2 DEF Counts
  <2>3. CASE pm.offset = 0 /\ u = Append(w, Preview)
    <3>1. Len(p.shown \o p.held) = 0
      BY <2>1, <2>3 DEF Counts
    <3>2. Blank(p)
      BY <1>1, <3>1, OnPage DEF Blank
    <3>3. Outs(u) = {}
      BY <1>1, <1>2, <2>1, <2>3, Appended
    <3>4. Outs(p.chain) = {}
      BY <2>1 DEF Outs
    <3> QED
      BY <2>1, <3>2, <3>3, <3>4 DEF Counts
  <2> QED
    BY <2>2, <2>3
<1>9. ASSUME x, y PROVE Shows(u, q.offset, p, d, t)
  <2>1. Shows(w, pm.offset, p, d, t)
    BY <1>5, <1>9 DEF Fine
  <2> QED
    BY <1>1, <1>2, <1>3, <1>5, <2>1, OtherShows
<1> QED
  BY <1>4, <1>5, <1>7, <1>8, <1>9 DEF Fine

\* Neither phase is that of a frame, and what is told is no frame.
LEMMA Tells ==
    ASSUME NEW pm, NEW w, NEW p, NEW x \in BOOLEAN, NEW y \in BOOLEAN,
           NEW d \in Nat, NEW t \in Nat, NEW b \in Nat, Fine(pm, w, p, x, y, d, t, b),
           pm.phase \in {"loop", "meta"},
           NEW q \in Connection, q.phase \in {"loop", "meta"}, q.offset = pm.offset, q.job = pm.job,
           NEW m \in Message, m.tag = "meta", NEW u, u = w \/ u = Append(w, m)
    PROVE  Fine(q, u, p, x, y, d, t, b)
<1>1. Typed(pm, w, p) /\ p \in WebPage /\ w \in Seq(Message) /\ pm \in Connection
  BY DEF Fine, Typed
<1>2. u \in Seq(Message) /\ p.open
  BY <1>1, Appended DEF Typed
<1>3. Typed(q, u, p)
  BY <1>1, <1>2 DEF Typed
<1>4. Flight(q, u) = u /\ Flight(pm, w) = w /\ pm.offset \in Nat
  BY <1>1, <1>2, <1>3, FlightIs DEF Typed, Connection
<1>5. Sends(w, pm.offset, d, t, b)
  BY <1>4 DEF Fine
<1>6. Sends(u, q.offset, d, t, b)
  BY <1>1, <1>4, <1>5, OtherSends
<1>7. ASSUME x PROVE Counts(q, u, p)
  <2>1. Counts(pm, w, p)
    BY <1>7 DEF Fine
  <2>2. CASE u = w
    BY <2>1, <2>2 DEF Counts
  <2>3. CASE u = Append(w, m)
    BY <1>1, <2>1, <2>3, CountsMore
  <2> QED
    BY <2>2, <2>3
<1>8. ASSUME x, y PROVE Shows(u, q.offset, p, d, t)
  <2>1. Shows(w, pm.offset, p, d, t)
    BY <1>4, <1>8 DEF Fine
  <2> QED
    BY <1>1, <1>2, <1>4, <2>1, OtherShows
<1> QED
  BY <1>3, <1>4, <1>6, <1>7, <1>8 DEF Fine

\* The generation moves.
LEMMA Informed ==
    ASSUME NEW pm, NEW w, NEW p, NEW x \in BOOLEAN, NEW y \in BOOLEAN,
           NEW d \in Nat, NEW t \in Nat, NEW b \in Nat, Fine(pm, w, p, x, y, d, t, b),
           NEW q \in Connection, q.phase = pm.phase, q.offset = pm.offset, q.job = pm.job
    PROVE  Fine(q, w, p, x, y, d, t, b)
<1>1. Typed(pm, w, p)
  BY DEF Fine
<1>2. Typed(q, w, p)
  BY <1>1 DEF Typed
<1>3. Flight(q, w) = Flight(pm, w)
  BY DEF Flight
<1>4. Counts(pm, w, p) => Counts(q, w, p)
  BY DEF Counts
<1> QED
  BY <1>2, <1>3, <1>4 DEF Fine

\* Another pump's frame goes out.
LEMMA Shares ==
    ASSUME NEW pm, NEW w, NEW p, NEW x \in BOOLEAN, NEW y \in BOOLEAN,
           NEW d \in Nat, NEW t \in Nat, NEW b \in Nat, Fine(pm, w, p, x, y, d, t, b),
           pm.phase = "loop",
           NEW f, Sendable(f, d, t, b), f.from = pm.offset, f.to = t,
           NEW q \in Connection, q.phase = "loop", q.offset = t, q.job = pm.job,
           NEW y2 \in BOOLEAN, y2 => y /\ pm.offset >= b
    PROVE  Fine(q, Append(w, OutFrame(f)), p, x, y2, d, t, b)
<1>1. Typed(pm, w, p) /\ p \in WebPage /\ w \in Seq(Message) /\ pm \in Connection /\ p.open
  BY DEF Fine, Typed
<1>2. PICK m \in Message : m = OutFrame(f) /\ m.tag = "out" /\ m.frame = f
  BY FrameIsMessage DEF Sendable
<1>3. PICK u \in Seq(Message) : u = Append(w, m)
  BY <1>1, Appended
<1>4. Typed(q, u, p)
  BY <1>1, <1>3 DEF Typed
<1>5. Flight(q, u) = u /\ Flight(pm, w) = w /\ pm.offset \in Nat
  BY <1>1, <1>3, <1>4, FlightIs DEF Typed, Connection
<1>6. Sends(u, t, d, t, b)
  <2>1. Sends(w, pm.offset, d, t, b)
    BY <1>5 DEF Fine
  <2> QED
    BY <1>1, <1>2, <1>3, <1>5, <2>1, MoreSends
<1>7. ASSUME x PROVE Counts(q, u, p)
  <2>1. Counts(pm, w, p)
    BY <1>7 DEF Fine
  <2> QED
    BY <1>1, <1>2, <1>3, <2>1, CountsMore
<1>8. ASSUME x, y2 PROVE Shows(u, t, p, d, t)
  <2>1. Shows(w, pm.offset, p, d, t)
    BY <1>5, <1>8 DEF Fine
  <2> QED
    BY <1>1, <1>2, <1>3, <1>5, <1>8, <2>1, MoreShows
<1> QED
  BY <1>2, <1>3, <1>4, <1>5, <1>6, <1>7, <1>8 DEF Fine

\* A frame is taken out to be encoded.
LEMMA Takes ==
    ASSUME NEW pm, NEW w, NEW p, NEW x \in BOOLEAN, NEW y \in BOOLEAN,
           NEW d \in Nat, NEW t \in Nat, NEW b \in Nat, Fine(pm, w, p, x, y, d, t, b),
           pm.phase = "loop",
           NEW f, Sendable(f, d, t, b), f.from = pm.offset, f.to = t,
           NEW q \in Connection, q.phase = "encode", q.offset = t, q.job = f, f # NoFrame,
           NEW y2 \in BOOLEAN, y2 => y /\ pm.offset >= b
    PROVE  Fine(q, w, p, x, y2, d, t, b)
<1>1. Typed(pm, w, p) /\ p \in WebPage /\ w \in Seq(Message) /\ pm \in Connection /\ p.open
  BY DEF Fine, Typed
<1>2. PICK m \in Message : m = OutFrame(f) /\ m.tag = "out" /\ m.frame = f
  BY FrameIsMessage DEF Sendable
<1>3. PICK u \in Seq(Message) : u = Append(w, m)
  BY <1>1, Appended
<1>4. Typed(q, w, p)
  BY <1>1, <1>3 DEF Typed
<1>5. Flight(q, w) = u /\ Flight(pm, w) = w /\ pm.offset \in Nat
  BY <1>1, <1>2, <1>3, <1>4, FlightIs DEF Typed, Connection
<1>6. Sends(u, t, d, t, b)
  <2>1. Sends(w, pm.offset, d, t, b)
    BY <1>5 DEF Fine
  <2> QED
    BY <1>1, <1>2, <1>3, <1>5, <2>1, MoreSends
<1>7. Counts(pm, w, p) => Counts(q, w, p)
  BY DEF Counts
<1>8. ASSUME x, y2 PROVE Shows(u, t, p, d, t)
  <2>1. Shows(w, pm.offset, p, d, t)
    BY <1>5, <1>8 DEF Fine
  <2> QED
    BY <1>1, <1>2, <1>3, <1>5, <1>8, <2>1, MoreShows
<1> QED
  BY <1>4, <1>5, <1>6, <1>7, <1>8 DEF Fine

\* A page that counts more than the ring has had gets nothing.
LEMMA TakesNothing ==
    ASSUME NEW pm, NEW w, NEW p, NEW x \in BOOLEAN, NEW y \in BOOLEAN,
           NEW d \in Nat, NEW t \in Nat, NEW b \in Nat, Fine(pm, w, p, x, y, d, t, b),
           pm.phase = "loop", pm.offset > t,
           NEW q \in Connection, q.phase = "loop", q.offset = t, q.job = pm.job,
           NEW y2 \in BOOLEAN, y2 => y
    PROVE  Fine(q, w, p, x, y2, d, t, b)
<1>1. Typed(pm, w, p) /\ p \in WebPage /\ w \in Seq(Message) /\ pm \in Connection /\ p.open
  BY DEF Fine, Typed
<1>2. Typed(q, w, p)
  BY <1>1 DEF Typed
<1>3. Flight(q, w) = w /\ Flight(pm, w) = w /\ pm.offset \in Nat
  BY <1>1, <1>2, FlightIs DEF Typed, Connection
<1>4. Sends(w, pm.offset, d, t, b)
  BY <1>3 DEF Fine
<1>5. Outs(w) = {}
  BY <1>3, <1>4 DEF Sends
<1>6. Sends(w, t, d, t, b)
  BY <1>4, <1>5, RunOfNone DEF Sends
<1>7. Counts(pm, w, p) => Counts(q, w, p)
  BY DEF Counts
<1>8. ASSUME x, y PROVE FALSE
  <2>1. Shows(w, pm.offset, p, d, t)
    BY <1>3, <1>8 DEF Fine
  <2>2. pm.offset <= t
    BY <1>1, <2>1 DEF Shows
  <2> QED
    BY <1>3, <2>2
<1> QED
  BY <1>2, <1>3, <1>6, <1>7, <1>8 DEF Fine

LEMMA Encodes ==
    ASSUME NEW pm, NEW w, NEW p, NEW x \in BOOLEAN, NEW y \in BOOLEAN,
           NEW d \in Nat, NEW t \in Nat, NEW b \in Nat, Fine(pm, w, p, x, y, d, t, b),
           pm.phase = "encode",
           NEW q \in Connection, q.phase = "loop", q.offset = pm.offset, q.job = NoFrame
    PROVE  /\ Sendable(pm.job, d, t, b)
           /\ Fine(q, Append(w, OutFrame(pm.job)), p, x, y, d, t, b)
<1>1. Typed(pm, w, p) /\ p \in WebPage /\ w \in Seq(Message) /\ pm \in Connection /\ p.open
  BY DEF Fine, Typed
<1>2. pm.job \in Frame /\ Flight(pm, w) = Append(w, OutFrame(pm.job))
  BY <1>1, FlightIs DEF Typed
<1>3. PICK m \in Message : m = OutFrame(pm.job) /\ m.tag = "out" /\ m.frame = pm.job
  BY <1>2, FrameIsMessage
<1>4. PICK u : u = Append(w, m)
  OBVIOUS
<1>5. u \in Seq(Message) /\ Len(w) + 1 \in Outs(u) /\ u[Len(w) + 1] = m
  BY <1>1, <1>3, <1>4, Appended
<1>6. Typed(q, u, p)
  BY <1>1, <1>5 DEF Typed
<1>7. Flight(q, u) = u /\ Flight(pm, w) = u
  BY <1>2, <1>3, <1>4, <1>5, <1>6, FlightIs DEF Typed
<1>8. Sends(u, q.offset, d, t, b)
  BY <1>7 DEF Fine
<1>9. Sendable(pm.job, d, t, b)
  BY <1>3, <1>5, <1>8 DEF Sends, AllSendable
<1>10. ASSUME x PROVE Counts(q, u, p)
  <2>1. Counts(pm, w, p)
    BY <1>10 DEF Fine
  <2> QED
    BY <1>1, <1>3, <1>4, <2>1, CountsMore
<1>11. x /\ y => Shows(u, q.offset, p, d, t)
  BY <1>7 DEF Fine
<1> QED
  BY <1>3, <1>4, <1>6, <1>7, <1>8, <1>9, <1>10, <1>11 DEF Fine

\* The first message of the wire is handled, or joins the page's queue.
LEMMA Receives ==
    ASSUME NEW pm, NEW w, NEW p, NEW x \in BOOLEAN, NEW y \in BOOLEAN,
           NEW d \in Nat, NEW t \in Nat, NEW b \in Nat, Fine(pm, w, p, x, y, d, t, b),
           w # <<>>,
           NEW p2, \/ Head(w).tag = "meta" /\ p2 = [p EXCEPT !.locked = Head(w).locked]
                   \/ Head(w).tag # "meta" /\ p2 = [p EXCEPT !.chain = Append(p.chain, Head(w))]
    PROVE  Fine(pm, Tail(w), p2, x, y, d, t, b)
<1>1. Typed(pm, w, p) /\ p \in WebPage /\ w \in Seq(Message) /\ pm \in Connection /\ p.open
  BY DEF Fine, Typed
<1>2. PICK m, u : m = Head(w) /\ u = Tail(w)
  OBVIOUS
<1>3. /\ m \in Message /\ u \in Seq(Message) /\ m = w[1] /\ Len(w) \in Nat /\ Len(u) = Len(w) - 1
      /\ \A i : i \in Outs(u) <=> i \in Nat \ {0} /\ i + 1 \in Outs(w)
      /\ \A i : i \in Previews(u) <=> i \in Nat \ {0} /\ i + 1 \in Previews(w)
      /\ m.tag = "out" => 1 \in Outs(w)
      /\ m.tag = "preview" => 1 \in Previews(w)
  BY <1>1, <1>2, Behead DEF Outs, Previews
<1>4. /\ p2 \in WebPage /\ p2.open = p.open /\ p2.offset = p.offset /\ p2.shown = p.shown
      /\ p2.preview = p.preview /\ p2.selecting = p.selecting /\ p2.held = p.held /\ p2.cuts = p.cuts
      /\ p2.chain = IF m.tag = "meta" THEN p.chain ELSE Append(p.chain, m)
  <2>1. CASE m.tag = "meta"
    <3>1. m.locked \in BOOLEAN
      BY <1>3, <2>1 DEF Message, Queued, Preview
    <3> QED
      BY <1>1, <1>2, <2>1, <3>1 DEF WebPage
  <2>2. CASE m.tag # "meta"
    <3>1. m \in Queued /\ p.chain \in Seq(Queued)
      BY <1>1, <1>3, <2>2 DEF Message, WebPage
    <3>2. PICK c : c = Append(p.chain, m) /\ c \in Seq(Queued)
      <4>1. Append(p.chain, m) \in Seq(Queued)
        BY <3>1
      <4> QED
        BY <4>1
    <3>3. p2 = [p EXCEPT !.chain = c]
      BY <1>2, <2>2, <3>2
    <3> QED
      BY <1>1, <2>2, <3>2, <3>3 DEF WebPage
  <2> QED
    BY <2>1, <2>2
<1>5. p.chain \in Seq(Message)
  BY <1>1, QueuedIsMessage DEF WebPage
<1>6. Typed(pm, u, p2)
  BY <1>1, <1>3, <1>4 DEF Typed
<1>7. PICK s : s = Flight(pm, w)
  OBVIOUS
<1>8. /\ s \in Seq(Message) /\ s # <<>> /\ Head(s) = m /\ Tail(s) = Flight(pm, u)
      /\ pm.offset \in Nat
  <2>1. CASE pm.phase # "encode"
    BY <1>1, <1>2, <1>3, <1>7, <2>1, FlightIs DEF Typed, Connection
  <2>2. CASE pm.phase = "encode"
    <3>1. PICK e \in Message : e = OutFrame(pm.job) /\ s = Append(w, e)
      BY <1>1, <1>7, <2>2, FlightIs DEF Typed
    <3>2. Flight(pm, u) = Append(u, e)
      BY <1>1, <1>3, <2>2, <3>1, FlightIs DEF Typed
    <3>3. Append(w, e) # <<>> /\ Head(Append(w, e)) = Head(w) /\ Tail(Append(w, e)) = Append(Tail(w), e)
      <4>1. w # <<>> /\ w \in Seq(Message)
        BY <1>1
      <4> QED
        BY <4>1, HeadTailAppend
    <3>4. Append(w, e) \in Seq(Message) /\ pm.offset \in Nat
      BY <1>1 DEF Connection
    <3> QED
      BY <1>2, <3>1, <3>2, <3>3, <3>4
  <2> QED
    BY <2>1, <2>2
<1>9. Sends(Flight(pm, u), pm.offset, d, t, b)
  <2>1. Sends(s, pm.offset, d, t, b)
    BY <1>7 DEF Fine
  <2> QED
    BY <1>8, <2>1, LessSends
<1>10. ASSUME x PROVE Counts(pm, u, p2)
  <2>1. Counts(pm, w, p)
    BY <1>10 DEF Fine
  <2>2. /\ p2.offset = Len(p2.shown \o p2.held)
        /\ p2.preview => Blank(p2)
        /\ Blank(p) <=> Blank(p2)
    BY <1>4, <2>1 DEF Counts, Blank
  <2>3. ASSUME NEW i \in Previews(p2.chain)
        PROVE  Blank(p2) /\ \A j \in Outs(p2.chain) : i < j
    <3>1. CASE m.tag = "meta"
      BY <1>4, <2>1, <2>2, <2>3, <3>1 DEF Counts
    <3>2. CASE m.tag = "out"
      <4>1. i \in Previews(p.chain) /\ i \in 1..Len(p.chain) /\ Len(p.chain) \in Nat
        BY <1>3, <1>4, <1>5, <2>3, <3>2, Appended, PreviewIs
      <4>2. ASSUME NEW j \in Outs(p2.chain) PROVE i < j
        <5>1. j \in Outs(p.chain) \/ j = Len(p.chain) + 1
          BY <1>3, <1>4, <1>5, <3>2, Appended
        <5> QED
          BY <2>1, <4>1, <5>1 DEF Counts
      <4> QED
        BY <2>1, <2>2, <4>1, <4>2 DEF Counts
    <3>3. CASE m.tag = "preview"
      <4>1. Blank(p) /\ Outs(p.chain) = {}
        BY <1>3, <2>1, <3>3 DEF Counts
      <4>2. Outs(p2.chain) = {}
        BY <1>3, <1>4, <1>5, <3>3, <4>1, Appended
      <4> QED
        BY <2>2, <4>1, <4>2
    <3> QED
      BY <1>3, <3>1, <3>2, <3>3 DEF Message, Queued, Preview
  <2>4. ASSUME NEW i \in Previews(u)
        PROVE  Blank(p2) /\ Outs(p2.chain) = {} /\ \A j \in Outs(u) : i < j
    <3>1. i \in Nat /\ i + 1 \in Previews(w)
      BY <1>3
    <3>2. Blank(p2) /\ Outs(p.chain) = {} /\ \A j \in Outs(w) : i + 1 < j
      BY <2>1, <2>2, <3>1 DEF Counts
    <3>3. m.tag # "out"
      BY <1>3, <3>1, <3>2
    <3>4. Outs(p2.chain) = {}
      BY <1>3, <1>4, <1>5, <3>2, <3>3, Appended
    <3>5. ASSUME NEW j \in Outs(u) PROVE i < j
      <4>1. j \in Nat /\ i + 1 < j + 1
        BY <1>3, <3>2
      <4> QED
        BY <3>1, <4>1
    <3> QED
      BY <3>2, <3>4, <3>5
  <2>5. ASSUME pm.phase = "hello"
        PROVE  pm.offset = p2.offset /\ p2.chain = <<>> /\ Outs(u) = {} /\ Previews(u) = {}
    <3>1. pm.offset = p.offset /\ p.chain = <<>> /\ Outs(w) = {} /\ Previews(w) = {}
      BY <2>1, <2>5 DEF Counts
    <3>2. m.tag = "meta"
      BY <1>3, <3>1 DEF Message, Queued, Preview
    <3> QED
      BY <1>3, <1>4, <3>1, <3>2
  <2> QED
    BY <2>2, <2>3, <2>4, <2>5 DEF Counts
<1>11. ASSUME x, y PROVE Shows(Flight(pm, u), pm.offset, p2, d, t)
  <2>1. Shows(s, pm.offset, p, d, t)
    BY <1>7, <1>11 DEF Fine
  <2>2. PICK mid \in Nat : mid <= t /\ Run(p.chain, p.offset, mid) /\ Run(s, mid, pm.offset)
    BY <1>1, <2>1 DEF Shows
  <2>3. Gapless(Tail(s), d)
    BY <1>8, <2>1, GaplessLess DEF Shows
  <2>4. p.offset \in Nat
    BY <1>1 DEF WebPage
  <2>5. CASE m.tag = "out"
    <3>1. /\ m.frame.from = mid /\ mid < m.frame.to /\ m.frame.to <= pm.offset
          /\ Run(Tail(s), m.frame.to, pm.offset)
      BY <1>8, <2>2, <2>5, RunTailOut
    <3>2. m.frame \in Frame /\ m = OutFrame(m.frame) /\ m.frame.to \in Nat
      BY <1>1, <1>3, <2>5, OutIs
    <3>3. Run(Append(p.chain, m), p.offset, m.frame.to)
      BY <1>5, <2>2, <2>4, <3>1, <3>2, RunOut
    <3>4. m.frame.to <= t
      BY <1>1, <1>8, <2>1, <3>1, <3>2 DEF Shows
    <3>5. Gapless(Append(p.chain, m), d)
      <4>1. 1 \in Outs(s) /\ s[1] = m
        BY <1>8, <2>5, Behead DEF Outs
      <4>2. m.frame.bytes = Tail_(m.frame.to - m.frame.from, d + m.frame.to)
        BY <2>1, <4>1 DEF Shows, Gapless
      <4> QED
        BY <1>3, <1>5, <2>1, <4>2, GaplessMore DEF Shows
    <3> QED
      BY <1>1, <1>4, <1>8, <2>1, <2>3, <2>5, <3>1, <3>2, <3>3, <3>4, <3>5 DEF Shows
  <2>6. CASE m.tag # "out"
    <3>1. Run(Tail(s), mid, pm.offset)
      BY <1>8, <2>2, <2>6, RunTailOther
    <3>2. Run(p2.chain, p.offset, mid)
      BY <1>3, <1>4, <1>5, <2>2, <2>4, <2>6, RunOther
    <3>3. Gapless(p2.chain, d)
      BY <1>3, <1>4, <1>5, <2>1, <2>6, GaplessMore DEF Shows
    <3> QED
      BY <1>1, <1>4, <1>8, <2>1, <2>2, <2>3, <3>1, <3>2, <3>3 DEF Shows
  <2> QED
    BY <2>5, <2>6
<1> QED
  BY <1>2, <1>6, <1>9, <1>10, <1>11 DEF Fine

\* A stretch of bytes of one character has all stretches in it.
LEMMA TogetherWithin ==
    ASSUME NEW m \in Nat, NEW n \in Nat, NEW m2 \in Nat, NEW n2 \in Nat,
           Together(m, n), m <= m2, n2 <= n
    PROVE  Together(m2, n2)
<1>1. m2..(n2 - 1) \subseteq m..(n - 1)
  OBVIOUS
<1> QED
  BY <1>1 DEF Together

LEMMA FateIs ==
    ASSUME NEW byte \in Nat, NEW c, NEW e, c <=> e
    PROVE  Fate(byte, c) \in Nat /\ Fate(byte, c) = Fate(byte, e)
BY DEF Fate, Lost

LEMMA Decoded ==
    ASSUME NEW f \in Seq(Nat)
    PROVE  /\ Decode(f) \in Seq(Nat) /\ Len(Decode(f)) = Len(f)
           /\ \A i \in 1..Len(f) :
                Decode(f)[i] = Fate(f[i], Together(f[1] - 1, f[i]) \/ Together(f[i], f[Len(f)] + 1))
<1>1. PICK n \in Nat : n = Len(f) /\ DOMAIN f = 1..n
  BY LenProperties
<1>2. \A i \in 1..n : f[i] \in Nat
  BY <1>1, ElementOfSeq
<1>3. PICK u : u = Decode(f)
  OBVIOUS
<1>4. u = [i \in 1..n |-> Fate(f[i], Together(f[1] - 1, f[i]) \/ Together(f[i], f[n] + 1))]
  BY <1>1, <1>3 DEF Decode
<1>5. \A i \in 1..n : u[i] = Fate(f[i], Together(f[1] - 1, f[i]) \/ Together(f[i], f[n] + 1))
  BY <1>4, Zenon
<1>6. \A i \in 1..n : Fate(f[i], Together(f[1] - 1, f[i]) \/ Together(f[i], f[n] + 1)) \in Nat
  BY <1>2 DEF Fate, Lost
<1>7. u \in [1..n -> Nat]
  BY <1>4, <1>6, Zenon
<1>8. u \in Seq(Nat) /\ Len(u) = n
  BY <1>7, FunctionIsSeq
<1> QED
  BY <1>1, <1>3, <1>5, <1>8, Zenon

\* Frames that end further on cut nothing of the text before.
LEMMA CutBefore ==
    ASSUME NEW n \in Nat, NEW k \in Nat, n < k, NEW d \in Nat,
           NEW es, es \subseteq 0..n, n \in es, NEW i \in 1..n
    PROVE  IsCut(i, d, es) <=> IsCut(i, d, es \cup {k})
<1>1. ASSUME IsCut(i, d, es) PROVE IsCut(i, d, es \cup {k})
  BY <1>1 DEF IsCut
<1>2. ASSUME IsCut(i, d, es \cup {k}) PROVE IsCut(i, d, es)
  <2>1. PICK e \in es \cup {k} : IF e < i THEN Together(d + e, d + i) ELSE Together(d + i, d + e + 1)
    BY <1>2 DEF IsCut
  <2>2. CASE e \in es
    BY <2>1, <2>2 DEF IsCut
  <2>3. CASE e = k
    <3>1. Together(d + i, d + k + 1)
      BY <2>1, <2>3
    <3>2. Together(d + i, d + n + 1)
      BY <3>1, TogetherWithin
    <3>3. ~(n < i)
      OBVIOUS
    <3> QED
      BY <3>2, <3>3 DEF IsCut
  <2> QED
    BY <2>2, <2>3
<1> QED
  BY <1>1, <1>2

\* What a frame cuts of its own is what its two ends cut.
LEMMA CutWithin ==
    ASSUME NEW n \in Nat, NEW k \in Nat, n < k, NEW d \in Nat,
           NEW es, es \subseteq 0..n, n \in es, NEW i \in Nat, n < i, i <= k
    PROVE  IsCut(i, d, es \cup {k}) <=> Together(d + n, d + i) \/ Together(d + i, d + k + 1)
<1>1. ASSUME Together(d + n, d + i) PROVE IsCut(i, d, es \cup {k})
  BY <1>1 DEF IsCut
<1>2. ASSUME Together(d + i, d + k + 1) PROVE IsCut(i, d, es \cup {k})
  <2>1. ~(k < i)
    OBVIOUS
  <2> QED
    BY <1>2, <2>1 DEF IsCut
<1>3. ASSUME IsCut(i, d, es \cup {k}), ~Together(d + i, d + k + 1) PROVE Together(d + n, d + i)
  <2>1. PICK e \in es \cup {k} : IF e < i THEN Together(d + e, d + i) ELSE Together(d + i, d + e + 1)
    BY <1>3 DEF IsCut
  <2>2. e # k
    BY <1>3, <2>1
  <2>3. e \in 0..n
    BY <2>1, <2>2
  <2>4. Together(d + e, d + i)
    BY <2>1, <2>3
  <2>5. d + e \in Nat /\ d + n \in Nat /\ d + i \in Nat /\ d + e <= d + n
    BY <2>3
  <2> QED
    BY <2>4, <2>5, TogetherWithin
<1> QED
  BY <1>1, <1>2, <1>3

\* The next frame is put up after the text so far.
LEMMA TextGrows ==
    ASSUME NEW n \in Nat, NEW k \in Nat, NEW d \in Nat, NEW es, NEW l \in Nat, NEW h \in Nat,
           NEW f \in Seq(Nat), NEW a \in Seq(Nat), NEW u \in Seq(Nat), NEW fs, NEW r,
           n < k, n \in es, es \subseteq 0..n, l = k - n, h = d + k, f = Tail_(l, h),
           a = Text(n, d, es), u = Decode(f), fs = es \cup {k}, r = Text(k, d, fs)
    PROVE  a \o u = r
<1>1. l > 0
  OBVIOUS
<1>2. n + l = k
  BY <1>1
<1>3. f = [i \in 1..l |-> d + k - l + i]
  BY <1>1 DEF Tail_
<1>4. \A i \in 1..l : d + k - l + i = d + n + i /\ d + n + i \in Nat
  BY <1>1
<1>5. \A i \in 1..l : f[i] = d + n + i
  BY <1>3, <1>4
<1>6. Len(f) = l
  <2>1. f \in [1..l -> Nat]
    BY <1>3, <1>4
  <2> QED
    BY <2>1, FunctionIsSeq
<1>7. f[1] - 1 = d + n /\ f[l] + 1 = d + k + 1
  <2>1. 1 \in 1..l /\ l \in 1..l
    BY <1>1
  <2>2. f[1] = d + n + 1 /\ f[l] = d + n + l
    BY <1>5, <2>1
  <2> QED
    BY <1>2, <2>2
<1>9. Len(a) = n /\ \A i \in 1..n : a[i] = Fate(d + i, IsCut(i, d, es))
  <2>1. a = [i \in 1..n |-> Fate(d + i, IsCut(i, d, es))]
    BY Zenon DEF Text
  <2>2. \A i \in 1..n : Fate(d + i, IsCut(i, d, es)) \in Nat
    BY DEF Fate, Lost
  <2>3. a \in [1..n -> Nat]
    BY <2>1, <2>2, Zenon
  <2>4. Len(a) = n
    BY <2>3, FunctionIsSeq
  <2>5. \A i \in 1..n : a[i] = Fate(d + i, IsCut(i, d, es))
    BY <2>1, Zenon
  <2> QED
    BY <2>4, <2>5
<1>10. Len(u) = l
  BY <1>6, Decoded
<1>11. \A i \in 1..l : u[i] = Fate(f[i], Together(d + n, f[i]) \/ Together(f[i], d + k + 1))
  <2>1. \A i \in 1..Len(f) : u[i] = Fate(f[i], Together(f[1] - 1, f[i]) \/ Together(f[i], f[Len(f)] + 1))
    BY Decoded
  <2> QED
    BY <1>6, <1>7, <2>1, Zenon
<1>12. ASSUME NEW i \in 1..n PROVE a[i] = Fate(d + i, IsCut(i, d, fs))
  <2>1. IsCut(i, d, es) <=> IsCut(i, d, fs)
    BY CutBefore
  <2>2. a[i] = Fate(d + i, IsCut(i, d, es))
    BY <1>9
  <2> QED
    BY <2>1, <2>2, Zenon DEF Fate
<1>13. ASSUME NEW j \in 1..l, NEW i \in Nat, i = n + j PROVE u[j] = Fate(d + i, IsCut(i, d, fs))
  <2>1. IsCut(i, d, fs) <=> Together(d + n, d + i) \/ Together(d + i, d + k + 1)
    <3>1. n < i /\ i <= k
      BY <1>2, <1>13
    <3> QED
      BY <3>1, CutWithin
  <2>2. f[j] = d + i
    BY <1>5, <1>13
  <2>3. u[j] = Fate(d + i, Together(d + n, d + i) \/ Together(d + i, d + k + 1))
    BY <1>11, <2>2, Zenon
  <2> QED
    BY <2>1, <2>3, Zenon DEF Fate
<1>14. PICK q \in Seq(Nat) : q = a \o u
  BY ConcatProperties
<1>15. Len(q) = n + l /\ \A i \in 1..n + l : q[i] = IF i <= n THEN a[i] ELSE u[i - n]
  <2>1. /\ Len(q) = Len(a) + Len(u)
        /\ \A i \in 1..Len(a) + Len(u) : q[i] = IF i <= Len(a) THEN a[i] ELSE u[i - Len(a)]
    BY <1>14, ConcatProperties
  <2> QED
    BY <1>9, <1>10, <2>1, Zenon
<1>16. ASSUME NEW i \in 1..k PROVE q[i] = Fate(d + i, IsCut(i, d, fs))
  <2>0. q[i] = IF i <= n THEN a[i] ELSE u[i - n]
    BY <1>2, <1>15
  <2>1. CASE i <= n
    <3>1. i \in 1..n
      BY <2>1
    <3> QED
      BY <1>12, <2>0, <2>1, <3>1
  <2>2. CASE ~(i <= n)
    <3>1. PICK m \in 1..l : i = n + m
      <4>1. i - n \in 1..l /\ i = n + (i - n)
        BY <1>2, <2>2
      <4> QED
        BY <4>1
    <3>2. i - n = m /\ i \in Nat
      BY <3>1
    <3>3. q[i] = u[m]
      BY <2>0, <2>2, <3>2
    <3>4. u[m] = Fate(d + i, IsCut(i, d, fs))
      BY <1>13, <3>1, <3>2
    <3> QED
      BY <3>3, <3>4
  <2> QED
    BY <2>1, <2>2
<1>18. Len(q) = k
  BY <1>2, <1>15
<1>17. q = r
  <2>1. q = [i \in 1..Len(q) |-> q[i]]
    OBVIOUS
  <2>2. q = [i \in 1..k |-> Fate(d + i, IsCut(i, d, fs))]
    BY <1>16, <1>18, <2>1, Zenon
  <2> QED
    BY <2>2, Zenon DEF Text
<1> QED
  BY <1>14, <1>17

LEMMA ThreeJoin ==
    ASSUME NEW a \in Seq(Nat), NEW h \in Seq(Nat), NEW f \in Seq(Nat)
    PROVE  /\ (a \o h) \o f = a \o (h \o f) /\ (a \o h) \o f \in Seq(Nat)
           /\ ((a \o h) \o f) \o <<>> = (a \o h) \o f
<1>1. a \o h \in Seq(Nat)
  BY ConcatProperties
<1>2. (a \o h) \o f \in Seq(Nat)
  BY <1>1, ConcatProperties
<1>3. (a \o h) \o f = a \o (h \o f)
  BY ConcatAssociative, SMTT(30)
<1>4. ((a \o h) \o f) \o <<>> = (a \o h) \o f
  BY <1>2, ConcatEmptySeq, ZenonT(60)
<1> QED
  BY <1>2, <1>3, <1>4

\* handleOut, from p to p2.
Puts(p, p2, bytes) ==
    /\ p2.offset = p.offset + Len(bytes) /\ ~p2.preview
    /\ p2.cuts = p.cuts \cup {p.offset + Len(bytes)}
    /\ LET u    == IF p.preview THEN <<>> ELSE p.shown
           text == Decode(bytes)
       IN  IF p.selecting THEN p2.shown = u /\ p2.held = p.held \o text
           ELSE p2.shown = u \o p.held \o text /\ p2.held = <<>>

\* The page puts up the first message of its queue.
LEMMA Handles ==
    ASSUME NEW pm, NEW w, NEW p, NEW x \in BOOLEAN, NEW y \in BOOLEAN,
           NEW d \in Nat, NEW t \in Nat, NEW b \in Nat, Fine(pm, w, p, x, y, d, t, b),
           p.chain # <<>>, NEW m, m = Head(p.chain),
           NEW p2 \in WebPage, p2.open = p.open, p2.chain = Tail(p.chain), p2.selecting = p.selecting,
           m.tag = "preview" =>
             /\ p2.offset = p.offset /\ p2.preview /\ p2.shown = p.shown /\ p2.held = p.held
             /\ p2.cuts = p.cuts,
           m.tag # "preview" => Puts(p, p2, m.frame.bytes)
    PROVE  Fine(pm, w, p2, x, y, d, t, b)
<1>1. Typed(pm, w, p) /\ p \in WebPage /\ w \in Seq(Message) /\ pm \in Connection
  BY DEF Fine, Typed
<1>2. PICK c, e : c = p.chain /\ e = Tail(c)
  OBVIOUS
<1>3. /\ c \in Seq(Message) /\ m \in Queued /\ c # <<>>
  <2>1. c \in Seq(Queued)
    BY <1>1, <1>2 DEF WebPage
  <2>2. m \in Queued
    BY <1>2, <2>1, HeadTailProperties
  <2> QED
    BY <1>2, <2>1, <2>2, QueuedIsMessage
<1>4. /\ m = c[1] /\ e \in Seq(Message)
      /\ \A i : i \in Outs(e) <=> i \in Nat \ {0} /\ i + 1 \in Outs(c)
      /\ \A i : i \in Previews(e) <=> i \in Nat \ {0} /\ i + 1 \in Previews(c)
      /\ m.tag = "out" => 1 \in Outs(c)
      /\ m.tag = "preview" => 1 \in Previews(c)
      /\ m.tag = "out" \/ m.tag = "preview"
  <2>1. m.tag = "out" \/ m.tag = "preview"
    BY <1>3 DEF Queued, Preview
  <2>2. /\ m = c[1] /\ e \in Seq(Message) /\ Len(c) \in Nat \ {0}
        /\ \A i : i \in Outs(e) <=> i \in Nat \ {0} /\ i + 1 \in Outs(c)
        /\ \A i : i \in Previews(e) <=> i \in Nat \ {0} /\ i + 1 \in Previews(c)
    BY <1>2, <1>3, Behead
  <2> QED
    BY <2>1, <2>2, <1>3 DEF Outs, Previews
<1>5. m.tag = "out" => /\ m.frame \in Frame /\ m = OutFrame(m.frame)
                       /\ m.frame.from \in Nat /\ m.frame.to \in Nat /\ m.frame.bytes \in Seq(Nat)
  BY <1>3, <1>4, OutIs
<1>6. PICK s : s = Flight(pm, w)
  OBVIOUS
<1>7. Typed(pm, w, p2)
  <2>1. p2.held # <<>> => p2.selecting
    <3>1. p.held # <<>> => p.selecting
      BY <1>1 DEF Typed
    <3> QED
      BY <1>4, <3>1 DEF Puts
  <2> QED
    BY <1>1, <2>1 DEF Typed
<1>12. m.tag = "out" => /\ Decode(m.frame.bytes) \in Seq(Nat)
                        /\ Len(Decode(m.frame.bytes)) = Len(m.frame.bytes)
  BY <1>5, Decoded
<1>8. \* What is on the page gets longer by the text of the frame.
      ASSUME m.tag = "out", p.preview => Blank(p)
      PROVE  p2.shown \o p2.held = p.shown \o p.held \o Decode(m.frame.bytes)
  <2>1. PICK a \in Seq(Nat), h \in Seq(Nat), f \in Seq(Nat) :
            a = p.shown /\ h = p.held /\ f = Decode(m.frame.bytes)
    BY <1>1, <1>8, <1>12, OnPage
  <2>2. a = IF p.preview THEN <<>> ELSE p.shown
    BY <1>8, <2>1 DEF Blank
  <2>3. IF p.selecting THEN p2.shown = a /\ p2.held = h \o f
        ELSE p2.shown = a \o h \o f /\ p2.held = <<>>
    BY <1>8, <2>1, <2>2, Zenon DEF Puts
  <2>4. /\ (a \o h) \o f = a \o (h \o f) /\ ((a \o h) \o f) \o <<>> = (a \o h) \o f
    BY ThreeJoin
  <2> QED
    BY <2>1, <2>3, <2>4, Zenon
<1>11. m.tag = "out" => /\ p2.offset = p.offset + Len(m.frame.bytes) /\ ~p2.preview
                        /\ p2.cuts = p.cuts \cup {p.offset + Len(m.frame.bytes)}
  BY DEF Puts
<1>9. ASSUME x PROVE Counts(pm, w, p2)
  <2>1. Counts(pm, w, p)
    BY <1>9 DEF Fine
  <2>2. p.preview => Blank(p)
    BY <2>1 DEF Counts
  <2>3. pm.phase # "hello"
    BY <2>1 DEF Counts
  <2>4. CASE m.tag = "preview"
    <3>1. Blank(p) /\ \A j \in Outs(c) : 1 < j
      BY <1>2, <1>4, <2>1, <2>4 DEF Counts
    <3>2. Blank(p2) /\ p2.offset = Len(p2.shown \o p2.held)
      BY <2>1, <2>4, <3>1 DEF Blank, Counts
    <3>3. ASSUME NEW i \in Previews(e) PROVE \A j \in Outs(e) : i < j
      <4>1. i \in Nat /\ i + 1 \in Previews(c)
        BY <1>4
      <4>2. \A j \in Outs(c) : i + 1 < j
        BY <1>2, <2>1, <4>1 DEF Counts
      <4> SUFFICES ASSUME NEW j \in Outs(e) PROVE i < j
        OBVIOUS
      <4>3. j \in Nat /\ j + 1 \in Outs(c)
        BY <1>4
      <4> QED
        BY <4>1, <4>2, <4>3
    <3>4. ASSUME NEW i \in Previews(w)
          PROVE  Outs(e) = {} /\ \A j \in Outs(w) : i < j
      <4>1. Outs(c) = {} /\ \A j \in Outs(w) : i < j
        BY <1>2, <2>1 DEF Counts
      <4> QED
        BY <1>4, <4>1
    <3> QED
      BY <1>2, <2>3, <3>2, <3>3, <3>4 DEF Counts
  <2>5. CASE m.tag = "out"
    <3>1. Previews(e) = {}
      <4> SUFFICES ASSUME NEW i \in Previews(e) PROVE FALSE
        OBVIOUS
      <4>1. i \in Nat /\ i + 1 \in Previews(c)
        BY <1>4
      <4>2. i + 1 < 1
        BY <1>2, <1>4, <2>1, <2>5, <4>1 DEF Counts
      <4> QED
        BY <4>1, <4>2
    <3>2. Previews(w) = {}
      BY <1>2, <1>4, <2>1, <2>5 DEF Counts
    <3>3. p2.offset = Len(p2.shown \o p2.held)
      <4>1. PICK a \in Seq(Nat), f \in Seq(Nat) : a = p.shown \o p.held /\ f = Decode(m.frame.bytes)
        BY <1>1, <1>12, <2>5, OnPage
      <4>2. Len(a \o f) = Len(a) + Len(f)
        BY ConcatProperties
      <4>3. p2.shown \o p2.held = a \o f
        BY <1>8, <2>2, <2>5, <4>1, Zenon
      <4>4. p2.offset = p.offset + Len(f) /\ p.offset = Len(a)
        BY <1>11, <1>12, <2>1, <2>5, <4>1 DEF Counts
      <4> QED
        BY <4>2, <4>3, <4>4
    <3> QED
      BY <1>2, <1>11, <2>3, <2>5, <3>1, <3>2, <3>3 DEF Counts
  <2> QED
    BY <1>4, <2>4, <2>5
<1>10. ASSUME x, y PROVE Shows(s, pm.offset, p2, d, t)
  <2>1. Shows(s, pm.offset, p, d, t) /\ Counts(pm, w, p)
    BY <1>6, <1>10 DEF Fine
  <2>2. PICK hi : hi = pm.offset
    OBVIOUS
  <2>3. PICK mid \in Nat : /\ mid <= t /\ Run(c, p.offset, mid)
                           /\ Run(s, mid, IF p.open THEN hi ELSE mid)
    BY <1>2, <2>1, <2>2 DEF Shows
  <2>4. p.offset \in Nat
    BY <1>1 DEF WebPage
  <2>5. Gapless(e, d)
    BY <1>2, <1>3, <2>1, GaplessLess DEF Shows
  <2>6. CASE m.tag = "preview"
    <3>1. Run(e, p.offset, mid)
      BY <1>2, <1>3, <2>3, <2>4, <2>6, RunTailOther
    <3> QED
      BY <1>2, <2>1, <2>2, <2>3, <2>5, <2>6, <3>1 DEF Shows
  <2>7. CASE m.tag = "out"
    <3>1. /\ m.frame.from = p.offset /\ p.offset < m.frame.to
          /\ Run(e, m.frame.to, mid)
      BY <1>2, <1>3, <2>3, <2>4, <2>7, RunTailOut
    <3>2. m.frame.bytes = Tail_(m.frame.to - m.frame.from, d + m.frame.to)
      BY <1>2, <1>4, <2>1, <2>7 DEF Shows, Gapless
    <3>3. PICK n \in Nat, k \in Nat : n = p.offset /\ k = m.frame.to /\ n <= k
      BY <1>5, <2>4, <2>7, <3>1
    <3>14. PICK es, fs : es = p.cuts /\ fs = es \cup {k}
      OBVIOUS
    <3>15. PICK a \in Seq(Nat), u \in Seq(Nat), f \in Seq(Nat) :
             a = p.shown \o p.held /\ f = m.frame.bytes /\ u = Decode(f)
      BY <1>1, <1>5, <1>12, <2>7, OnPage
    <3>4. /\ a = p.shown \o p.held /\ f = m.frame.bytes /\ u = Decode(f)
          /\ es = p.cuts /\ fs = es \cup {k}
      BY <3>14, <3>15
    <3>5. /\ a = Text(n, d, es) /\ es \subseteq 0..n /\ n \in es
          /\ f = Tail_(k - n, d + k) /\ n < k
      BY <1>5, <2>1, <2>7, <3>1, <3>2, <3>3, <3>4 DEF Shows
    <3>10. PICK l \in Nat, h \in Nat : l = k - n /\ h = d + k
      BY <3>5
    <3>11. f = Tail_(l, h)
      BY <3>5, <3>10
    <3>13. PICK r : r = Text(k, d, fs)
      OBVIOUS
    <3>6. a \o u = r
      <4>1. /\ n < k /\ n \in es /\ es \subseteq 0..n /\ l = k - n /\ h = d + k /\ f = Tail_(l, h)
            /\ a = Text(n, d, es) /\ u = Decode(f) /\ fs = es \cup {k} /\ r = Text(k, d, fs)
        BY <3>4, <3>5, <3>10, <3>11, <3>13, Zenon
      <4> QED
        BY <4>1, TextGrows
    <3>12. n + Len(f) = k
      <4>1. Len(f) = l
        <5>1. f = [i \in 1..l |-> h - l + i]
          BY <3>11, Zenon DEF Tail_
        <5> QED
          BY <5>1
      <4> QED
        BY <3>10, <4>1
    <3>8. p2.offset = k
      BY <1>11, <2>7, <3>3, <3>4, <3>12, Zenon
    <3>9. p2.cuts = fs /\ p2.cuts \subseteq 0..k /\ k \in p2.cuts
      <4>1. p2.cuts = fs
        BY <1>11, <2>7, <3>3, <3>4, <3>12, Zenon
      <4> QED
        BY <3>4, <3>5, <4>1
    <3>7. p2.shown \o p2.held = Text(k, d, p2.cuts)
      <4>1. p2.shown \o p2.held = a \o u
        BY <1>8, <2>1, <2>7, <3>4, Zenon DEF Counts
      <4> QED
        BY <3>6, <3>9, <3>13, <4>1, Zenon
    <3> QED
      BY <1>2, <2>1, <2>2, <2>3, <2>5, <3>1, <3>3, <3>7, <3>8, <3>9 DEF Shows
  <2> QED
    BY <1>4, <2>6, <2>7
<1> QED
  BY <1>6, <1>7, <1>9, <1>10 DEF Fine

\* The mouse goes down.
LEMMA Selects ==
    ASSUME NEW pm, NEW w, NEW p, NEW x \in BOOLEAN, NEW y \in BOOLEAN,
           NEW d \in Nat, NEW t \in Nat, NEW b \in Nat, Fine(pm, w, p, x, y, d, t, b),
           NEW p2, p2 = [p EXCEPT !.selecting = TRUE]
    PROVE  Fine(pm, w, p2, x, y, d, t, b)
<1>1. p \in WebPage /\ Typed(pm, w, p)
  BY DEF Fine, Typed
<1>2. /\ p2 \in WebPage /\ p2.open = p.open /\ p2.offset = p.offset /\ p2.chain = p.chain /\ p2.shown = p.shown
      /\ p2.preview = p.preview /\ p2.selecting /\ p2.held = p.held /\ p2.cuts = p.cuts
  BY <1>1 DEF WebPage
<1>3. Typed(pm, w, p2)
  BY <1>1, <1>2 DEF Typed
<1>4. Counts(pm, w, p) => Counts(pm, w, p2)
  BY <1>2, Zenon DEF Counts, Blank
<1>5. Shows(Flight(pm, w), pm.offset, p, d, t) => Shows(Flight(pm, w), pm.offset, p2, d, t)
  BY <1>2, Zenon DEF Shows
<1> QED
  BY <1>3, <1>4, <1>5, Zenon DEF Fine

\* The mouse comes up, and what was held back is shown.
Releases(p, p2) ==
    /\ p2 \in WebPage
    /\ p2.open = p.open /\ p2.offset = p.offset /\ p2.chain = p.chain /\ p2.preview = p.preview
    /\ p2.shown = p.shown \o p.held /\ p2.held = <<>> /\ p2.cuts = p.cuts

LEMMA Deselects ==
    ASSUME NEW pm, NEW w, NEW p, NEW x \in BOOLEAN, NEW y \in BOOLEAN,
           NEW d \in Nat, NEW t \in Nat, NEW b \in Nat, Fine(pm, w, p, x, y, d, t, b),
           NEW p2, Releases(p, p2)
    PROVE  Fine(pm, w, p2, x, y, d, t, b)
<1>0. /\ p2 \in WebPage
      /\ p2.open = p.open /\ p2.offset = p.offset /\ p2.chain = p.chain /\ p2.preview = p.preview
      /\ p2.shown = p.shown \o p.held /\ p2.held = <<>> /\ p2.cuts = p.cuts
  BY DEF Releases
<1>1. p \in WebPage /\ Typed(pm, w, p)
  BY DEF Fine, Typed
<1>2. p2.shown \o p2.held = p.shown \o p.held
  <2>1. PICK a \in Seq(Nat) : a = p.shown \o p.held
    BY <1>1, OnPage
  <2>2. a \o <<>> = a
    BY ConcatEmptySeq, ZenonT(60)
  <2> QED
    BY <1>0, <2>1, <2>2, Zenon
<1>3. Typed(pm, w, p2)
  BY <1>0, <1>1 DEF Typed
<1>4. Blank(p) => Blank(p2)
  <2>1. <<>> \o <<>> = <<>>
    OBVIOUS
  <2> QED
    BY <1>0, <2>1, Zenon DEF Blank
<1>5. Counts(pm, w, p) => Counts(pm, w, p2)
  BY <1>0, <1>2, <1>4, Zenon DEF Counts
<1>6. Shows(Flight(pm, w), pm.offset, p, d, t) => Shows(Flight(pm, w), pm.offset, p2, d, t)
  BY <1>0, <1>2, Zenon DEF Shows
<1> QED
  BY <1>3, <1>5, <1>6, Zenon DEF Fine

\* No connection, and a page that is as it was.
LEMMA Closes ==
    ASSUME NEW pm, NEW w, NEW p, Typed(pm, w, p), NEW p2, p2 = [p EXCEPT !.open = FALSE]
    PROVE  /\ p2 \in WebPage /\ ~p2.open /\ p2.offset = p.offset /\ p2.chain = p.chain
           /\ p2.shown = p.shown /\ p2.held = p.held /\ p2.cuts = p.cuts
           /\ Typed(NoPump, <<>>, p2)
           /\ Flight(NoPump, <<>>) = <<>> /\ Outs(<<>>) = {}
           /\ \A d, t, b : Sends(<<>>, NoPump.offset, d, t, b)
           /\ Counts(pm, w, p) => Counts(NoPump, <<>>, p2)
<1>1. p \in WebPage
  BY DEF Typed
<1>2. /\ p2 \in WebPage /\ ~p2.open /\ p2.offset = p.offset /\ p2.chain = p.chain /\ p2.shown = p.shown
      /\ p2.preview = p.preview /\ p2.selecting = p.selecting /\ p2.held = p.held /\ p2.cuts = p.cuts
  BY <1>1 DEF WebPage
<1>3. NoPump \in Connection /\ NoPump.phase = "off" /\ NoPump.offset = 0 /\ NoPump.job = NoFrame
  BY DEF NoPump, Connection
<1>4. Typed(NoPump, <<>>, p2)
  <2>1. <<>> \in Seq(Message)
    OBVIOUS
  <2> QED
    BY <1>2, <1>3, <2>1 DEF Typed
<1>5. Flight(NoPump, <<>>) = <<>>
  <2>1. <<>> \in Seq(Message)
    OBVIOUS
  <2> QED
    BY <1>3, <2>1, FlightIs
<1>6. Outs(<<>>) = {} /\ Previews(<<>>) = {}
  BY DEF Outs, Previews
<1>7. ASSUME NEW d, NEW t, NEW b PROVE Sends(<<>>, NoPump.offset, d, t, b)
  <2>1. Run(<<>>, 0, 0)
    BY <1>6, RunOfNone
  <2> QED
    BY <1>3, <1>6, <2>1 DEF Sends, AllSendable
<1>8. Counts(pm, w, p) => Counts(NoPump, <<>>, p2)
  BY <1>2, <1>3, <1>6, Zenon DEF Counts, Blank
<1> QED
  BY <1>2, <1>4, <1>5, <1>6, <1>7, <1>8

\* The socket dies.
LEMMA Loses ==
    ASSUME NEW pm, NEW w, NEW p, NEW x \in BOOLEAN, NEW y \in BOOLEAN,
           NEW d \in Nat, NEW t \in Nat, NEW b \in Nat, Fine(pm, w, p, x, y, d, t, b),
           NEW p2, p2 = [p EXCEPT !.open = FALSE]
    PROVE  Fine(NoPump, <<>>, p2, x, y, d, t, b)
<1>1. Typed(pm, w, p)
  BY DEF Fine
<1>2. /\ ~p2.open /\ p2.offset = p.offset /\ p2.chain = p.chain
      /\ p2.shown = p.shown /\ p2.held = p.held /\ p2.cuts = p.cuts
      /\ Typed(NoPump, <<>>, p2)
      /\ Flight(NoPump, <<>>) = <<>> /\ Outs(<<>>) = {}
      /\ Sends(<<>>, NoPump.offset, d, t, b)
      /\ Counts(pm, w, p) => Counts(NoPump, <<>>, p2)
  BY <1>1, Closes
<1>3. ASSUME Shows(Flight(pm, w), pm.offset, p, d, t)
      PROVE  Shows(<<>>, NoPump.offset, p2, d, t)
  <2>1. PICK mid \in Nat : mid <= t /\ Run(p.chain, p.offset, mid)
    BY <1>3 DEF Shows
  <2>2. Run(<<>>, mid, mid) /\ Gapless(<<>>, d)
    BY <1>2, RunOfNone DEF Gapless
  <2> QED
    BY <1>2, <1>3, <2>1, <2>2 DEF Shows
<1> QED
  BY <1>2, <1>3 DEF Fine

\* Another daemon, whose ring is empty after all that was written.
LEMMA Reboots ==
    ASSUME NEW pm, NEW w, NEW p, NEW x \in BOOLEAN, NEW y \in BOOLEAN,
           NEW d \in Nat, NEW t \in Nat, NEW b \in Nat, Fine(pm, w, p, x, y, d, t, b),
           NEW p2, p2 = [p EXCEPT !.open = FALSE], NEW e \in Nat,
           NEW x2 \in BOOLEAN, x2 => x /\ p.offset = 0 /\ p.chain = <<>>
    PROVE  Fine(NoPump, <<>>, p2, x2, y, e, 0, 0)
<1>1. Typed(pm, w, p) /\ p \in WebPage
  BY DEF Fine, Typed
<1>2. /\ ~p2.open /\ p2.offset = p.offset /\ p2.chain = p.chain
      /\ p2.shown = p.shown /\ p2.held = p.held /\ p2.cuts = p.cuts
      /\ Typed(NoPump, <<>>, p2)
      /\ Flight(NoPump, <<>>) = <<>> /\ Outs(<<>>) = {}
      /\ Sends(<<>>, NoPump.offset, e, 0, 0)
      /\ Counts(pm, w, p) => Counts(NoPump, <<>>, p2)
  BY <1>1, Closes
<1>3. x2 => Counts(NoPump, <<>>, p2)
  BY <1>2 DEF Fine
<1>4. ASSUME x2, y PROVE Shows(<<>>, NoPump.offset, p2, e, 0)
  <2>1. p2.shown \o p2.held = <<>>
    <3>1. Len(p.shown \o p.held) = 0
      BY <1>4 DEF Fine, Counts
    <3>2. p.shown = <<>> /\ p.held = <<>>
      BY <1>1, <3>1, OnPage
    <3>3. <<>> \o <<>> = <<>>
      OBVIOUS
    <3> QED
      BY <1>2, <3>2, <3>3, Zenon
  <2>2. Text(0, e, p2.cuts) = <<>>
    BY DEF Text
  <2>3. Run(<<>>, 0, 0) /\ Gapless(<<>>, e)
    BY <1>2, RunOfNone DEF Gapless
  <2>5. p2.cuts \subseteq 0..p2.offset /\ p2.offset \in p2.cuts
    <3>1. Shows(Flight(pm, w), pm.offset, p, d, t)
      BY <1>4 DEF Fine
    <3>2. p.cuts \subseteq 0..p.offset /\ p.offset \in p.cuts
      BY <3>1 DEF Shows
    <3> QED
      BY <1>2, <3>2
  <2>4. /\ p2.shown \o p2.held = Text(p2.offset, e, p2.cuts)
        /\ 0 <= 0 /\ Run(p2.chain, p2.offset, 0) /\ Run(<<>>, 0, IF p2.open THEN NoPump.offset ELSE 0)
        /\ Gapless(p2.chain, e)
    <3>1. p2.chain = <<>> /\ p2.offset = 0 /\ ~p2.open
      BY <1>2, <1>4
    <3>2. Text(p2.offset, e, p2.cuts) = <<>>
      BY <2>2, <3>1, Zenon
    <3>3. Run(p2.chain, p2.offset, 0) /\ Gapless(p2.chain, e) /\ 0 <= 0
      BY <2>3, <3>1
    <3>4. (IF p2.open THEN NoPump.offset ELSE 0) = 0
      BY <3>1
    <3> QED
      BY <2>1, <2>3, <3>2, <3>3, <3>4, Zenon
  <2> QED
    BY <1>2, <2>3, <2>4, <2>5 DEF Shows
<1> QED
  BY <1>2, <1>3, <1>4 DEF Fine

----------------------------------------------------------------------------
(* What the pumps need of the ring.                                        *)

\* Nothing that has gone comes back, and the cached frame stays.
Onward(r, s) == s.base >= r.base /\ s.cache = r.cache

LEMMA CompactsOnward ==
    ASSUME NEW r, NEW d \in Nat, IsRing(r), InPlace(r, d)
    PROVE  Onward(r, Compact(r)) /\ (Cap <= 2 * HotMax => Compact(r).cold = r.cold)
<1>1. CASE Cap <= 2 * HotMax
  <2>1. Compact(r) = r /\ r.base \in Nat
    BY <1>1 DEF Compact, IsRing
  <2> QED
    BY <2>1 DEF Onward
<1>2. CASE ~(Cap <= 2 * HotMax)
  <2>1. Compact(r).base = r.base /\ r.base \in Nat
    BY CompactKeeps DEF IsRing
  <2>2. PICK c, h : Compact(r) = [r EXCEPT !.cold = c, !.hot = h]
    BY <1>2 DEF Compact
  <2>3. Compact(r) = [base |-> r.base, cold |-> c, hot |-> h, cache |-> r.cache]
    BY <2>2, WithColdHot, ZenonT(80)
  <2> QED
    BY <1>2, <2>1, <2>3 DEF Onward
<1> QED
  BY <1>1, <1>2

LEMMA EvictsOnward ==
    ASSUME NEW r, NEW d \in Nat, IsRing(r), InPlace(r, d), Len(r.hot) <= HotBound \/ Cap <= 2 * HotMax, Slack(r),
           Cap <= 2 * HotMax => r.cold = <<>>, Retained(r) > 0
    PROVE  Onward(r, EvictOverCap(r)) /\ Stocked(EvictOverCap(r))
<1>0. PICK s : s = EvictOverCap(r)
  OBVIOUS
<1>1. Good(s, d) /\ Total(s) = Total(r)
  BY <1>0, EvictKeeps
<1>2. PICK b \in Nat, x \in Nat, n \in Nat, c \in Nat :
          b = r.base /\ x = Extent(r.cold) /\ n = Retained(r) /\ c = Cap /\ Total(r) = b + n
  BY TotalType, Sizes
<1>3. PICK o \in Int : o = n - c
  OBVIOUS
<1>4. s = IF o <= 0 THEN r
          ELSE IF o <= x
          THEN [r EXCEPT !.base = r.base + Chunks(o) * ChunkRaw,
                         !.cold = SubSeq(r.cold, Chunks(o) + 1, Len(r.cold))]
          ELSE [r EXCEPT !.base = r.base + o, !.cold = <<>>,
                         !.hot = SubSeq(r.hot, o - x + 1, Len(r.hot))]
  BY <1>0, <1>2, <1>3, Zenon DEF EvictOverCap
<1>5. CASE o <= 0
  BY <1>0, <1>2, <1>4, <1>5 DEF Onward, Stocked
<1>6. CASE o > 0 /\ o <= x
  <2>1. PICK k : k = Chunks(o)
    OBVIOUS
  <2>2. k \in Nat /\ Span(k) >= o /\ Span(k) \in Nat
    BY <1>6, <2>1, ChunksCover, SpanType
  <2>3. PICK e, q : /\ e = b + Span(k)
                    /\ s = [r EXCEPT !.base = e, !.cold = q]
    <3>1. s = [r EXCEPT !.base = r.base + Chunks(o) * ChunkRaw, !.cold = SubSeq(r.cold, Chunks(o) + 1, Len(r.cold))]
      BY <1>4, <1>6
    <3>2. r.base + Chunks(o) * ChunkRaw = b + Span(k)
      BY <1>2, <2>1, Zenon DEF Span
    <3> QED
      BY <3>1, <3>2, Zenon
  <2>4. s = [base |-> e, cold |-> q, hot |-> r.hot, cache |-> r.cache]
    BY <2>3, WithBaseCold, ZenonT(80)
  <2>5. e >= b /\ e > 0 /\ e \in Nat
    BY <1>6, <2>2, <2>3
  <2>6. Cap > 2 * HotMax
    <3>1. r.cold = <<>> => Extent(r.cold) = 0
      BY Sizes DEF Extent
    <3> QED
      BY <1>2, <1>6, <3>1, Sizes
  <2>7. Retained(s) > Cap - ChunkRaw
    BY <1>1, <2>4, <2>5 DEF Good, Bounded
  <2>8. Retained(s) > 0
    <3>1. Retained(s) \in Nat
      BY <1>1, TotalType DEF Good
    <3> QED
      BY <2>6, <2>7, <3>1, Sizes
  <2> QED
    BY <1>0, <1>2, <2>4, <2>5, <2>6, <2>8, Sizes DEF Onward, Stocked
<1>7. CASE o > 0 /\ o > x
  <2>1. PICK e, q, h : /\ e \in Nat /\ e = b + o /\ q = <<>>
                       /\ s = [r EXCEPT !.base = e, !.cold = q, !.hot = h]
    <3>1. s = [r EXCEPT !.base = r.base + o, !.cold = <<>>, !.hot = SubSeq(r.hot, o - x + 1, Len(r.hot))]
      BY <1>4, <1>7
    <3>2. r.base + o = b + o /\ b + o \in Nat
      BY <1>2, <1>7
    <3> QED
      BY <3>1, <3>2, Zenon
  <2>2. PICK u : u = [r EXCEPT !.base = e, !.cold = q]
    OBVIOUS
  <2>3. u = [base |-> e, cold |-> q, hot |-> r.hot, cache |-> r.cache]
    BY <2>2, WithBaseCold
  <2>4. s = [base |-> e, cold |-> q, hot |-> h, cache |-> r.cache]
    <3>1. s = [u EXCEPT !.hot = h]
      BY <2>1, <2>2
    <3> QED
      BY <2>3, <3>1
  <2>5. Total(s) = e + Retained(s) /\ Retained(s) \in Nat
    BY <1>1, <2>4, TotalType DEF Good
  <2>6. Retained(s) = c
    <3>1. e + Retained(s) = b + n /\ e = b + (n - c)
      BY <1>1, <1>2, <1>3, <2>1, <2>5
    <3> QED
      BY <3>1, <2>5
  <2>7. s.base >= r.base /\ s.cache = r.cache /\ s.cold = <<>>
    <3>1. s.base = b + o /\ s.cache = r.cache /\ s.cold = <<>>
      BY <2>1, <2>4
    <3> QED
      BY <1>2, <1>7, <3>1
  <2>8. Retained(s) > 0
    BY <1>2, <2>6, Sizes
  <2> QED
    BY <1>0, <2>7, <2>8 DEF Onward, Stocked
<1> QED
  BY <1>5, <1>6, <1>7

LEMMA PushesOnward ==
    ASSUME NEW r, NEW d \in Nat, Good(r, d), NEW data, Next_(r, d, data), Len(data) > 0, Stocked(r)
    PROVE  Onward(r, PushInner(r, data)) /\ Stocked(PushInner(r, data))
<1>1. IsRing(r) /\ InPlace(r, d) /\ Slack(r)
  BY DEF Good, Bounded, Slack
<1>2. PICK n \in Nat : n = Len(data) /\ n > 0
  BY DEF Next_
<1>3. PICK b \in Nat, x \in Nat : b = r.base /\ x = Retained(r) /\ Total(r) = b + x
  BY <1>1, TotalType
<1>4. CASE n >= Cap
  <2>1. PICK k \in Nat : k = n - Cap /\ k <= Len(data)
    <3>1. n - Cap \in Nat /\ n - Cap <= n
      BY <1>4, Sizes
    <3> QED
      BY <1>2, <3>1
  <2>2. PICK s : s = Refilled(r, data, k)
    OBVIOUS
  <2>3. PICK e, c, h : /\ e \in Nat /\ e = b + x + k /\ c = <<>> /\ h = SubSeq(data, k + 1, Len(data))
                       /\ PushInner(r, data) = Compact([r EXCEPT !.base = e, !.cold = c, !.hot = h])
    <3>1. PushInner(r, data) = Compact([r EXCEPT !.base = r.base + Retained(r) + k, !.cold = <<>>,
                                                 !.hot = SubSeq(data, k + 1, Len(data))])
      BY <1>2, <1>4, <2>1, Zenon DEF PushInner
    <3>2. r.base + Retained(r) + k = b + x + k /\ b + x + k \in Nat
      BY <1>3
    <3> QED
      BY <3>1, <3>2, Zenon
  <2>4. [r EXCEPT !.base = e, !.cold = c, !.hot = h] = s
    <3>1. PICK u : u = [r EXCEPT !.base = e, !.cold = c]
      OBVIOUS
    <3>2. u = [base |-> e, cold |-> c, hot |-> r.hot, cache |-> r.cache]
      BY <1>1, <3>1, WithBaseCold
    <3>3. [u EXCEPT !.hot = h] = [base |-> e, cold |-> c, hot |-> h, cache |-> r.cache]
      BY <3>2
    <3>4. [r EXCEPT !.base = e, !.cold = c, !.hot = h] = [u EXCEPT !.hot = h]
      BY <3>1
    <3>5. s = [base |-> e, cold |-> c, hot |-> h, cache |-> r.cache]
      BY <1>3, <2>2, <2>3 DEF Refilled
    <3> QED
      BY <3>3, <3>4, <3>5
  <2>5. /\ IsRing(s) /\ InPlace(s, d) /\ s.base = Total(r) + k
        /\ Retained(s) = Len(data) - k
    BY <1>1, <2>1, <2>2, RefillKeeps
  <2>6. s.base = e /\ s.cache = r.cache /\ s.cold = <<>> /\ Retained(s) = Cap
    BY <1>2, <1>3, <2>1, <2>2, <2>3, <2>5, Sizes DEF Refilled
  <2>7. PICK q : q = Compact(s) /\ q = PushInner(r, data)
    BY <2>3, <2>4
  <2>8. Onward(s, q) /\ (Cap <= 2 * HotMax => q.cold = s.cold) /\ Retained(q) = Retained(s) /\ q.base = s.base
    BY <2>5, <2>7, CompactsOnward, CompactKeeps
  <2>9. q.base >= r.base /\ q.cache = r.cache
    <3>1. q.base = e /\ q.cache = s.cache
      BY <2>6, <2>8 DEF Onward
    <3> QED
      BY <1>3, <2>1, <2>3, <2>6, <3>1
  <2>10. (Cap <= 2 * HotMax => q.cold = <<>>) /\ Retained(q) > 0
    BY <2>6, <2>8, Sizes
  <2> QED
    BY <2>7, <2>9, <2>10 DEF Onward, Stocked
<1>5. CASE ~(n >= Cap)
  <2>1. PICK s : s = HotIs(r, r.hot \o data)
    OBVIOUS
  <2>2. PushInner(r, data) = EvictOverCap(Compact(s))
    <3>1. PushInner(r, data) = EvictOverCap(Compact([r EXCEPT !.hot = r.hot \o data]))
      BY <1>2, <1>5, Zenon DEF PushInner
    <3>2. [r EXCEPT !.hot = r.hot \o data] = s
      BY <1>1, <2>1, WithHot, Zenon DEF HotIs
    <3> QED
      BY <3>1, <3>2
  <2>3. /\ IsRing(s) /\ InPlace(s, d) /\ s.base = r.base /\ Retained(s) = Retained(r) + n
        /\ s.cache = r.cache /\ s.cold = r.cold
    <3>1. /\ IsRing(s) /\ InPlace(s, d) /\ s.base = r.base /\ Retained(s) = Retained(r) + n
      BY <1>1, <1>2, <2>1, AppendKeeps
    <3> QED
      BY <2>1, <3>1 DEF HotIs
  <2>4. PICK q : q = Compact(s)
    OBVIOUS
  <2>5. /\ IsRing(q) /\ InPlace(q, d) /\ q.base = s.base /\ Retained(q) = Retained(s)
        /\ (Cap > 2 * HotMax => Len(q.hot) <= HotMax)
        /\ Onward(s, q) /\ (Cap <= 2 * HotMax => q.cold = s.cold)
    BY <2>3, <2>4, CompactKeeps, CompactsOnward
  <2>6. q.base = b /\ Retained(q) = x + n
    BY <1>3, <2>3, <2>5
  <2>7. Slack(q)
    <3>1. b > 0 => x > Cap - ChunkRaw
      BY <1>1, <1>3 DEF Slack
    <3>2. b > 0 => x + n > Cap - ChunkRaw
      BY <3>1, Sizes
    <3> QED
      BY <2>6, <3>2 DEF Slack
  <2>8. Len(q.hot) <= HotBound \/ Cap <= 2 * HotMax
    BY <2>5, Sizes DEF HotBound
  <2>9. (Cap <= 2 * HotMax => q.cold = <<>>) /\ Retained(q) > 0
    BY <1>2, <2>3, <2>5, <2>6 DEF Stocked
  <2>10. Onward(q, EvictOverCap(q)) /\ Stocked(EvictOverCap(q))
    BY <2>5, <2>7, <2>8, <2>9, EvictsOnward
  <2> QED
    BY <1>3, <2>2, <2>3, <2>4, <2>5, <2>6, <2>10 DEF Onward
<1> QED
  BY <1>4, <1>5, Sizes

LEMMA OnlyCache ==
    ASSUME NEW r, NEW d \in Nat, Good(r, d), NEW f, NEW s, s = [r EXCEPT !.cache = f]
    PROVE  s.base = r.base /\ s.cache = f /\ (Stocked(r) => Stocked(s))
<1>1. s = [base |-> r.base, cold |-> r.cold, hot |-> r.hot, cache |-> f]
  BY WithCache DEF Good
<1> QED
  BY <1>1 DEF Stocked, Total, Retained

LEMMA PushGives ==
    ASSUME NEW r, NEW d \in Nat, Good(r, d), NEW data, Next_(r, d, data), Len(data) > 0, Stocked(r), NEW viewers
    PROVE  /\ Push(r, data, viewers).base >= r.base /\ Stocked(Push(r, data, viewers))
           /\ Push(r, data, viewers).cache \in {r.cache, NoFrame}
<1>1. PICK s : s = PushInner(r, data)
  OBVIOUS
<1>2. PICK u : u = [s EXCEPT !.cache = NoFrame]
  OBVIOUS
<1>3. Good(s, d) /\ Onward(r, s) /\ Stocked(s)
  BY <1>1, PushInnerKeeps, PushesOnward
<1>4. u.base = s.base /\ u.cache = NoFrame /\ Stocked(u)
  BY <1>2, <1>3, OnlyCache, ZenonT(60)
<1>5. Push(r, data, viewers) = s \/ Push(r, data, viewers) = u
  BY <1>1, <1>2 DEF Push
<1> QED
  BY <1>3, <1>4, <1>5 DEF Onward

LEMMA StoreGives ==
    ASSUME NEW r, NEW d \in Nat, Good(r, d), Stocked(r), NEW f
    PROVE  /\ StoreFrame(r, f).base = r.base /\ Stocked(StoreFrame(r, f))
           /\ StoreFrame(r, f).cache \in {r.cache, f}
<1>1. PICK u : u = [r EXCEPT !.cache = f]
  OBVIOUS
<1>2. u.base = r.base /\ u.cache = f /\ Stocked(u)
  BY <1>1, OnlyCache
<1>3. StoreFrame(r, f) = r \/ StoreFrame(r, f) = u
  BY <1>1 DEF StoreFrame
<1> QED
  BY <1>2, <1>3

LEMMA NewIsStocked == Stocked(NewRing) /\ NewRing.base = 0 /\ NewRing.cache = NoFrame
<1>1. NewRing.base = 0 /\ NewRing.cold = <<>> /\ NewRing.cache = NoFrame
  BY DEF NewRing
<1>2. Total(NewRing) = 0
  BY NewIsGood
<1> QED
  BY <1>1, <1>2 DEF Stocked

LEMMA CachedLonger ==
    ASSUME NEW f, NEW d \in Nat, NEW t \in Nat, NEW b \in Nat, Cached(f, d, t, b),
           NEW t2 \in Nat, t <= t2, NEW b2 \in Nat, b <= b2
    PROVE  Cached(f, d, t2, b2)
<1>1. f \in Frame => f.from \in Nat /\ f.to \in Nat
  BY DEF Frame
<1> QED
  BY <1>1 DEF Cached, Sendable

LEMMA TailIs ==
    ASSUME NEW k \in Nat, NEW n \in Nat, k <= n
    PROVE  Tail_(k, n) \in Seq(Nat) /\ Len(Tail_(k, n)) = k
<1>1. PICK q : q = Tail_(k, n)
  OBVIOUS
<1>2. q = [i \in 1..k |-> n - k + i]
  BY <1>1 DEF Tail_
<1>3. q \in [1..k -> Nat]
  BY <1>2
<1> QED
  BY <1>1, <1>3, FunctionIsSeq

\* What the ring gives for an offset can be sent as a frame.
LEMMA SinceIsSendable ==
    ASSUME NEW r, NEW d \in Nat, Good(r, d), Stocked(r), NEW o \in Nat, o < Total(r)
    PROVE  /\ Since(r, o) # <<>>
           /\ Sendable(Out(o, Total(r), Since(r, o)), d, Total(r), r.base)
<1>1. PICK b \in Nat, n \in Nat, t \in Nat :
          b = r.base /\ n = Retained(r) /\ t = Total(r) /\ t = b + n
  BY TotalType DEF Good
<1>2. n > 0 /\ o < t
  BY <1>1 DEF Stocked
<1>3. PICK k \in Nat : k = Owed(r, o) /\ k > 0 /\ k <= t /\ (o >= b => k = t - o)
  <2>1. Owed(r, o) = IF t - o < 0 THEN 0 ELSE IF t - o > n THEN n ELSE t - o
    BY <1>1 DEF Owed
  <2> QED
    BY <1>1, <1>2, <2>1
<1>4. PICK q : q = Since(r, o)
  OBVIOUS
<1>0. Since(r, o) = Tail_(Owed(r, o), d + Total(r))
  BY SinceIsExact DEF Good
<1>5. q = Tail_(k, d + t)
  BY <1>0, <1>1, <1>3, <1>4, Zenon
<1>6. q \in Seq(Nat) /\ Len(q) = k
  <2>1. PICK m \in Nat : m = d + t /\ k <= m
    BY <1>3
  <2> QED
    BY <1>5, <2>1, TailIs
<1>7. q # <<>>
  <2>1. Len(q) = k /\ k > 0
    BY <1>3, <1>6
  <2> QED
    BY <2>1
<1>8. PICK f : f = Out(o, t, q)
  OBVIOUS
<1>9. f \in Frame /\ f.from = o /\ f.to = t /\ f.bytes = q
  BY <1>6, <1>8 DEF Frame, Out
<1>10. Sendable(f, d, t, b)
  BY <1>2, <1>3, <1>5, <1>6, <1>7, <1>9 DEF Sendable
<1> QED
  BY <1>1, <1>4, <1>7, <1>8, <1>10

LEMMA NothingBeyond ==
    ASSUME NEW r, NEW d \in Nat, Good(r, d), NEW o \in Nat, o >= Total(r)
    PROVE  Since(r, o) = <<>>
BY DEF Since

----------------------------------------------------------------------------
(* The inductive invariant.                                                *)

Shape ==
    /\ lock \in [asked : BOOLEAN, tab : BOOLEAN, snap : BOOLEAN, queued : BOOLEAN, drained : BOOLEAN]
    /\ pump \in [Viewer -> Connection] /\ wire \in [Viewer -> Seq(Message)]
    /\ page \in [Viewer -> WebPage]
    /\ exact \subseteq Viewer /\ whole \subseteq Viewer

TabInv == RingInv /\ Stocked(ring) /\ Cached(ring.cache, Before, Total(ring), ring.base)

ViewersInv == TabInv /\ Shape /\ \A v \in Viewer : FineAt(v)

\* The ring in numbers.
LEMMA Numbers ==
    ASSUME TabInv
    PROVE  \E d \in Nat : \E t \in Nat : \E b \in Nat :
              /\ d = Before /\ t = Total(ring) /\ b = ring.base /\ b <= t
              /\ written = d + t /\ Good(ring, d) /\ Cached(ring.cache, d, t, b)
<1>1. PICK t \in Nat : t = Total(ring)
  BY TotalType DEF TabInv, RingInv, Good
<1>2. PICK b \in Nat : b = ring.base /\ b <= t
  <2>1. ring.base \in Nat /\ Retained(ring) \in Nat /\ Total(ring) = ring.base + Retained(ring)
    BY TotalType DEF TabInv, RingInv, Good
  <2> QED
    BY <1>1, <2>1
<1>3. PICK d \in Nat : d = written - t /\ written = d + t
  BY <1>1 DEF TabInv, RingInv
<1>4. d = Before /\ Good(ring, d)
  BY <1>1, <1>3 DEF Before, TabInv, RingInv
<1> QED
  BY <1>1, <1>2, <1>3, <1>4 DEF TabInv

LEMMA SetOne ==
    ASSUME NEW S, NEW f \in [Viewer -> S], NEW v \in Viewer, NEW e \in S, NEW g, g = [f EXCEPT ![v] = e]
    PROVE  g \in [Viewer -> S] /\ g[v] = e /\ \A z \in Viewer : z # v => g[z] = f[z]
OBVIOUS

LEMMA Truth ==
    ASSUME NEW z, NEW S
    PROVE  \E x \in BOOLEAN : x = (z \in S)
<1>1. CASE z \in S
  <2>1. TRUE \in BOOLEAN /\ TRUE = (z \in S)
    BY <1>1
  <2> QED
    BY <2>1, Zenon
<1>2. CASE z \notin S
  <2>1. FALSE \in BOOLEAN /\ FALSE = (z \in S)
    BY <1>2
  <2> QED
    BY <2>1, Zenon
<1> QED
  BY <1>1, <1>2

\* The ring, for the viewers, as it was.
SameRing == Before' = Before /\ Total(ring') = Total(ring) /\ ring'.base = ring.base

\* One viewer's values change.
LEMMA OneMoves ==
    ASSUME TabInv, \A z \in Viewer : FineAt(z), NEW v \in Viewer, SameRing,
           \A z \in Viewer : z # v => /\ pump'[z] = pump[z] /\ wire'[z] = wire[z] /\ page'[z] = page[z]
                                      /\ z \in exact' => z \in exact
                                      /\ z \in whole' => z \in whole,
           Fine(pump'[v], wire'[v], page'[v], v \in exact', v \in whole', Before, Total(ring), ring.base)
    PROVE  \A z \in Viewer : FineAt(z)'
<1> SUFFICES ASSUME NEW z \in Viewer PROVE FineAt(z)'
  OBVIOUS
<1>1. PICK d \in Nat : \E t \in Nat : \E b \in Nat :
          /\ d = Before /\ t = Total(ring) /\ b = ring.base
  BY Numbers
<1>2. PICK t \in Nat : \E b \in Nat : t = Total(ring) /\ b = ring.base
  BY <1>1
<1>3. PICK b \in Nat : b = ring.base
  BY <1>2
<1>4. Before' = d /\ Total(ring') = t /\ ring'.base = b
  BY <1>1, <1>2, <1>3 DEF SameRing
<1>5. CASE z = v
  BY <1>1, <1>2, <1>3, <1>4, <1>5, Zenon DEF FineAt
<1>6. CASE z # v
  <2>1. Fine(pump[z], wire[z], page[z], z \in exact, z \in whole, d, t, b)
    BY <1>1, <1>2, <1>3, Zenon DEF FineAt
  <2>2. (z \in exact' => z \in exact) /\ (z \in whole' => z \in whole)
    BY <1>6
  <2>3. PICK x \in BOOLEAN : x = (z \in exact)
    BY Truth, Zenon
  <2>7. PICK y \in BOOLEAN : y = (z \in whole)
    BY Truth, Zenon
  <2>8. PICK x2 \in BOOLEAN : x2 = (z \in exact')
    BY Truth, Zenon
  <2>9. PICK y2 \in BOOLEAN : y2 = (z \in whole')
    BY Truth, Zenon
  <2>4. Fine(pump[z], wire[z], page[z], x, y, d, t, b)
    BY <2>1, <2>3, <2>7, Zenon
  <2>5. (x2 => x) /\ (y2 => y) /\ t <= t /\ b <= b
    <3>1. (x2 => x) /\ (y2 => y)
      BY <2>2, <2>3, <2>7, <2>8, <2>9, Zenon
    <3> QED
      BY <3>1
  <2>6. Fine(pump[z], wire[z], page[z], x2, y2, d, t, b)
    BY <2>4, <2>5, Longer
  <2>10. Fine(pump'[z], wire'[z], page'[z], z \in exact', z \in whole', Before', Total(ring'), ring'.base)
    BY <1>4, <1>6, <2>6, <2>8, <2>9, Zenon
  <2> QED
    BY <2>10 DEF FineAt
<1> QED
  BY <1>5, <1>6

LEMMA TabUntouched ==
    ASSUME TabInv, UNCHANGED tab
    PROVE  TabInv' /\ SameRing
<1>1. RingInv'
  BY RingUntouched DEF TabInv
<1>2. ring' = ring /\ written' = written
  BY DEF tab
<1>3. SameRing
  BY <1>2 DEF SameRing, Before
<1> QED
  BY <1>1, <1>2, <1>3 DEF TabInv, SameRing

----------------------------------------------------------------------------
(* The steps of one connection.                                            *)

\* What changes of one viewer.
Moved(v, q, u, p) ==
    /\ pump' = [pump EXCEPT ![v] = q]
    /\ wire' = [wire EXCEPT ![v] = u]
    /\ page' = [page EXCEPT ![v] = p]

LEMMA SetSame ==
    ASSUME NEW S, NEW f \in [Viewer -> S], NEW v \in Viewer
    PROVE  f = [f EXCEPT ![v] = f[v]] /\ f[v] \in S
OBVIOUS

\* What holds of a viewer, with truth values for its being exact and whole.
LEMMA At ==
    ASSUME ViewersInv, NEW v \in Viewer
    PROVE  \E x \in BOOLEAN : \E y \in BOOLEAN :
              /\ x = (v \in exact) /\ y = (v \in whole)
              /\ Fine(pump[v], wire[v], page[v], x, y, Before, Total(ring), ring.base)
<1>1. PICK x \in BOOLEAN : x = (v \in exact)
  BY Truth, Zenon
<1>2. PICK y \in BOOLEAN : y = (v \in whole)
  BY Truth, Zenon
<1>3. Fine(pump[v], wire[v], page[v], v \in exact, v \in whole, Before, Total(ring), ring.base)
  BY Zenon DEF ViewersInv, FineAt
<1> QED
  BY <1>1, <1>2, <1>3, Zenon

LEMMA Steps ==
    ASSUME ViewersInv, TabInv', SameRing, NEW v \in Viewer,
           NEW q, NEW u, NEW p, Moved(v, q, u, p), lock' = lock,
           exact' \subseteq exact, whole' \subseteq whole,
           NEW x \in BOOLEAN, x = (v \in exact'), NEW y \in BOOLEAN, y = (v \in whole'),
           Fine(q, u, p, x, y, Before, Total(ring), ring.base)
    PROVE  ViewersInv'
<1>1. q \in Connection /\ u \in Seq(Message) /\ p \in WebPage
  BY DEF Fine, Typed
<1>2. /\ pump' \in [Viewer -> Connection] /\ pump'[v] = q
      /\ \A z \in Viewer : z # v => pump'[z] = pump[z]
  BY <1>1, SetOne DEF ViewersInv, Shape, Moved
<1>3. /\ wire' \in [Viewer -> Seq(Message)] /\ wire'[v] = u
      /\ \A z \in Viewer : z # v => wire'[z] = wire[z]
  <2>1. wire \in [Viewer -> Seq(Message)] /\ wire' = [wire EXCEPT ![v] = u]
    BY DEF ViewersInv, Shape, Moved
  <2> QED
    BY <1>1, <2>1, SetOne, Zenon
<1>4. /\ page' \in [Viewer -> WebPage] /\ page'[v] = p
      /\ \A z \in Viewer : z # v => page'[z] = page[z]
  BY <1>1, SetOne DEF ViewersInv, Shape, Moved
<1>5. Shape'
  BY <1>2, <1>3, <1>4 DEF ViewersInv, Shape
<1>6. Fine(pump'[v], wire'[v], page'[v], v \in exact', v \in whole', Before, Total(ring), ring.base)
  BY <1>2, <1>3, <1>4, Zenon
<1>7. \A z \in Viewer : z # v => /\ pump'[z] = pump[z] /\ wire'[z] = wire[z] /\ page'[z] = page[z]
                                 /\ z \in exact' => z \in exact
                                 /\ z \in whole' => z \in whole
  BY <1>2, <1>3, <1>4
<1>8. TabInv /\ \A z \in Viewer : FineAt(z)
  BY DEF ViewersInv
<1>9. \A z \in Viewer : FineAt(z)'
  BY <1>6, <1>7, <1>8, OneMoves, Zenon
<1> QED
  BY <1>5, <1>9 DEF ViewersInv

\* The same, where neither the tab nor the histories change.
LEMMA PlainSteps ==
    ASSUME ViewersInv, NEW v \in Viewer, UNCHANGED <<tab, lock, exact, whole>>,
           NEW q, NEW u, NEW p, Moved(v, q, u, p),
           \A x \in BOOLEAN : \A y \in BOOLEAN : \A d \in Nat : \A t \in Nat : \A b \in Nat :
              Fine(pump[v], wire[v], page[v], x, y, d, t, b) => Fine(q, u, p, x, y, d, t, b)
    PROVE  ViewersInv'
<1>1. TabInv' /\ SameRing
  <2>1. TabInv /\ UNCHANGED tab
    BY DEF ViewersInv, tab
  <2> QED
    BY <2>1, TabUntouched
<1>2. PICK x \in BOOLEAN : \E y \in BOOLEAN :
          /\ x = (v \in exact) /\ y = (v \in whole)
          /\ Fine(pump[v], wire[v], page[v], x, y, Before, Total(ring), ring.base)
  BY At, Zenon
<1>3. PICK y \in BOOLEAN :
          /\ y = (v \in whole)
          /\ Fine(pump[v], wire[v], page[v], x, y, Before, Total(ring), ring.base)
  BY <1>2
<1>4. Before \in Nat /\ Total(ring) \in Nat /\ ring.base \in Nat
  BY Numbers DEF ViewersInv
<1>5. Fine(q, u, p, x, y, Before, Total(ring), ring.base)
  BY <1>3, <1>4, Zenon
<1>6. exact' \subseteq exact /\ whole' \subseteq whole /\ x = (v \in exact') /\ y = (v \in whole') /\ lock' = lock
  BY <1>2, <1>3
<1> QED
  BY <1>1, <1>5, <1>6, Steps, ZenonT(60)

LEMMA EnterSteps ==
    ASSUME ViewersInv, NEW v \in Viewer, Enter(v)
    PROVE  ViewersInv'
<1>1. PICK pm, q : pm \in Connection /\ pm = pump[v] /\ q = [pm EXCEPT !.phase = "loop"]
  BY DEF ViewersInv, Shape
<1>2. /\ q \in Connection /\ q.phase = "loop" /\ q.offset = pm.offset /\ q.job = pm.job
      /\ pm.phase = "hello"
  BY <1>1 DEF Connection, Enter
<1>3. PICK w, u : /\ w = wire[v] /\ wire' = [wire EXCEPT ![v] = u]
                  /\ u = w \/ (pm.offset = 0 /\ u = Append(w, Preview))
  <2>1. wire' = [wire EXCEPT ![v] = IF pump[v].offset = 0 /\ Len(Since(ring, 0)) >= PreviewMin
                                   THEN Append(wire[v], Preview) ELSE wire[v]]
    BY DEF Enter
  <2> QED
    BY <1>1, <2>1
<1>4. pump' = [pump EXCEPT ![v] = q]
  BY <1>1 DEF Enter, ViewersInv, Shape
<1>5. page' = [page EXCEPT ![v] = page[v]]
  BY SetSame DEF Enter, ViewersInv, Shape
<1>6. Moved(v, q, u, page[v]) /\ UNCHANGED <<tab, lock, exact, whole>>
  BY <1>3, <1>4, <1>5 DEF Moved, Enter, history
<1>7. ASSUME NEW x \in BOOLEAN, NEW y \in BOOLEAN, NEW d \in Nat, NEW t \in Nat, NEW b \in Nat,
             Fine(pump[v], wire[v], page[v], x, y, d, t, b)
      PROVE  Fine(q, u, page[v], x, y, d, t, b)
  <2>1. Fine(pm, w, page[v], x, y, d, t, b)
    BY <1>1, <1>3, <1>7, Zenon
  <2> QED
    BY <1>2, <1>3, <2>1, Enters
<1> QED
  BY <1>6, <1>7, PlainSteps, ZenonT(60)

LEMMA MetaIs == \A on \in BOOLEAN : Meta(on) \in Message /\ Meta(on).tag = "meta"
BY DEF Meta, Message

LEMMA MetaTickSteps ==
    ASSUME ViewersInv, NEW v \in Viewer, MetaTick(v)
    PROVE  ViewersInv'
<1>1. PICK pm, q : pm \in Connection /\ pm = pump[v] /\ q = [pm EXCEPT !.phase = "meta", !.news = FALSE]
  BY DEF ViewersInv, Shape
<1>2. /\ q \in Connection /\ q.phase = "meta" /\ q.offset = pm.offset /\ q.job = pm.job
      /\ pm.phase = "loop"
  BY <1>1 DEF Connection, MetaTick
<1>4. pump' = [pump EXCEPT ![v] = q]
  BY <1>1 DEF MetaTick, ViewersInv, Shape
<1>5. page' = [page EXCEPT ![v] = page[v]] /\ wire' = [wire EXCEPT ![v] = wire[v]]
  BY SetSame DEF MetaTick, ViewersInv, Shape
<1>6. Moved(v, q, wire[v], page[v]) /\ UNCHANGED <<tab, lock, exact, whole>>
  BY <1>4, <1>5 DEF Moved, MetaTick, history
<1>7. ASSUME NEW x \in BOOLEAN, NEW y \in BOOLEAN, NEW d \in Nat, NEW t \in Nat, NEW b \in Nat,
             Fine(pump[v], wire[v], page[v], x, y, d, t, b)
      PROVE  Fine(q, wire[v], page[v], x, y, d, t, b)
  <2>1. Fine(pm, wire[v], page[v], x, y, d, t, b)
    BY <1>1, <1>7, Zenon
  <2>2. PICK m \in Message : m.tag = "meta"
    BY MetaIs
  <2> QED
    BY <1>2, <2>1, <2>2, Tells
<1> QED
  BY <1>6, <1>7, PlainSteps, ZenonT(60)

LEMMA MetaSendSteps ==
    ASSUME ViewersInv, NEW v \in Viewer, MetaSend(v)
    PROVE  ViewersInv'
<1>1. PICK pm, q : pm \in Connection /\ pm = pump[v] /\ q = [pm EXCEPT !.phase = "loop", !.sent = lock.snap]
  BY DEF ViewersInv, Shape
<1>0. PICK m \in Message : m = Meta(lock.snap) /\ m.tag = "meta"
  <2>1. lock.snap \in BOOLEAN
    BY DEF ViewersInv, Shape
  <2> QED
    BY <2>1, MetaIs
<1>2. /\ q \in Connection /\ q.phase = "loop" /\ q.offset = pm.offset /\ q.job = pm.job
      /\ pm.phase = "meta"
  <2>1. lock.snap \in BOOLEAN
    BY DEF ViewersInv, Shape
  <2> QED
    BY <1>1, <2>1 DEF Connection, MetaSend
<1>3. PICK w, u : w = wire[v] /\ wire' = [wire EXCEPT ![v] = u] /\ (u = w \/ u = Append(w, m))
  <2>1. wire' = [wire EXCEPT ![v] = IF pump[v].sent # lock.snap THEN Append(wire[v], Meta(lock.snap)) ELSE wire[v]]
    BY DEF MetaSend
  <2> QED
    BY <1>0, <2>1
<1>4. pump' = [pump EXCEPT ![v] = q]
  BY <1>1 DEF MetaSend, ViewersInv, Shape
<1>5. page' = [page EXCEPT ![v] = page[v]]
  BY SetSame DEF MetaSend, ViewersInv, Shape
<1>6. Moved(v, q, u, page[v]) /\ UNCHANGED <<tab, lock, exact, whole>>
  BY <1>3, <1>4, <1>5 DEF Moved, MetaSend, history
<1>7. ASSUME NEW x \in BOOLEAN, NEW y \in BOOLEAN, NEW d \in Nat, NEW t \in Nat, NEW b \in Nat,
             Fine(pump[v], wire[v], page[v], x, y, d, t, b)
      PROVE  Fine(q, u, page[v], x, y, d, t, b)
  <2>1. Fine(pm, w, page[v], x, y, d, t, b)
    BY <1>1, <1>3, <1>7, Zenon
  <2> QED
    BY <1>0, <1>2, <1>3, <2>1, Tells
<1> QED
  BY <1>6, <1>7, PlainSteps, ZenonT(60)

LEMMA ReceiveSteps ==
    ASSUME ViewersInv, NEW v \in Viewer, Receive(v)
    PROVE  ViewersInv'
<1>1. PICK p, w : p \in WebPage /\ p = page[v] /\ w = wire[v] /\ w # <<>>
  BY DEF ViewersInv, Shape, Receive
<1>2. PICK m : m = Head(w)
  OBVIOUS
<1>3. PICK p2 : /\ page' = [page EXCEPT ![v] = p2]
                /\ \/ m.tag = "meta" /\ p2 = [p EXCEPT !.locked = m.locked]
                   \/ m.tag # "meta" /\ p2 = [p EXCEPT !.chain = Append(p.chain, m)]
  <2>1. page' = IF m.tag = "meta" THEN [page EXCEPT ![v].locked = m.locked]
                ELSE [page EXCEPT ![v].chain = Append(page[v].chain, m)]
    BY <1>1, <1>2 DEF Receive
  <2>2. CASE m.tag = "meta"
    BY <1>1, <2>1, <2>2 DEF ViewersInv, Shape
  <2>3. CASE m.tag # "meta"
    BY <1>1, <2>1, <2>3 DEF ViewersInv, Shape
  <2> QED
    BY <2>2, <2>3
<1>4. wire' = [wire EXCEPT ![v] = Tail(w)] /\ pump' = [pump EXCEPT ![v] = pump[v]]
  BY <1>1, SetSame DEF Receive, ViewersInv, Shape
<1>6. Moved(v, pump[v], Tail(w), p2) /\ UNCHANGED <<tab, lock, exact, whole>>
  BY <1>3, <1>4 DEF Moved, Receive, history
<1>7. ASSUME NEW x \in BOOLEAN, NEW y \in BOOLEAN, NEW d \in Nat, NEW t \in Nat, NEW b \in Nat,
             Fine(pump[v], wire[v], page[v], x, y, d, t, b)
      PROVE  Fine(pump[v], Tail(w), p2, x, y, d, t, b)
  <2>1. Fine(pump[v], w, p, x, y, d, t, b)
    BY <1>1, <1>7, Zenon
  <2> QED
    BY <1>1, <1>2, <1>3, <2>1, Receives
<1> QED
  BY <1>6, <1>7, PlainSteps, ZenonT(60)

\* handleOut does as Puts says.
LEMMA HandleOutPuts ==
    ASSUME NEW p, NEW r \in WebPage, NEW bytes \in Seq(Nat),
           r.offset = p.offset, r.shown = p.shown, r.held = p.held, r.preview = p.preview,
           r.selecting = p.selecting, r.cuts = p.cuts,
           NEW p2, p2 = HandleOut(r, bytes)
    PROVE  /\ p2 \in WebPage /\ p2.open = r.open /\ p2.chain = r.chain /\ p2.selecting = r.selecting
           /\ Puts(p, p2, bytes)
<1>1. PICK u \in Seq(Nat) : u = IF p.preview THEN <<>> ELSE p.shown
  <2>1. r.shown \in Seq(Nat) /\ <<>> \in Seq(Nat)
    BY DEF WebPage
  <2> QED
    BY <2>1
<1>10. PICK n \in Nat : n = r.offset + Len(bytes)
  BY DEF WebPage
<1>11. PICK text \in Seq(Nat) : text = Decode(bytes)
  BY Decoded
<1>12. PICK es \in SUBSET Nat : es = r.cuts \cup {n}
  BY DEF WebPage
<1>0. PICK none \in Seq(Nat) : none = <<>>
  <2>1. <<>> \in Seq(Nat)
    OBVIOUS
  <2> QED
    BY <2>1, Zenon
<1>13. PICK r0 \in WebPage : r0 = [r EXCEPT !.offset = n]
  BY DEF WebPage
<1>2. PICK r1 \in WebPage : r1 = [r0 EXCEPT !.cuts = es]
  BY DEF WebPage
<1>3. PICK r2 \in WebPage : r2 = [r1 EXCEPT !.preview = FALSE]
  BY DEF WebPage
<1>4. PICK q \in WebPage : q = [r2 EXCEPT !.shown = u]
  BY DEF WebPage
<1>5. /\ q.offset = n /\ ~q.preview /\ q.shown = u /\ q.held = p.held /\ q.selecting = p.selecting
      /\ q.open = r.open /\ q.chain = r.chain /\ q.cuts = es
  BY <1>2, <1>3, <1>4, <1>13 DEF WebPage
<1>6. q = [r EXCEPT !.offset = r.offset + Len(bytes), !.cuts = r.cuts \cup {r.offset + Len(bytes)},
                    !.preview = FALSE, !.shown = IF r.preview THEN <<>> ELSE r.shown]
  <2>1. r0 = [r EXCEPT !.offset = r.offset + Len(bytes)] /\ r0.cuts = r.cuts
    BY <1>10, <1>13 DEF WebPage
  <2>2. r1 = [r0 EXCEPT !.cuts = r0.cuts \cup {r.offset + Len(bytes)}]
    BY <1>2, <1>10, <1>12, <2>1
  <2>3. r2.shown = r.shown /\ u = IF r.preview THEN <<>> ELSE r.shown
    BY <1>1, <1>2, <1>3, <1>13 DEF WebPage
  <2> QED
    BY <1>3, <1>4, <2>1, <2>2, <2>3
<1>7. p2 = IF r.selecting THEN [q EXCEPT !.held = q.held \o text]
           ELSE [q EXCEPT !.shown = q.shown \o r.held \o text, !.held = <<>>]
  BY <1>6, <1>11, Zenon DEF HandleOut
<1>8. CASE p.selecting
  <2>1. PICK h \in Seq(Nat) : h = p.held \o text
    BY ConcatProperties DEF WebPage
  <2>2. p2 = [q EXCEPT !.held = h]
    BY <1>5, <1>7, <1>8, <2>1
  <2>3. p2 \in WebPage /\ p2.offset = n /\ ~p2.preview /\ p2.shown = u /\ p2.held = h
        /\ p2.open = r.open /\ p2.chain = r.chain /\ p2.selecting = r.selecting /\ p2.cuts = es
    BY <1>5, <2>2 DEF WebPage
  <2> QED
    BY <1>1, <1>10, <1>11, <1>12, <1>8, <2>1, <2>3 DEF Puts
<1>9. CASE ~p.selecting
  <2>1. PICK s \in Seq(Nat) : s = u \o p.held \o text
    <3>1. r.held \in Seq(Nat)
      BY DEF WebPage
    <3>2. u \o p.held \in Seq(Nat)
      BY <3>1, ConcatProperties
    <3> QED
      BY <3>2, ConcatProperties
  <2>2. PICK q1 \in WebPage : q1 = [q EXCEPT !.shown = s]
    BY DEF WebPage
  <2>3. p2 = [q1 EXCEPT !.held = none]
    BY <1>0, <1>5, <1>7, <1>9, <2>1, <2>2
  <2>4. p2 \in WebPage /\ p2.offset = n /\ ~p2.preview /\ p2.shown = s /\ p2.held = <<>>
        /\ p2.open = r.open /\ p2.chain = r.chain /\ p2.selecting = r.selecting /\ p2.cuts = es
    BY <1>0, <1>5, <2>2, <2>3 DEF WebPage
  <2> QED
    BY <1>1, <1>10, <1>11, <1>12, <1>9, <2>1, <2>4 DEF Puts
<1> QED
  BY <1>8, <1>9

LEMMA HandleSteps ==
    ASSUME ViewersInv, NEW v \in Viewer, Handle(v)
    PROVE  ViewersInv'
<1>1. PICK p \in WebPage : p = page[v] /\ p.chain # <<>>
  BY DEF ViewersInv, Shape, Handle
<1>2. PICK m : m = Head(p.chain)
  OBVIOUS
<1>3. PICK r \in WebPage : r = [p EXCEPT !.chain = Tail(p.chain)]
  <2>1. p.chain \in Seq(Queued)
    BY DEF WebPage
  <2>2. Tail(p.chain) \in Seq(Queued)
    BY <1>1, <2>1, HeadTailProperties
  <2> QED
    BY <2>2 DEF WebPage
<1>4. /\ r.open = p.open /\ r.chain = Tail(p.chain) /\ r.selecting = p.selecting /\ r.offset = p.offset
      /\ r.shown = p.shown /\ r.held = p.held /\ r.preview = p.preview /\ r.cuts = p.cuts
  BY <1>3 DEF WebPage
<1>5. PICK p2 : /\ p2 = IF m.tag = "preview" THEN [r EXCEPT !.preview = TRUE] ELSE HandleOut(r, m.frame.bytes)
                /\ page' = [page EXCEPT ![v] = p2]
  BY <1>1, <1>2, <1>3 DEF Handle
<1>6. m \in Queued
  <2>1. p.chain \in Seq(Queued)
    BY DEF WebPage
  <2> QED
    BY <1>1, <1>2, <2>1, HeadTailProperties
<1>7. /\ p2 \in WebPage /\ p2.open = p.open /\ p2.chain = Tail(p.chain) /\ p2.selecting = p.selecting
      /\ m.tag = "preview" => /\ p2.offset = p.offset /\ p2.preview /\ p2.shown = p.shown /\ p2.held = p.held
                              /\ p2.cuts = p.cuts
      /\ m.tag # "preview" => Puts(p, p2, m.frame.bytes)
  <2>1. CASE m.tag = "preview"
    <3>1. p2 = [r EXCEPT !.preview = TRUE]
      BY <1>5, <2>1
    <3> QED
      BY <1>3, <1>4, <2>1, <3>1 DEF WebPage
  <2>2. CASE m.tag # "preview"
    <3>1. PICK f \in Seq(Nat) : f = m.frame.bytes
      BY <1>6, <2>2 DEF Queued, Preview, Frame
    <3>2. p2 = HandleOut(r, f)
      BY <1>5, <2>2, <3>1
    <3>3. /\ p2 \in WebPage /\ p2.open = r.open /\ p2.chain = r.chain /\ p2.selecting = r.selecting
          /\ Puts(p, p2, f)
      BY <1>4, <3>2, HandleOutPuts, ZenonT(60)
    <3> QED
      BY <1>4, <2>2, <3>1, <3>3, Zenon
  <2> QED
    BY <2>1, <2>2
<1>8. wire' = [wire EXCEPT ![v] = wire[v]] /\ pump' = [pump EXCEPT ![v] = pump[v]]
  BY SetSame DEF Handle, ViewersInv, Shape
<1>9. Moved(v, pump[v], wire[v], p2) /\ UNCHANGED <<tab, lock, exact, whole>>
  BY <1>5, <1>8 DEF Moved, Handle, history
<1>10. ASSUME NEW x \in BOOLEAN, NEW y \in BOOLEAN, NEW d \in Nat, NEW t \in Nat, NEW b \in Nat,
             Fine(pump[v], wire[v], page[v], x, y, d, t, b)
      PROVE  Fine(pump[v], wire[v], p2, x, y, d, t, b)
  <2>1. Fine(pump[v], wire[v], p, x, y, d, t, b)
    BY <1>1, <1>10, Zenon
  <2> QED
    BY <1>1, <1>2, <1>7, <2>1, Handles
<1> QED
  BY <1>9, <1>10, PlainSteps, ZenonT(60)

LEMMA SelectSteps ==
    ASSUME ViewersInv, NEW v \in Viewer, Select(v)
    PROVE  ViewersInv'
<1>1. PICK p, p2 : p \in WebPage /\ p = page[v] /\ p2 = [p EXCEPT !.selecting = TRUE]
  BY DEF ViewersInv, Shape
<1>2. page' = [page EXCEPT ![v] = p2]
  BY <1>1 DEF Select, ViewersInv, Shape
<1>3. wire' = [wire EXCEPT ![v] = wire[v]] /\ pump' = [pump EXCEPT ![v] = pump[v]]
  BY SetSame DEF Select, ViewersInv, Shape
<1>4. Moved(v, pump[v], wire[v], p2) /\ UNCHANGED <<tab, lock, exact, whole>>
  BY <1>2, <1>3 DEF Moved, Select, history
<1>5. ASSUME NEW x \in BOOLEAN, NEW y \in BOOLEAN, NEW d \in Nat, NEW t \in Nat, NEW b \in Nat,
             Fine(pump[v], wire[v], page[v], x, y, d, t, b)
      PROVE  Fine(pump[v], wire[v], p2, x, y, d, t, b)
  <2>1. Fine(pump[v], wire[v], p, x, y, d, t, b)
    BY <1>1, <1>5, Zenon
  <2> QED
    BY <1>1, <2>1, Selects
<1> QED
  BY <1>4, <1>5, PlainSteps, ZenonT(60)

LEMMA DeselectSteps ==
    ASSUME ViewersInv, NEW v \in Viewer, Deselect(v)
    PROVE  ViewersInv'
<1>1. PICK p \in WebPage : p = page[v]
  BY DEF ViewersInv, Shape
<1>2. PICK a \in Seq(Nat) : a = p.shown \o p.held
  BY OnPage
<1>3. PICK r \in WebPage : r = [p EXCEPT !.selecting = FALSE]
  BY DEF WebPage
<1>4. PICK s \in WebPage : s = [r EXCEPT !.shown = a]
  BY DEF WebPage
<1>0. PICK none \in Seq(Nat) : none = <<>>
  <2>1. <<>> \in Seq(Nat)
    OBVIOUS
  <2> QED
    BY <2>1, Zenon
<1>5. PICK p2 \in WebPage : p2 = [s EXCEPT !.held = none]
  BY DEF WebPage
<1>6. Releases(p, p2)
  BY <1>0, <1>2, <1>3, <1>4, <1>5 DEF WebPage, Releases
<1>7. page' = [page EXCEPT ![v] = p2]
  <2>1. page' = [page EXCEPT ![v].selecting = FALSE, ![v].shown = page[v].shown \o page[v].held, ![v].held = <<>>]
    <3>1. PICK g : g = [page EXCEPT ![v].selecting = FALSE]
      OBVIOUS
    <3>2. g[v].shown = page[v].shown
      BY <3>1 DEF ViewersInv, Shape, WebPage
    <3> QED
      BY <3>1, <3>2 DEF Deselect
  <2>2. PICK g : g = [page EXCEPT ![v] = r]
    OBVIOUS
  <2>3. PICK h : h = [g EXCEPT ![v] = s]
    OBVIOUS
  <2>4. g \in [Viewer -> WebPage] /\ g[v] = r /\ h \in [Viewer -> WebPage] /\ h[v] = s
    BY <2>2, <2>3 DEF ViewersInv, Shape
  <2>5. page' = [h EXCEPT ![v] = p2]
    BY <1>0, <1>1, <1>2, <1>3, <1>4, <1>5, <2>1, <2>2, <2>3, <2>4
  <2> QED
    BY <2>2, <2>3, <2>5 DEF ViewersInv, Shape
<1>8. wire' = [wire EXCEPT ![v] = wire[v]] /\ pump' = [pump EXCEPT ![v] = pump[v]]
  BY SetSame DEF Deselect, ViewersInv, Shape
<1>9. Moved(v, pump[v], wire[v], p2) /\ UNCHANGED <<tab, lock, exact, whole>>
  BY <1>7, <1>8 DEF Moved, Deselect, history
<1>10. ASSUME NEW x \in BOOLEAN, NEW y \in BOOLEAN, NEW d \in Nat, NEW t \in Nat, NEW b \in Nat,
             Fine(pump[v], wire[v], page[v], x, y, d, t, b)
      PROVE  Fine(pump[v], wire[v], p2, x, y, d, t, b)
  <2>1. Fine(pump[v], wire[v], p, x, y, d, t, b)
    BY <1>1, <1>10, Zenon
  <2> QED
    BY <1>6, <2>1, Deselects, Zenon
<1> QED
  BY <1>9, <1>10, PlainSteps, ZenonT(60)

LEMMA LoseSteps ==
    ASSUME ViewersInv, NEW v \in Viewer, Lose(v)
    PROVE  ViewersInv'
<1>1. PICK p, p2 : p \in WebPage /\ p = page[v] /\ p2 = [p EXCEPT !.open = FALSE]
  BY DEF ViewersInv, Shape
<1>2. page' = [page EXCEPT ![v] = p2]
  BY <1>1 DEF Lose, ViewersInv, Shape
<1>3. Moved(v, NoPump, <<>>, p2) /\ UNCHANGED <<tab, lock, exact, whole>>
  BY <1>2 DEF Moved, Lose, history
<1>5. ASSUME NEW x \in BOOLEAN, NEW y \in BOOLEAN, NEW d \in Nat, NEW t \in Nat, NEW b \in Nat,
             Fine(pump[v], wire[v], page[v], x, y, d, t, b)
      PROVE  Fine(NoPump, <<>>, p2, x, y, d, t, b)
  <2>1. Fine(pump[v], wire[v], p, x, y, d, t, b)
    BY <1>1, <1>5, Zenon
  <2> QED
    BY <1>1, <2>1, Loses
<1> QED
  BY <1>3, <1>5, PlainSteps, ZenonT(60)

LEMMA ConnectSteps ==
    ASSUME ViewersInv, NEW v \in Viewer, Connect(v)
    PROVE  ViewersInv'
<1>1. PICK p, p2 : p \in WebPage /\ p = page[v] /\ p2 = [p EXCEPT !.open = TRUE] /\ ~p.open
  BY DEF ViewersInv, Shape, Connect
<1>2. PICK n \in Nat : n = p.offset
  BY <1>1 DEF WebPage
<1>3. PICK on \in BOOLEAN : on = lock.snap
  BY DEF ViewersInv, Shape
<1>4. PICK q : q = [NoPump EXCEPT !.phase = "hello", !.offset = n, !.sent = on]
  OBVIOUS
<1>5. q \in Connection /\ q.phase = "hello" /\ q.offset = p.offset /\ q.job = NoFrame
  BY <1>2, <1>4 DEF NoPump, Connection
<1>6. PICK m \in Message : m = Meta(on) /\ m.tag = "meta"
  BY MetaIs
<1>7. page' = [page EXCEPT ![v] = p2]
  BY <1>1 DEF Connect, ViewersInv, Shape
<1>8. Moved(v, q, <<m>>, p2) /\ UNCHANGED <<tab, lock, whole>>
  BY <1>1, <1>2, <1>3, <1>4, <1>6, <1>7 DEF Moved, Connect
<1>9. TabInv' /\ SameRing
  BY <1>8, TabUntouched DEF ViewersInv
<1>10. PICK x \in BOOLEAN : \E y \in BOOLEAN :
          /\ x = (v \in exact) /\ y = (v \in whole)
          /\ Fine(pump[v], wire[v], page[v], x, y, Before, Total(ring), ring.base)
  BY At, Zenon
<1>11. PICK y \in BOOLEAN :
          /\ y = (v \in whole)
          /\ Fine(pump[v], wire[v], page[v], x, y, Before, Total(ring), ring.base)
  BY <1>10
<1>12. PICK x2 \in BOOLEAN : x2 = (v \in exact')
  BY Truth, Zenon
<1>13. exact' \subseteq exact /\ (x2 => x /\ p.chain = <<>>)
  BY <1>1, <1>10, <1>12 DEF Connect
<1>14. Before \in Nat /\ Total(ring) \in Nat /\ ring.base \in Nat
  BY Numbers DEF ViewersInv
<1>15. Fine(pump[v], wire[v], p, x, y, Before, Total(ring), ring.base)
  BY <1>1, <1>11, Zenon
<1>16. Fine(q, <<m>>, p2, x2, y, Before, Total(ring), ring.base)
  BY <1>1, <1>5, <1>6, <1>13, <1>14, <1>15, Connects
<1>17. whole' \subseteq whole /\ y = (v \in whole') /\ lock' = lock
  BY <1>8, <1>11
<1> QED
  BY <1>8, <1>9, <1>12, <1>13, <1>16, <1>17, Steps, ZenonT(60)

\* What leaves the whole viewers to those that miss nothing.
LEMMA FlushedIs ==
    ASSUME NEW v \in Viewer, Flushed(v), NEW y \in BOOLEAN, y = (v \in whole)
    PROVE  /\ whole' \subseteq whole
           /\ \E y2 \in BOOLEAN : y2 = (v \in whole') /\ (y2 => y /\ pump[v].offset >= ring.base)
<1>1. whole' \subseteq whole /\ (v \in whole' => v \in whole /\ pump[v].offset >= ring.base)
  BY DEF Flushed
<1>2. PICK y2 \in BOOLEAN : y2 = (v \in whole')
  BY Truth, Zenon
<1>3. y2 => y /\ pump[v].offset >= ring.base
  BY <1>1, <1>2
<1> QED
  BY <1>1, <1>2, <1>3, Zenon

LEMMA ShareSteps ==
    ASSUME ViewersInv, NEW v \in Viewer, Share(v)
    PROVE  ViewersInv'
<1>1. PICK t \in Nat : t = Total(ring)
  BY Numbers DEF ViewersInv
<1>2. PICK pm, q : pm \in Connection /\ pm = pump[v] /\ q = [pm EXCEPT !.offset = t]
  BY DEF ViewersInv, Shape
<1>3. /\ q \in Connection /\ q.phase = "loop" /\ q.offset = t /\ q.job = pm.job
      /\ pm.phase = "loop" /\ pm.offset \in Nat
  BY <1>2 DEF Connection, Share, Behind
<1>4. PICK f : f = ring.cache
  OBVIOUS
<1>5. f.from = pm.offset /\ f.to = t /\ Sendable(f, Before, t, ring.base)
  <2>1. f.from = pm.offset /\ f.to = t
    BY <1>1, <1>2, <1>4 DEF Share, HasFrame
  <2>2. f # NoFrame
    BY <1>3, <2>1 DEF NoFrame
  <2> QED
    BY <1>1, <1>4, <2>1, <2>2 DEF ViewersInv, TabInv, Cached
<1>6. PICK u : u = Append(wire[v], OutFrame(f)) /\ wire' = [wire EXCEPT ![v] = u]
  BY <1>4 DEF Share
<1>7. pump' = [pump EXCEPT ![v] = q]
  BY <1>1, <1>2 DEF Share, ViewersInv, Shape
<1>8. page' = [page EXCEPT ![v] = page[v]]
  BY SetSame DEF Share, ViewersInv, Shape
<1>9. Moved(v, q, u, page[v]) /\ UNCHANGED <<tab, lock, exact>> /\ Flushed(v)
  BY <1>6, <1>7, <1>8 DEF Moved, Share
<1>10. TabInv' /\ SameRing
  BY <1>9, TabUntouched DEF ViewersInv
<1>11. PICK x \in BOOLEAN : \E y \in BOOLEAN :
          /\ x = (v \in exact) /\ y = (v \in whole)
          /\ Fine(pump[v], wire[v], page[v], x, y, Before, Total(ring), ring.base)
  BY At, Zenon
<1>12. PICK y \in BOOLEAN :
          /\ y = (v \in whole)
          /\ Fine(pump[v], wire[v], page[v], x, y, Before, Total(ring), ring.base)
  BY <1>11
<1>13. whole' \subseteq whole
  BY <1>9, <1>12, FlushedIs
<1>14. PICK y2 \in BOOLEAN : y2 = (v \in whole') /\ (y2 => y /\ pm.offset >= ring.base)
  BY <1>2, <1>9, <1>12, FlushedIs, Zenon
<1>15. Before \in Nat /\ ring.base \in Nat
  BY Numbers DEF ViewersInv
<1>16. Fine(pm, wire[v], page[v], x, y, Before, t, ring.base)
  BY <1>1, <1>2, <1>12, Zenon
<1>17. Fine(q, u, page[v], x, y2, Before, t, ring.base)
  <2>1. PICK d \in Nat, b \in Nat : d = Before /\ b = ring.base
    BY <1>15
  <2>2. Fine(pm, wire[v], page[v], x, y, d, t, b) /\ Sendable(f, d, t, b) /\ (y2 => y /\ pm.offset >= b)
    BY <1>5, <1>14, <1>16, <2>1, Zenon
  <2>3. Fine(q, Append(wire[v], OutFrame(f)), page[v], x, y2, d, t, b)
    BY <1>3, <1>5, <2>2, Shares
  <2> QED
    BY <1>6, <2>1, <2>3, Zenon
<1>18. exact' \subseteq exact /\ x = (v \in exact') /\ lock' = lock
  BY <1>9, <1>11
<1> QED
  BY <1>1, <1>9, <1>10, <1>13, <1>14, <1>17, <1>18, Steps, ZenonT(60)

LEMMA TakeSteps ==
    ASSUME ViewersInv, NEW v \in Viewer, Take(v)
    PROVE  ViewersInv'
<1>1. PICK d \in Nat : \E t \in Nat : \E b \in Nat :
          d = Before /\ t = Total(ring) /\ b = ring.base /\ Good(ring, d)
  BY Numbers DEF ViewersInv
<1>2. PICK t \in Nat : \E b \in Nat : t = Total(ring) /\ b = ring.base
  BY <1>1
<1>3. PICK b \in Nat : b = ring.base
  BY <1>2
<1>4. PICK pm \in Connection : pm = pump[v]
  BY DEF ViewersInv, Shape
<1>5. pm.phase = "loop" /\ pm.offset \in Nat /\ pm.offset # t /\ pm.job = NoFrame
  <2>1. Typed(pump[v], wire[v], page[v])
    BY DEF ViewersInv, FineAt, Fine
  <2> QED
    BY <1>2, <1>4, <2>1 DEF Connection, Take, Behind, Typed
<1>6. PICK bytes : bytes = Since(ring, pm.offset)
  OBVIOUS
<1>7. PICK job : job = IF bytes = <<>> THEN NoFrame ELSE Out(pm.offset, t, bytes)
  OBVIOUS
<1>8. PICK ph : ph = IF bytes = <<>> THEN "loop" ELSE "encode"
  OBVIOUS
<1>9. /\ pm.offset < t => /\ bytes # <<>> /\ ph = "encode" /\ job # NoFrame
                          /\ Sendable(job, d, t, b) /\ job.from = pm.offset /\ job.to = t
      /\ pm.offset > t => bytes = <<>> /\ ph = "loop" /\ job = NoFrame
  <2>1. ASSUME pm.offset < t
        PROVE  /\ bytes # <<>> /\ ph = "encode" /\ job # NoFrame
               /\ Sendable(job, d, t, b) /\ job.from = pm.offset /\ job.to = t
    <3>1. bytes # <<>> /\ Sendable(Out(pm.offset, t, bytes), d, t, b)
      BY <1>1, <1>2, <1>3, <1>5, <1>6, <2>1, SinceIsSendable DEF ViewersInv, TabInv
    <3>2. job = Out(pm.offset, t, bytes) /\ ph = "encode"
      BY <1>7, <1>8, <3>1
    <3>3. job.from = pm.offset /\ job.to = t
      BY <3>2 DEF Out
    <3> QED
      BY <1>5, <3>1, <3>2, <3>3 DEF NoFrame
  <2>2. ASSUME pm.offset > t PROVE bytes = <<>> /\ ph = "loop" /\ job = NoFrame
    <3>1. bytes = <<>>
      BY <1>1, <1>2, <1>5, <1>6, <2>2, NothingBeyond
    <3> QED
      BY <1>7, <1>8, <3>1
  <2> QED
    BY <2>1, <2>2
<1>10. pm.offset < t \/ pm.offset > t
  BY <1>5
<1>11. job \in Frame \cup {NoFrame} /\ ph \in {"loop", "encode"}
  BY <1>8, <1>9, <1>10 DEF Sendable
<1>12. PICK p1 \in Connection : p1 = [pm EXCEPT !.offset = t]
  BY DEF Connection
<1>13. PICK p2 \in Connection : p2 = [p1 EXCEPT !.job = job]
  BY <1>11 DEF Connection
<1>14. PICK q \in Connection : q = [p2 EXCEPT !.phase = ph]
  BY <1>11 DEF Connection
<1>15. q.offset = t /\ q.job = job /\ q.phase = ph
  BY <1>12, <1>13, <1>14 DEF Connection
<1>16. pump' = [pump EXCEPT ![v] = q]
  <2>1. pump' = [pump EXCEPT ![v].offset = t, ![v].job = job, ![v].phase = ph]
    BY <1>2, <1>4, <1>6, <1>7, <1>8 DEF Take
  <2>2. PICK g : g = [pump EXCEPT ![v] = p1]
    OBVIOUS
  <2>3. PICK h : h = [g EXCEPT ![v] = p2]
    OBVIOUS
  <2>4. g \in [Viewer -> Connection] /\ g[v] = p1 /\ h \in [Viewer -> Connection] /\ h[v] = p2
    BY <2>2, <2>3 DEF ViewersInv, Shape
  <2>5. pump' = [h EXCEPT ![v] = q]
    BY <1>4, <1>12, <1>13, <1>14, <2>1, <2>2, <2>3, <2>4
  <2> QED
    BY <2>2, <2>3, <2>5 DEF ViewersInv, Shape
<1>17. page' = [page EXCEPT ![v] = page[v]] /\ wire' = [wire EXCEPT ![v] = wire[v]]
  BY SetSame DEF Take, ViewersInv, Shape
<1>18. Moved(v, q, wire[v], page[v]) /\ UNCHANGED <<tab, lock, exact>> /\ Flushed(v)
  BY <1>16, <1>17 DEF Moved, Take
<1>19. TabInv' /\ SameRing
  BY <1>18, TabUntouched DEF ViewersInv
<1>20. PICK x \in BOOLEAN : \E y \in BOOLEAN :
          /\ x = (v \in exact) /\ y = (v \in whole)
          /\ Fine(pump[v], wire[v], page[v], x, y, Before, Total(ring), ring.base)
  BY At, Zenon
<1>21. PICK y \in BOOLEAN :
          /\ y = (v \in whole)
          /\ Fine(pump[v], wire[v], page[v], x, y, Before, Total(ring), ring.base)
  BY <1>20
<1>22. whole' \subseteq whole
  BY <1>18, <1>21, FlushedIs
<1>23. PICK y2 \in BOOLEAN : y2 = (v \in whole') /\ (y2 => y /\ pm.offset >= b)
  BY <1>3, <1>4, <1>18, <1>21, FlushedIs, Zenon
<1>24. Fine(pm, wire[v], page[v], x, y, d, t, b)
  BY <1>1, <1>2, <1>3, <1>4, <1>21, Zenon
<1>25. Fine(q, wire[v], page[v], x, y2, d, t, b)
  <2>1. CASE pm.offset < t
    <3>1. /\ Sendable(job, d, t, b) /\ job.from = pm.offset /\ job.to = t /\ job # NoFrame
          /\ q.phase = "encode" /\ q.offset = t /\ q.job = job
      BY <1>9, <1>15, <2>1
    <3>2. /\ Fine(pm, wire[v], page[v], x, y, d, t, b) /\ pm.phase = "loop"
          /\ (y2 => y /\ pm.offset >= b)
      BY <1>5, <1>23, <1>24
    <3> QED
      BY <3>1, <3>2, Takes
  <2>2. CASE pm.offset > t
    <3>1. q.phase = "loop" /\ q.offset = t /\ q.job = pm.job
      BY <1>5, <1>9, <1>15, <2>2
    <3>2. /\ Fine(pm, wire[v], page[v], x, y, d, t, b) /\ pm.phase = "loop" /\ pm.offset > t
          /\ (y2 => y)
      BY <1>5, <1>23, <1>24, <2>2
    <3> QED
      BY <3>1, <3>2, TakesNothing
  <2> QED
    BY <1>10, <2>1, <2>2
<1>26. exact' \subseteq exact /\ x = (v \in exact') /\ lock' = lock
  BY <1>18, <1>20
<1>27. Fine(q, wire[v], page[v], x, y2, Before, Total(ring), ring.base)
  BY <1>1, <1>2, <1>3, <1>25, Zenon
<1> QED
  BY <1>18, <1>19, <1>22, <1>23, <1>26, <1>27, Steps, ZenonT(60)

LEMMA EncodeSteps ==
    ASSUME ViewersInv, NEW v \in Viewer, Encode(v)
    PROVE  ViewersInv'
<1>1. PICK d \in Nat : \E t \in Nat : \E b \in Nat :
          /\ d = Before /\ t = Total(ring) /\ b = ring.base /\ Good(ring, d)
          /\ Cached(ring.cache, d, t, b) /\ written = d + t
  BY Numbers DEF ViewersInv
<1>2. PICK t \in Nat : \E b \in Nat :
          t = Total(ring) /\ b = ring.base /\ Cached(ring.cache, d, t, b) /\ written = d + t
  BY <1>1
<1>3. PICK b \in Nat : b = ring.base /\ Cached(ring.cache, d, t, b) /\ written = d + t
  BY <1>2
<1>4. PICK pm, q : pm \in Connection /\ pm = pump[v] /\ q = [pm EXCEPT !.phase = "loop", !.job = NoFrame]
  BY DEF ViewersInv, Shape
<1>5. /\ pm.phase = "encode" /\ q \in Connection /\ q.phase = "loop" /\ q.offset = pm.offset /\ q.job = NoFrame
  BY <1>4 DEF Connection, Encode
<1>6. PICK u : u = Append(wire[v], OutFrame(pm.job))
  OBVIOUS
<1>7. Moved(v, q, u, page[v]) /\ UNCHANGED <<lock, exact, whole>>
  <2>1. pump' = [pump EXCEPT ![v] = q]
    BY <1>4 DEF Encode, ViewersInv, Shape
  <2>2. page' = [page EXCEPT ![v] = page[v]]
    BY SetSame DEF Encode, ViewersInv, Shape
  <2>3. wire' = [wire EXCEPT ![v] = u] /\ UNCHANGED <<lock, exact, whole>>
    BY <1>4, <1>6 DEF Encode, history
  <2> QED
    BY <2>1, <2>2, <2>3 DEF Moved
<1>8. PICK x \in BOOLEAN : \E y \in BOOLEAN :
          /\ x = (v \in exact) /\ y = (v \in whole)
          /\ Fine(pump[v], wire[v], page[v], x, y, Before, Total(ring), ring.base)
  BY At, Zenon
<1>9. PICK y \in BOOLEAN :
          /\ y = (v \in whole)
          /\ Fine(pump[v], wire[v], page[v], x, y, Before, Total(ring), ring.base)
  BY <1>8
<1>10. Fine(pm, wire[v], page[v], x, y, d, t, b)
  BY <1>1, <1>2, <1>3, <1>4, <1>9, Zenon
<1>11. Sendable(pm.job, d, t, b) /\ Fine(q, u, page[v], x, y, d, t, b)
  <2>1. Sendable(pm.job, d, t, b) /\ Fine(q, Append(wire[v], OutFrame(pm.job)), page[v], x, y, d, t, b)
    BY <1>5, <1>10, Encodes
  <2> QED
    BY <1>6, <2>1, Zenon
<1>12. TabInv' /\ SameRing
  <2>1. PICK r : r = StoreFrame(ring, pm.job) /\ ring' = r /\ written' = written
    BY <1>4 DEF Encode
  <2>2. Good(r, d) /\ Total(r) = t /\ r.base = b /\ Stocked(r) /\ r.cache \in {ring.cache, pm.job}
    BY <1>1, <1>2, <1>3, <2>1, StoreKeeps, StoreGives DEF ViewersInv, TabInv
  <2>3. Cached(r.cache, d, t, b)
    BY <1>3, <1>11, <2>2 DEF Cached
  <2>4. RingInv'
    BY EncodeKeeps DEF ViewersInv, TabInv
  <2>5. Before' = d
    BY <1>3, <2>1, <2>2 DEF Before
  <2>6. SameRing
    BY <1>1, <1>2, <1>3, <2>1, <2>2, <2>5 DEF SameRing
  <2> QED
    BY <2>1, <2>2, <2>3, <2>4, <2>5, <2>6 DEF TabInv
<1>13. exact' \subseteq exact /\ x = (v \in exact') /\ whole' \subseteq whole /\ y = (v \in whole') /\ lock' = lock
  BY <1>7, <1>8, <1>9
<1>14. Fine(q, u, page[v], x, y, Before, Total(ring), ring.base)
  BY <1>1, <1>2, <1>3, <1>11, Zenon
<1> QED
  BY <1>7, <1>12, <1>13, <1>14, Steps, ZenonT(60)

----------------------------------------------------------------------------
(* The steps of the tab and of the daemon.                                 *)

LEMMA OutputSteps ==
    ASSUME ViewersInv, NEW n \in 1..MaxBytes, Output(n)
    PROVE  ViewersInv'
<1>1. PICK d \in Nat : \E t \in Nat : \E b \in Nat :
          /\ d = Before /\ t = Total(ring) /\ b = ring.base /\ Good(ring, d)
          /\ Cached(ring.cache, d, t, b) /\ written = d + t
  BY Numbers DEF ViewersInv
<1>2. PICK t \in Nat : \E b \in Nat :
          t = Total(ring) /\ b = ring.base /\ Cached(ring.cache, d, t, b) /\ written = d + t
  BY <1>1
<1>3. PICK b \in Nat : b = ring.base /\ Cached(ring.cache, d, t, b) /\ written = d + t
  BY <1>2
<1>4. PICK data : data = [i \in 1..n |-> written + i]
  OBVIOUS
<1>5. Next_(ring, d, data) /\ Len(data) = n
  <2>1. data \in [1..n -> Nat]
    BY <1>3, <1>4
  <2>2. data \in Seq(Nat) /\ Len(data) = n
    <3>1. n \in Nat
      OBVIOUS
    <3> QED
      BY <2>1, <3>1, FunctionIsSeq
  <2>3. ASSUME NEW j \in 1..Len(data) PROVE data[j] = d + Total(ring) + j
    BY <1>2, <1>3, <1>4, <2>2
  <2> QED
    BY <2>2, <2>3 DEF Next_
<1>6. PICK r : r = Push(ring, data, Cardinality(Watching)) /\ ring' = r
  BY <1>4 DEF Output
<1>7. PICK e \in Nat, c \in Nat :
          /\ e = Total(r) /\ e = t + n /\ c = r.base /\ b <= c /\ Good(r, d) /\ Stocked(r)
          /\ r.cache \in {ring.cache, NoFrame}
  <2>1. Good(r, d) /\ Total(r) = t + n
    BY <1>1, <1>2, <1>5, <1>6, PushKeeps, SMTT(30)
  <2>2. Len(data) > 0
    BY <1>5
  <2>3. r.base >= b /\ Stocked(r) /\ r.cache \in {ring.cache, NoFrame}
    BY <1>1, <1>3, <1>5, <1>6, <2>2, PushGives DEF ViewersInv, TabInv
  <2>4. r.base \in Nat /\ Total(r) \in Nat
    BY <2>1, TotalType DEF Good
  <2> QED
    BY <1>3, <2>1, <2>3, <2>4
<1>8. t <= e
  BY <1>7
<1>9. written' = written + n /\ UNCHANGED <<lock, pump, wire, page, exact, whole>>
  BY DEF Output, history
<1>10. Before' = d
  BY <1>3, <1>6, <1>7, <1>9 DEF Before
<1>11. TabInv'
  <2>1. RingInv'
    BY OutputKeeps DEF ViewersInv, TabInv
  <2>2. Cached(ring.cache, d, e, c)
    BY <1>3, <1>7, <1>8, CachedLonger
  <2>3. Cached(r.cache, d, e, c)
    BY <1>7, <2>2 DEF Cached
  <2> QED
    BY <1>6, <1>7, <1>10, <2>1, <2>3 DEF TabInv
<1>12. ASSUME NEW z \in Viewer PROVE FineAt(z)'
  <2>1. PICK x \in BOOLEAN : \E y \in BOOLEAN :
          /\ x = (z \in exact) /\ y = (z \in whole)
          /\ Fine(pump[z], wire[z], page[z], x, y, Before, Total(ring), ring.base)
    BY At, Zenon
  <2>2. PICK y \in BOOLEAN :
          /\ y = (z \in whole)
          /\ Fine(pump[z], wire[z], page[z], x, y, Before, Total(ring), ring.base)
    BY <2>1
  <2>3. Fine(pump[z], wire[z], page[z], x, y, d, t, b)
    BY <1>1, <1>2, <1>3, <2>2, Zenon
  <2>4. Fine(pump[z], wire[z], page[z], x, y, d, e, c)
    BY <1>7, <1>8, <2>3, Longer
  <2>5. x = (z \in exact') /\ y = (z \in whole') /\ pump'[z] = pump[z] /\ wire'[z] = wire[z] /\ page'[z] = page[z]
    BY <1>9, <2>1, <2>2
  <2>6. Total(ring') = e /\ ring'.base = c
    BY <1>6, <1>7
  <2>7. Fine(pump'[z], wire'[z], page'[z], z \in exact', z \in whole', Before', Total(ring'), ring'.base)
    BY <1>10, <2>4, <2>5, <2>6, Zenon
  <2> QED
    BY <2>7 DEF FineAt
<1>13. Shape'
  BY <1>9 DEF ViewersInv, Shape
<1> QED
  BY <1>11, <1>12, <1>13 DEF ViewersInv

\* Where nothing of the viewers changes.
LEMMA StillSteps ==
    ASSUME ViewersInv, UNCHANGED <<tab, pump, wire, page, exact, whole>>, Shape'
    PROVE  ViewersInv'
<1>1. TabInv' /\ SameRing
  BY TabUntouched DEF ViewersInv
<1>2. ASSUME NEW z \in Viewer PROVE FineAt(z)'
  <2>1. Fine(pump[z], wire[z], page[z], z \in exact, z \in whole, Before, Total(ring), ring.base)
    BY Zenon DEF ViewersInv, FineAt
  <2>2. Fine(pump'[z], wire'[z], page'[z], z \in exact', z \in whole', Before', Total(ring'), ring'.base)
    BY <1>1, <2>1, Zenon DEF SameRing
  <2> QED
    BY <2>2 DEF FineAt
<1> QED
  BY <1>1, <1>2 DEF ViewersInv

LEMMA LockSteps ==
    ASSUME ViewersInv, (\E on \in BOOLEAN : Lock(on)) \/ DrainLock \/ UNCHANGED vars
    PROVE  ViewersInv'
<1>1. UNCHANGED <<tab, pump, wire, page, exact, whole>>
  BY DEF Lock, DrainLock, vars, history
<1>2. lock' \in [asked : BOOLEAN, tab : BOOLEAN, snap : BOOLEAN, queued : BOOLEAN, drained : BOOLEAN]
  <2>1. PICK l : l = lock /\ l \in [asked : BOOLEAN, tab : BOOLEAN, snap : BOOLEAN, queued : BOOLEAN, drained : BOOLEAN]
    BY DEF ViewersInv, Shape
  <2>2. ASSUME NEW on \in BOOLEAN, Lock(on)
        PROVE  lock' \in [asked : BOOLEAN, tab : BOOLEAN, snap : BOOLEAN, queued : BOOLEAN, drained : BOOLEAN]
    BY <2>1, <2>2 DEF Lock
  <2>3. CASE DrainLock
    BY <2>1, <2>3 DEF DrainLock
  <2>4. CASE UNCHANGED vars
    BY <2>1, <2>4 DEF vars
  <2> QED
    BY <2>2, <2>3, <2>4
<1>3. Shape'
  BY <1>1, <1>2 DEF ViewersInv, Shape
<1> QED
  BY <1>1, <1>3, StillSteps

LEMMA RefreshSteps ==
    ASSUME ViewersInv, Refresh
    PROVE  ViewersInv'
<1>1. PICK l : l = lock /\ l \in [asked : BOOLEAN, tab : BOOLEAN, snap : BOOLEAN, queued : BOOLEAN, drained : BOOLEAN]
  BY DEF ViewersInv, Shape
<1>2. lock' \in [asked : BOOLEAN, tab : BOOLEAN, snap : BOOLEAN, queued : BOOLEAN, drained : BOOLEAN]
  BY <1>1 DEF Refresh
<1>3. UNCHANGED <<tab, wire, page, exact, whole>>
  BY DEF Refresh, history
<1>4. ASSUME NEW z \in Viewer
      PROVE  /\ pump'[z] \in Connection /\ pump'[z].phase = pump[z].phase
             /\ pump'[z].offset = pump[z].offset /\ pump'[z].job = pump[z].job
  <2>1. pump[z] \in Connection
    BY DEF ViewersInv, Shape
  <2>2. pump'[z] = pump[z] \/ pump'[z] = [pump[z] EXCEPT !.news = TRUE]
    BY DEF Refresh
  <2> QED
    BY <2>1, <2>2 DEF Connection
<1>5. Shape'
  <2>1. pump' \in [Viewer -> Connection]
    BY <1>4 DEF Refresh
  <2> QED
    BY <1>2, <1>3, <2>1 DEF ViewersInv, Shape
<1>6. TabInv' /\ SameRing
  BY <1>3, TabUntouched DEF ViewersInv
<1>7. ASSUME NEW z \in Viewer PROVE FineAt(z)'
  <2>1. PICK x \in BOOLEAN : \E y \in BOOLEAN :
          /\ x = (z \in exact) /\ y = (z \in whole)
          /\ Fine(pump[z], wire[z], page[z], x, y, Before, Total(ring), ring.base)
    BY At, Zenon
  <2>2. PICK y \in BOOLEAN :
          /\ y = (z \in whole)
          /\ Fine(pump[z], wire[z], page[z], x, y, Before, Total(ring), ring.base)
    BY <2>1
  <2>3. Before \in Nat /\ Total(ring) \in Nat /\ ring.base \in Nat
    BY Numbers DEF ViewersInv
  <2>4. Fine(pump'[z], wire[z], page[z], x, y, Before, Total(ring), ring.base)
    <3>1. PICK d \in Nat, t \in Nat, b \in Nat : d = Before /\ t = Total(ring) /\ b = ring.base
      BY <2>3
    <3>2. Fine(pump[z], wire[z], page[z], x, y, d, t, b)
      BY <2>2, <3>1, Zenon
    <3>3. Fine(pump'[z], wire[z], page[z], x, y, d, t, b)
      BY <1>4, <3>2, Informed
    <3> QED
      BY <3>1, <3>3, Zenon
  <2>5. x = (z \in exact') /\ y = (z \in whole') /\ wire'[z] = wire[z] /\ page'[z] = page[z]
    BY <1>3, <2>1, <2>2
  <2>6. Fine(pump'[z], wire'[z], page'[z], z \in exact', z \in whole', Before', Total(ring'), ring'.base)
    BY <1>6, <2>4, <2>5, Zenon DEF SameRing
  <2> QED
    BY <2>6 DEF FineAt
<1> QED
  BY <1>5, <1>6, <1>7 DEF ViewersInv

LEMMA RebootSteps ==
    ASSUME ViewersInv, Reboot
    PROVE  ViewersInv'
<1>1. PICK d \in Nat : \E t \in Nat : \E b \in Nat :
          /\ d = Before /\ t = Total(ring) /\ b = ring.base /\ written = d + t
  BY Numbers DEF ViewersInv
<1>2. PICK t \in Nat : \E b \in Nat : t = Total(ring) /\ b = ring.base /\ written = d + t
  BY <1>1
<1>3. PICK b \in Nat : b = ring.base /\ written = d + t
  BY <1>2
<1>4. /\ ring' = NewRing /\ written' = written /\ whole' = whole
      /\ exact' = {v \in exact : page[v].offset = 0 /\ page[v].chain = <<>>}
      /\ pump' = [v \in Viewer |-> NoPump] /\ wire' = [v \in Viewer |-> <<>>]
      /\ page' = [v \in Viewer |-> [page[v] EXCEPT !.open = FALSE]]
  BY DEF Reboot
<1>5. /\ Good(NewRing, written) /\ Total(NewRing) = 0 /\ Stocked(NewRing)
      /\ NewRing.base = 0 /\ NewRing.cache = NoFrame
  BY <1>3, NewIsGood, NewIsStocked
<1>6. PICK e \in Nat : e = written /\ Before' = e
  BY <1>3, <1>4, <1>5 DEF Before
<1>7. TabInv'
  <2>1. RingInv'
    BY RebootKeeps DEF ViewersInv, TabInv
  <2>2. Cached(NoFrame, e, 0, 0)
    BY DEF Cached
  <2> QED
    BY <1>4, <1>5, <1>6, <2>1, <2>2 DEF TabInv
<1>8. ASSUME NEW z \in Viewer PROVE FineAt(z)' /\ page'[z] \in WebPage
  <2>1. PICK x \in BOOLEAN : \E y \in BOOLEAN :
          /\ x = (z \in exact) /\ y = (z \in whole)
          /\ Fine(pump[z], wire[z], page[z], x, y, Before, Total(ring), ring.base)
    BY At, Zenon
  <2>2. PICK y \in BOOLEAN :
          /\ y = (z \in whole)
          /\ Fine(pump[z], wire[z], page[z], x, y, Before, Total(ring), ring.base)
    BY <2>1
  <2>3. Fine(pump[z], wire[z], page[z], x, y, d, t, b)
    BY <1>1, <1>2, <1>3, <2>2, Zenon
  <2>4. PICK p, p2 : p = page[z] /\ p2 = [p EXCEPT !.open = FALSE] /\ p2 = page'[z]
    BY <1>4
  <2>5. PICK x2 \in BOOLEAN : x2 = (z \in exact')
    BY Truth, Zenon
  <2>6. x2 => x /\ p.offset = 0 /\ p.chain = <<>>
    BY <1>4, <2>1, <2>4, <2>5
  <2>7. Fine(pump[z], wire[z], p, x, y, d, t, b)
    BY <2>3, <2>4, Zenon
  <2>8. Fine(NoPump, <<>>, p2, x2, y, e, 0, 0)
    BY <2>4, <2>6, <2>7, Reboots
  <2>9. pump'[z] = NoPump /\ wire'[z] = <<>> /\ y = (z \in whole')
    BY <1>4, <2>2
  <2>10. Total(ring') = 0 /\ ring'.base = 0
    BY <1>4, <1>5
  <2>11. Fine(pump'[z], wire'[z], page'[z], z \in exact', z \in whole', Before', Total(ring'), ring'.base)
    BY <1>6, <2>4, <2>5, <2>8, <2>9, <2>10, Zenon
  <2>12. p2 \in WebPage
    BY <2>8 DEF Fine, Typed
  <2> QED
    BY <2>4, <2>11, <2>12 DEF FineAt
<1>9. Shape'
  <2>1. lock' \in [asked : BOOLEAN, tab : BOOLEAN, snap : BOOLEAN, queued : BOOLEAN, drained : BOOLEAN]
    <3>1. PICK l : l = lock /\ l \in [asked : BOOLEAN, tab : BOOLEAN, snap : BOOLEAN, queued : BOOLEAN, drained : BOOLEAN]
      BY DEF ViewersInv, Shape
    <3> QED
      BY <3>1 DEF Reboot
  <2>2. NoPump \in Connection
    BY DEF NoPump, Connection
  <2>3. pump' \in [Viewer -> Connection]
    BY <1>4, <2>2
  <2>4. wire' \in [Viewer -> Seq(Message)]
    <3>1. <<>> \in Seq(Message)
      OBVIOUS
    <3> QED
      BY <1>4, <3>1
  <2>5. page' \in [Viewer -> WebPage]
    BY <1>4, <1>8
  <2>6. exact' \subseteq Viewer /\ whole' \subseteq Viewer
    BY <1>4 DEF ViewersInv, Shape
  <2> QED
    BY <2>1, <2>3, <2>4, <2>5, <2>6 DEF Shape
<1> QED
  BY <1>7, <1>8, <1>9 DEF ViewersInv

LEMMA InitViewers == Init => ViewersInv
<1> SUFFICES ASSUME Init PROVE ViewersInv
  OBVIOUS
<1>1. /\ ring = NewRing /\ written = 0 /\ exact = Viewer /\ whole = Viewer
      /\ pump = [v \in Viewer |-> NoPump] /\ wire = [v \in Viewer |-> <<>>]
      /\ page = [v \in Viewer |-> NewPage]
  BY DEF Init
<1>2. /\ Total(NewRing) = 0 /\ Stocked(NewRing) /\ NewRing.base = 0 /\ NewRing.cache = NoFrame
  BY NewIsGood, NewIsStocked
<1>3. Before = 0
  BY <1>1, <1>2 DEF Before
<1>4. TabInv
  <2>1. RingInv
    BY InitRing
  <2>2. Cached(NoFrame, 0, 0, 0)
    BY DEF Cached
  <2> QED
    BY <1>1, <1>2, <1>3, <2>1, <2>2 DEF TabInv
<1>5. /\ NewPage \in WebPage /\ ~NewPage.open /\ NewPage.offset = 0 /\ NewPage.chain = <<>>
      /\ NewPage.shown = <<>> /\ NewPage.held = <<>> /\ ~NewPage.preview /\ NewPage.cuts = {0}
  <2>1. <<>> \in Seq(Queued) /\ <<>> \in Seq(Nat) /\ {0} \in SUBSET Nat
    OBVIOUS
  <2> QED
    BY <2>1 DEF NewPage, WebPage
<1>6. NoPump \in Connection /\ NoPump.phase = "off" /\ NoPump.job = NoFrame
  BY DEF NoPump, Connection
<1>7. <<>> \in Seq(Message)
  OBVIOUS
<1>8. Typed(NoPump, <<>>, NewPage)
  BY <1>5, <1>6, <1>7 DEF Typed
<1>9. Counts(NoPump, <<>>, NewPage)
  <2>1. Outs(<<>>) = {} /\ Previews(<<>>) = {} /\ <<>> \o <<>> = <<>> /\ Len(<<>>) = 0
    BY DEF Outs, Previews
  <2> QED
    BY <1>5, <1>6, <2>1 DEF Counts
<1>10. PICK p : p = [NewPage EXCEPT !.open = FALSE]
  OBVIOUS
<1>11. p = NewPage
  BY <1>5, <1>10 DEF NewPage
<1>12. /\ Flight(NoPump, <<>>) = <<>> /\ Outs(<<>>) = {}
       /\ Sends(<<>>, NoPump.offset, 0, 0, 0)
  BY <1>8, <1>10, Closes, Zenon
<1>13. Shows(<<>>, NoPump.offset, NewPage, 0, 0)
  <2>1. NewPage.shown \o NewPage.held = <<>>
    <3>1. <<>> \o <<>> = <<>>
      OBVIOUS
    <3> QED
      BY <1>5, <3>1, Zenon
  <2>2. Text(0, 0, {0}) = <<>>
    BY DEF Text
  <2>3. Run(<<>>, 0, 0) /\ Gapless(<<>>, 0)
    BY <1>12, RunOfNone DEF Gapless
  <2>4. (IF NewPage.open THEN NoPump.offset ELSE 0) = 0 /\ 0 <= 0
    BY <1>5
  <2>5. NewPage.shown \o NewPage.held = Text(NewPage.offset, 0, NewPage.cuts)
    BY <1>5, <2>1, <2>2, Zenon
  <2>6. NewPage.cuts \subseteq 0..NewPage.offset /\ NewPage.offset \in NewPage.cuts
    BY <1>5
  <2> QED
    BY <1>5, <2>3, <2>4, <2>5, <2>6 DEF Shows
<1>14. ASSUME NEW z \in Viewer PROVE FineAt(z)
  <2>1. PICK x \in BOOLEAN : x = (z \in exact)
    BY Truth, Zenon
  <2>2. PICK y \in BOOLEAN : y = (z \in whole)
    BY Truth, Zenon
  <2>3. Fine(NoPump, <<>>, NewPage, x, y, 0, 0, 0)
    BY <1>8, <1>9, <1>12, <1>13, Zenon DEF Fine
  <2>4. pump[z] = NoPump /\ wire[z] = <<>> /\ page[z] = NewPage /\ Total(ring) = 0 /\ ring.base = 0
    BY <1>1, <1>2
  <2>5. Fine(pump[z], wire[z], page[z], z \in exact, z \in whole, Before, Total(ring), ring.base)
    BY <1>3, <2>1, <2>2, <2>3, <2>4, Zenon
  <2> QED
    BY <2>5 DEF FineAt
<1>15. Shape
  BY <1>1, <1>5, <1>6, <1>7 DEF Shape, Init
<1> QED
  BY <1>4, <1>14, <1>15 DEF ViewersInv

LEMMA NextViewers == ViewersInv /\ [Next]_vars => ViewersInv'
<1> SUFFICES ASSUME ViewersInv, [Next]_vars PROVE ViewersInv'
  OBVIOUS
<1>1. ASSUME NEW n \in 1..MaxBytes, Output(n) PROVE ViewersInv'
  BY <1>1, OutputSteps
<1>2. CASE (\E on \in BOOLEAN : Lock(on)) \/ DrainLock \/ UNCHANGED vars
  BY <1>2, LockSteps
<1>3. CASE Refresh
  BY <1>3, RefreshSteps
<1>4. CASE Reboot
  BY <1>4, RebootSteps
<1>5. ASSUME NEW v \in Viewer, Pump(v) PROVE ViewersInv'
  BY <1>5, EnterSteps, ShareSteps, TakeSteps, EncodeSteps, MetaTickSteps, MetaSendSteps DEF Pump
<1>6. ASSUME NEW v \in Viewer, Page(v) \/ Select(v) \/ Lose(v) PROVE ViewersInv'
  BY <1>6, ConnectSteps, ReceiveSteps, HandleSteps, DeselectSteps, SelectSteps, LoseSteps DEF Page
<1> QED
  BY <1>1, <1>2, <1>3, <1>4, <1>5, <1>6, Zenon DEF Next, Owner

----------------------------------------------------------------------------
(* What follows from the invariant.                                        *)

LEMMA InvIsTyped == ViewersInv => TypeOK
<1> SUFFICES ASSUME ViewersInv PROVE TypeOK
  OBVIOUS
<1>1. ring \in [base : Nat, cold : Seq(Seq(Nat)), hot : Seq(Nat), cache : Frame \cup {NoFrame}]
  <2>1. ring.cache \in Frame \cup {NoFrame}
    BY DEF ViewersInv, TabInv, Cached, Sendable
  <2>2. /\ ring = [base |-> ring.base, cold |-> ring.cold, hot |-> ring.hot, cache |-> ring.cache]
        /\ ring.base \in Nat /\ ring.cold \in Seq(Seq(Nat)) /\ ring.hot \in Seq(Nat)
    BY DEF ViewersInv, TabInv, RingInv, Good, IsRing
  <2>3. PICK b, c, h, f : b = ring.base /\ c = ring.cold /\ h = ring.hot /\ f = ring.cache
    OBVIOUS
  <2>4. [base |-> b, cold |-> c, hot |-> h, cache |-> f]
          \in [base : Nat, cold : Seq(Seq(Nat)), hot : Seq(Nat), cache : Frame \cup {NoFrame}]
    BY <2>1, <2>2, <2>3
  <2> QED
    BY <2>2, <2>3, <2>4, Zenon
<1>2. ASSUME NEW v \in Viewer
      PROVE  /\ pump[v].phase = "off" <=> ~page[v].open
             /\ pump[v].phase = "encode" <=> pump[v].job # NoFrame
             /\ wire[v] # <<>> => page[v].open
             /\ page[v].held # <<>> => page[v].selecting
  <2>1. Typed(pump[v], wire[v], page[v])
    BY DEF ViewersInv, FineAt, Fine
  <2> QED
    BY <2>1 DEF Typed
<1>3. written \in Nat
  BY DEF ViewersInv, TabInv, RingInv
<1> QED
  BY <1>1, <1>2, <1>3 DEF TypeOK, ViewersInv, Shape

LEMMA InvIsInOrder == ViewersInv => SentInOrder
<1> SUFFICES ASSUME ViewersInv, NEW v \in Viewer
             PROVE  /\ \E lo \in 0..pump[v].offset : Joins(InFlight(v), lo, pump[v].offset)
                    /\ \A i \in Outs(InFlight(v)) :
                         LET f == InFlight(v)[i].frame
                         IN  f.bytes # <<>> /\ f.bytes = Tail_(Len(f.bytes), Before + f.to)
  BY DEF SentInOrder
<1>1. InFlight(v) = Flight(pump[v], wire[v])
  BY DEF InFlight, Flight
<1>2. Sends(InFlight(v), pump[v].offset, Before, Total(ring), ring.base) /\ pump[v].offset \in Nat
  BY <1>1 DEF ViewersInv, FineAt, Fine, Shape, Connection
<1>3. PICK lo \in Nat : Run(InFlight(v), lo, pump[v].offset)
  BY <1>2 DEF Sends
<1>4. lo \in 0..pump[v].offset /\ Joins(InFlight(v), lo, pump[v].offset)
  BY <1>2, <1>3 DEF Run, Ordered
<1>5. ASSUME NEW i \in Outs(InFlight(v)), NEW f, f = InFlight(v)[i].frame
      PROVE  f.bytes # <<>> /\ f.bytes = Tail_(Len(f.bytes), Before + f.to)
  <2>1. Sendable(f, Before, Total(ring), ring.base)
    BY <1>2, <1>5 DEF Sends, AllSendable
  <2> QED
    BY <2>1 DEF Sendable
<1> QED
  BY <1>4, <1>5

LEMMA InvIsExactPage == ViewersInv => ExactPage
<1> SUFFICES ASSUME ViewersInv, NEW v \in exact \cap whole
             PROVE  LET p  == page[v]
                        on == p.shown \o p.held
                    IN  /\ p.offset = Len(on) /\ on = Text(p.offset, Before, p.cuts)
                        /\ \E mid \in p.offset..Total(ring) :
                             /\ Joins(p.chain, p.offset, mid)
                             /\ Joins(InFlight(v), mid, IF p.open THEN pump[v].offset ELSE mid)
                        /\ \A m \in {p.chain[i] : i \in Outs(p.chain)} \cup {InFlight(v)[i] : i \in Outs(InFlight(v))} :
                             m.frame.bytes = Tail_(m.frame.to - m.frame.from, Before + m.frame.to)
  BY DEF ExactPage
<1>1. InFlight(v) = Flight(pump[v], wire[v])
  BY DEF InFlight, Flight
<1>2. v \in Viewer /\ v \in exact /\ v \in whole
  BY DEF ViewersInv, Shape
<1>3. PICK p, on : p \in WebPage /\ p = page[v] /\ on = p.shown \o p.held
  BY <1>2 DEF ViewersInv, Shape
<1>4. Fine(pump[v], wire[v], p, TRUE, TRUE, Before, Total(ring), ring.base)
  <2>1. Fine(pump[v], wire[v], page[v], v \in exact, v \in whole, Before, Total(ring), ring.base)
    BY <1>2, Zenon DEF ViewersInv, FineAt
  <2>2. (v \in exact) = TRUE /\ (v \in whole) = TRUE
    BY <1>2
  <2> QED
    BY <1>3, <2>1, <2>2, Zenon
<1>5. Counts(pump[v], wire[v], p) /\ Shows(InFlight(v), pump[v].offset, p, Before, Total(ring))
  BY <1>1, <1>4 DEF Fine
<1>6. p.offset = Len(on) /\ on = Text(p.offset, Before, p.cuts)
  BY <1>3, <1>5, Zenon DEF Counts, Shows
<1>7. PICK mid \in Nat : /\ mid <= Total(ring) /\ Run(p.chain, p.offset, mid)
                         /\ Run(InFlight(v), mid, IF p.open THEN pump[v].offset ELSE mid)
  BY <1>5 DEF Shows
<1>8. mid \in p.offset..Total(ring)
  <2>1. p.offset <= mid /\ p.offset \in Nat
    BY <1>3, <1>7 DEF Run, Ordered, WebPage
  <2>2. Total(ring) \in Nat
    BY Numbers DEF ViewersInv
  <2> QED
    BY <1>7, <2>1, <2>2
<1>9. /\ Joins(p.chain, p.offset, mid)
      /\ Joins(InFlight(v), mid, IF p.open THEN pump[v].offset ELSE mid)
  BY <1>7 DEF Run
<1>10. ASSUME NEW m \in {p.chain[i] : i \in Outs(p.chain)} \cup {InFlight(v)[i] : i \in Outs(InFlight(v))}
       PROVE  m.frame.bytes = Tail_(m.frame.to - m.frame.from, Before + m.frame.to)
  BY <1>5 DEF Shows, Gapless
<1> QED
  BY <1>3, <1>6, <1>8, <1>9, <1>10

LEMMA InvIsPreviewFirst == ViewersInv => PreviewComesFirst
<1> SUFFICES ASSUME ViewersInv, NEW v \in exact, page[v].preview
             PROVE  page[v].shown = <<>> /\ page[v].held = <<>>
  BY DEF PreviewComesFirst
<1>1. v \in Viewer /\ v \in exact
  BY DEF ViewersInv, Shape
<1>2. Counts(pump[v], wire[v], page[v])
  BY <1>1 DEF ViewersInv, FineAt, Fine
<1> QED
  BY <1>2 DEF Counts, Blank

LEMMA AlwaysViewersInv == Spec => []ViewersInv
BY InitViewers, NextViewers, PTL DEF Spec

\* Every variable keeps to its type, a pump is there exactly while its page is
\* connected, and a page holds bytes back only while it selects (handle_upgrade
\* and main.js, at every step of either).
THEOREM TypeCorrect == Spec => []TypeOK
BY AlwaysViewersInv, InvIsTyped, PTL

\* Each connection sends every byte once and in order, of however many viewers
\* that share encoded frames, whatever the ring evicts meanwhile and however
\* long a pump is behind (api_ws.rs over cached_frame, since and store_frame).
THEOREM InOrder == Spec => []SentInOrder
BY AlwaysViewersInv, InvIsInOrder, PTL

\* A page that missed nothing has all that was printed up to its offset, each
\* byte once and in its place, but for the characters that the end of a frame
\* cut and the modes that none did (main.js decodes and strips each frame by
\* itself); what is on its way to it goes on from there, through any
\* selections, lost connections and returns with nothing queued (main.js's
\* ringOffset against ?since=).
THEOREM PageIsExact == Spec => []ExactPage
BY AlwaysViewersInv, InvIsExactPage, PTL

\* No preview is ever put up over, or after, bytes that were printed
\* (api_ws.rs's preview frame against handleOut's reset).
THEOREM PreviewFirst == Spec => []PreviewComesFirst
BY AlwaysViewersInv, InvIsPreviewFirst, PTL
=============================================================================

---------------------------- MODULE GossipProofs ----------------------------
(***************************************************************************)
(* Gossiping hosts agree, for any hosts, peers, agents and tasks, however  *)
(* many entries, rounds and compactions there are.                         *)
(*                                                                         *)
(* The recursions of the code (a scan of the board, a merge, a partition)  *)
(* are functions of the lines read so far, so what they compute is proved  *)
(* by induction over those.  A scan by (ts, id) ends up with the entry     *)
(* that nothing beats and that came first with its id.  A merge hands on   *)
(* only such lines; so, until a compaction takes lines away, the line that *)
(* comes first with its id on any board is the one that does on the board  *)
(* of its origin (Lead).  There mint_id has left nothing to disagree about *)
(* (Minted), and two boards with the same ids have the same lines first.   *)
(*                                                                         *)
(* A compaction keeps all lines of a task that has no result; those of a   *)
(* live task are therefore on the board of their origin, unless they were  *)
(* appended between the reading and the rename (Kept).                     *)
(***************************************************************************)
EXTENDS Gossip, SequenceTheorems, WellFoundedInduction, TLAPS

----------------------------------------------------------------------------
(* Induction and recursion over the natural numbers, without operators as  *)
(* parameters: a property is the set of numbers that have it, and a step   *)
(* of a recursion is a function.                                           *)

LEMMA Induction ==
    ASSUME NEW P \in SUBSET Nat, 0 \in P, \A n \in P : n + 1 \in P
    PROVE  P = Nat
<1> DEFINE Q == Nat \ P
           R == OpToRel(<, Nat)
<1> SUFFICES ASSUME Q # {} PROVE FALSE
    OBVIOUS
<1>1. \E m \in Q : \A n \in Q : ~ (<<n, m>> \in R)
    BY NatLessThanWellFounded, WFMin
<1>2. PICK m \in Q : \A n \in Q : ~ (<<n, m>> \in R)
    BY <1>1
<1>3. m \in Nat /\ m # 0 /\ m - 1 \in Nat
    OBVIOUS
<1>4. \A n \in Q : ~(n < m)
    BY <1>2 DEF OpToRel
<1>5. m - 1 \in P
    BY <1>3, <1>4
<1>6. (m - 1) + 1 \in P
    BY <1>5, Zenon
<1>7. (m - 1) + 1 = m
    BY <1>3
<1> QED
    BY <1>6, <1>7

\* The values of the recursion from v with the steps G, up to n.
Unfolds(f, v, G, n) == f[0] = v /\ \A k \in 1..n : f[k] = G[k][f[k - 1]]

LEMMA Recursion ==
    ASSUME NEW V, NEW v \in V, NEW G \in [Nat -> [V -> V]], NEW N \in Nat
    PROVE  \E f \in [0..N -> V] : Unfolds(f, v, G, N)
<1> DEFINE P == {n \in Nat : \E f \in [0..n -> V] : Unfolds(f, v, G, n)}
<1>1. 0 \in P
    <2> DEFINE f == [k \in 0..0 |-> v]
    <2>1. f \in [0..0 -> V] /\ Unfolds(f, v, G, 0)
        BY DEF Unfolds
    <2> QED
        BY <2>1
<1>2. ASSUME NEW n \in P PROVE n + 1 \in P
    <2>1. PICK f \in [0..n -> V] : Unfolds(f, v, G, n)
        BY <1>2
    <2> DEFINE g == [k \in 0..(n + 1) |-> IF k = n + 1 THEN G[k][f[n]] ELSE f[k]]
    <2>2. g \in [0..(n + 1) -> V]
        BY <1>2
    <2>3. g[0] = v
        BY <1>2, <2>1 DEF Unfolds
    <2>4. ASSUME NEW k \in 1..(n + 1) PROVE g[k] = G[k][g[k - 1]]
        <3>1. g[k - 1] = f[k - 1]
            BY <1>2, <2>4
        <3>2. CASE k = n + 1
            BY <1>2, <3>1, <3>2
        <3>3. CASE k # n + 1
            <4>1. k \in 1..n /\ g[k] = f[k]
                BY <1>2, <3>3
            <4> QED
                BY <2>1, <3>1, <4>1 DEF Unfolds
        <3> QED
            BY <3>2, <3>3
    <2>5. \E h \in [0..(n + 1) -> V] : Unfolds(h, v, G, n + 1)
        BY <2>2, <2>3, <2>4 DEF Unfolds
    <2> QED
        BY <1>2, <2>5
<1> HIDE DEF P
<1>3. P \subseteq Nat
    BY DEF P
<1>4. P = Nat
    BY <1>1, <1>2, <1>3, Induction
<1> QED
    BY <1>4 DEF P

\* A recursion has one outcome.
InStep(f, g, N) == f[0] = g[0] /\ \A n \in 1..N : f[n - 1] = g[n - 1] => f[n] = g[n]

LEMMA SameOutcome ==
    ASSUME NEW f, NEW g, NEW N \in Nat, InStep(f, g, N)
    PROVE  f[N] = g[N]
<1> DEFINE P == {n \in Nat : n <= N => f[n] = g[n]}
<1>1. 0 \in P
    BY DEF InStep
<1>2. ASSUME NEW n \in P PROVE n + 1 \in P
    <2> SUFFICES ASSUME n + 1 <= N PROVE f[n + 1] = g[n + 1]
        OBVIOUS
    <2>1. n + 1 \in 1..N /\ (n + 1) - 1 = n /\ f[n] = g[n]
        OBVIOUS
    <2> QED
        BY <2>1 DEF InStep
<1>3. P \in SUBSET Nat
    OBVIOUS
<1> HIDE DEF P
<1>4. P = Nat
    BY <1>1, <1>2, <1>3, Induction
<1> QED
    BY <1>4 DEF P

----------------------------------------------------------------------------
(* The scan of a board: fold_tasks.                                        *)

\* R orders the entries of U, up to ties.
WeakOrder(R, U) ==
    /\ \A x, y \in U : <<x, y>> \in R => <<y, x>> \notin R
    /\ \A x, y, z \in U : <<x, y>> \in R /\ <<z, y>> \notin R => <<x, z>> \in R

\* How far a scan has come after n lines.
Leading(b, S, R, n, best) ==
    \/ best = Nobody /\ \A j \in 1..n : b[j] \notin S
    \/ \E i \in 1..n :
        /\ best = b[i] /\ b[i] \in S
        /\ \A j \in 1..(i - 1) : b[j] \in S => <<b[i], b[j]>> \in R
        /\ \A j \in 1..n : b[j] \in S => <<b[j], b[i]>> \notin R

LEMMA LeadingStep ==
    ASSUME NEW U, Nobody \notin U, NEW R, WeakOrder(R, U), NEW b \in Seq(U), NEW S,
           NEW n \in 1..Len(b), NEW best, Leading(b, S, R, n - 1, best)
    PROVE  Leading(b, S, R, n,
                   IF b[n] \in S /\ (best = Nobody \/ <<b[n], best>> \in R)
                   THEN b[n] ELSE best)
<1> DEFINE e == b[n]
<1>1. \A j \in 1..n : b[j] \in U
    OBVIOUS
<1>2. \A j \in 1..n : j = n \/ j \in 1..(n - 1)
    OBVIOUS
<1>3. 1..(n - 1) \subseteq 1..n /\ n \in 1..n
    OBVIOUS
<1>4. CASE e \notin S
    <2>1. Leading(b, S, R, n, best)
        BY <1>2, <1>3, <1>4 DEF Leading
    <2> QED
        BY <1>4, <2>1
<1>5. CASE e \in S /\ best = Nobody
    <2>1. \A j \in 1..(n - 1) : b[j] \notin S
        BY <1>1, <1>3, <1>5 DEF Leading
    <2>2. <<e, e>> \notin R
        BY <1>1, <1>3 DEF WeakOrder
    <2>3. Leading(b, S, R, n, e)
        BY <1>2, <1>3, <1>5, <2>1, <2>2 DEF Leading
    <2> QED
        BY <1>5, <2>3
<1>6. CASE e \in S /\ best # Nobody
    <2>1. PICK i \in 1..(n - 1) :
            /\ best = b[i] /\ b[i] \in S
            /\ \A j \in 1..(i - 1) : b[j] \in S => <<b[i], b[j]>> \in R
            /\ \A j \in 1..(n - 1) : b[j] \in S => <<b[j], b[i]>> \notin R
        BY <1>6 DEF Leading
    <2>2. i \in 1..n /\ e \in U /\ best \in U
        BY <1>1, <1>3, <2>1
    <2>3. CASE <<e, best>> \in R
        <3>1. \A j \in 1..(n - 1) : b[j] \in S => <<e, b[j]>> \in R
            BY <1>1, <1>3, <2>1, <2>2, <2>3 DEF WeakOrder
        <3>2. \A j \in 1..n : b[j] \in S => <<b[j], e>> \notin R
            BY <1>1, <1>2, <2>2, <3>1 DEF WeakOrder
        <3>3. Leading(b, S, R, n, e)
            BY <1>3, <1>6, <3>1, <3>2 DEF Leading
        <3> QED
            BY <1>6, <2>3, <3>3
    <2>4. CASE <<e, best>> \notin R
        <3>1. Leading(b, S, R, n, best)
            BY <1>2, <2>1, <2>2, <2>4 DEF Leading
        <3> QED
            BY <1>6, <2>4, <3>1
    <2> QED
        BY <2>3, <2>4
<1> QED
    BY <1>4, <1>5, <1>6

\* The recursion of Scan, for a relation R on U.
ScanOf(R, b, S, f) ==
    /\ f[0] = Nobody
    /\ \A n \in 1..Len(b) :
        f[n] = IF b[n] \in S /\ (f[n - 1] = Nobody \/ <<b[n], f[n - 1]>> \in R)
               THEN b[n] ELSE f[n - 1]

LEMMA ScanOfExists ==
    ASSUME NEW U, NEW R, NEW b \in Seq(U), NEW S
    PROVE  \E f \in [0..Len(b) -> U \cup {Nobody}] : ScanOf(R, b, S, f)
<1> DEFINE V == U \cup {Nobody}
           G == [n \in Nat |-> [best \in V |->
                    IF n \in 1..Len(b) /\ b[n] \in S /\ (best = Nobody \/ <<b[n], best>> \in R)
                    THEN b[n] ELSE best]]
<1>1. G \in [Nat -> [V -> V]]
    OBVIOUS
<1>2. Len(b) \in Nat /\ Nobody \in V
    OBVIOUS
<1>3. PICK f \in [0..Len(b) -> V] : Unfolds(f, Nobody, G, Len(b))
    <2> HIDE DEF G, V
    <2> QED
        BY <1>1, <1>2, Recursion
<1> HIDE DEF G
<1>4. ASSUME NEW n \in 1..Len(b)
      PROVE  f[n] = IF b[n] \in S /\ (f[n - 1] = Nobody \/ <<b[n], f[n - 1]>> \in R)
                    THEN b[n] ELSE f[n - 1]
    <2>1. n \in Nat /\ f[n - 1] \in V
        BY <1>2
    <2> QED
        BY <1>3, <2>1 DEF G, Unfolds
<1> QED
    BY <1>3, <1>4 DEF ScanOf, Unfolds

LEMMA ScanLeads ==
    ASSUME NEW U, Nobody \notin U, NEW R, WeakOrder(R, U), NEW b \in Seq(U), NEW S,
           NEW f, ScanOf(R, b, S, f)
    PROVE  Leading(b, S, R, Len(b), f[Len(b)])
<1> DEFINE P == {n \in Nat : n <= Len(b) => Leading(b, S, R, n, f[n])}
<1>1. 0 \in P
    BY DEF ScanOf, Leading
<1>2. ASSUME NEW n \in P PROVE n + 1 \in P
    <2> SUFFICES ASSUME n + 1 <= Len(b) PROVE Leading(b, S, R, n + 1, f[n + 1])
        OBVIOUS
    <2>1. n + 1 \in 1..Len(b) /\ (n + 1) - 1 = n /\ n <= Len(b)
        OBVIOUS
    <2>2. Leading(b, S, R, n, f[n])
        BY <2>1
    <2>3. f[n + 1] = IF b[n + 1] \in S /\ (f[n] = Nobody \/ <<b[n + 1], f[n]>> \in R)
                     THEN b[n + 1] ELSE f[n]
        BY <2>1 DEF ScanOf
    <2> QED
        BY <2>1, <2>2, <2>3, LeadingStep
<1> HIDE DEF P
<1>3. P = Nat
    <2>1. P \in SUBSET Nat
        BY DEF P
    <2> QED
        BY <1>1, <1>2, <2>1, Induction
<1>4. Len(b) \in P
    BY <1>3
<1> QED
    BY <1>4 DEF P

\* Entries that (ts, id) orders.
Stamped(U) == Nobody \notin U /\ \A e \in U : e.ts \in Nat /\ e.id \in Nat

NewerOn(U) == {p \in U \X U : Newer(p[1], p[2])}
EarlierOn(U) == {p \in U \X U : Earlier(p[1], p[2])}

LEMMA Orders ==
    ASSUME NEW U, Stamped(U)
    PROVE  WeakOrder(NewerOn(U), U) /\ WeakOrder(EarlierOn(U), U)
<1>1. \A x, y \in U : <<x, y>> \in NewerOn(U) <=> Newer(x, y)
    BY DEF NewerOn
<1>2. \A x, y \in U : <<x, y>> \in EarlierOn(U) <=> Earlier(x, y)
    BY DEF EarlierOn
<1>3. \A x, y \in U : Newer(x, y) => ~Newer(y, x)
    BY DEF Newer, Stamped
<1>4. \A x, y, z \in U : Newer(x, y) /\ ~Newer(z, y) => Newer(x, z)
    BY DEF Newer, Stamped
<1>5. \A x, y \in U : Earlier(x, y) => ~Earlier(y, x)
    BY DEF Earlier, Stamped
<1>6. \A x, y, z \in U : Earlier(x, y) /\ ~Earlier(z, y) => Earlier(x, z)
    BY DEF Earlier, Stamped
<1> QED
    BY <1>1, <1>2, <1>3, <1>4, <1>5, <1>6, Zenon DEF WeakOrder

LEMMA ScanNewer ==
    ASSUME NEW U, Stamped(U), NEW b \in Seq(U), NEW S
    PROVE  Leading(b, S, NewerOn(U), Len(b), Scan(Newer, b, S))
<1> DEFINE R == NewerOn(U)
           rest(f) == [n \in 0..Len(b) |->
                        IF n = 0 THEN Nobody
                        ELSE IF b[n] \in S /\ (f[n - 1] = Nobody \/ Newer(b[n], f[n - 1]))
                             THEN b[n] ELSE f[n - 1]]
           best == CHOOSE f : f = rest(f)
<1>1. Scan(Newer, b, S) = best[Len(b)]
    BY DEF Scan
<1>2. PICK f \in [0..Len(b) -> U \cup {Nobody}] : ScanOf(R, b, S, f)
    BY ScanOfExists
<1>3. \A n \in 1..Len(b) : n - 1 \in 0..Len(b) /\ b[n] \in U
    OBVIOUS
<1>4. \A n \in 1..Len(b) : f[n] = IF b[n] \in S /\ (f[n - 1] = Nobody \/ Newer(b[n], f[n - 1]))
                                  THEN b[n] ELSE f[n - 1]
    BY <1>2, <1>3 DEF ScanOf, NewerOn
<1>5. f = rest(f)
    BY <1>2, <1>4 DEF ScanOf
<1>6. best = rest(best)
    <2> HIDE DEF rest
    <2> QED
        BY <1>5, Zenon
<1>7. best[Len(b)] = f[Len(b)]
    <2> HIDE DEF best
    <2>1. Len(b) \in Nat /\ f[0] = Nobody
        BY <1>2 DEF ScanOf
    <2>2. best[0] = f[0]
        BY <1>6, <2>1
    <2>3. \A n \in 1..Len(b) : best[n - 1] = f[n - 1] => best[n] = f[n]
        BY <1>3, <1>4, <1>6
    <2>4. InStep(best, f, Len(b))
        BY <2>2, <2>3 DEF InStep
    <2> QED
        BY <2>1, <2>4, SameOutcome
<1> QED
    BY <1>1, <1>2, <1>7, Orders, ScanLeads DEF Stamped

LEMMA ScanEarlier ==
    ASSUME NEW U, Stamped(U), NEW b \in Seq(U), NEW S
    PROVE  Leading(b, S, EarlierOn(U), Len(b), Scan(Earlier, b, S))
<1> DEFINE R == EarlierOn(U)
           rest(f) == [n \in 0..Len(b) |->
                        IF n = 0 THEN Nobody
                        ELSE IF b[n] \in S /\ (f[n - 1] = Nobody \/ Earlier(b[n], f[n - 1]))
                             THEN b[n] ELSE f[n - 1]]
           best == CHOOSE f : f = rest(f)
<1>1. Scan(Earlier, b, S) = best[Len(b)]
    BY DEF Scan
<1>2. PICK f \in [0..Len(b) -> U \cup {Nobody}] : ScanOf(R, b, S, f)
    BY ScanOfExists
<1>3. \A n \in 1..Len(b) : n - 1 \in 0..Len(b) /\ b[n] \in U
    OBVIOUS
<1>4. \A n \in 1..Len(b) : f[n] = IF b[n] \in S /\ (f[n - 1] = Nobody \/ Earlier(b[n], f[n - 1]))
                                  THEN b[n] ELSE f[n - 1]
    BY <1>2, <1>3 DEF ScanOf, EarlierOn
<1>5. f = rest(f)
    BY <1>2, <1>4 DEF ScanOf
<1>6. best = rest(best)
    <2> HIDE DEF rest
    <2> QED
        BY <1>5, Zenon
<1>7. best[Len(b)] = f[Len(b)]
    <2> HIDE DEF best
    <2>1. Len(b) \in Nat /\ f[0] = Nobody
        BY <1>2 DEF ScanOf
    <2>2. best[0] = f[0]
        BY <1>6, <2>1
    <2>3. \A n \in 1..Len(b) : best[n - 1] = f[n - 1] => best[n] = f[n]
        BY <1>3, <1>4, <1>6
    <2>4. InStep(best, f, Len(b))
        BY <2>2, <2>3 DEF InStep
    <2> QED
        BY <2>1, <2>4, SameOutcome
<1> QED
    BY <1>1, <1>2, <1>7, Orders, ScanLeads DEF Stamped

\* What a scan picks is in S, and nothing in S beats it.
LEMMA LeadingWins ==
    ASSUME NEW U, NEW R, NEW b \in Seq(U), NEW S \in SUBSET ToSet(b), NEW best,
           Leading(b, S, R, Len(b), best), Nobody \notin U
    PROVE  /\ best = Nobody <=> S = {}
           /\ best # Nobody => best \in S /\ \A d \in S : <<d, best>> \notin R
<1>1. \A d \in S : \E j \in 1..Len(b) : d = b[j]
    BY DEF ToSet
<1>2. \A j \in 1..Len(b) : b[j] \in U
    OBVIOUS
<1>3. CASE best = Nobody /\ \A j \in 1..Len(b) : b[j] \notin S
    BY <1>1, <1>3
<1>4. CASE \E i \in 1..Len(b) :
            /\ best = b[i] /\ b[i] \in S
            /\ \A j \in 1..Len(b) : b[j] \in S => <<b[j], b[i]>> \notin R
    BY <1>1, <1>2, <1>4
<1> QED
    BY <1>3, <1>4, Zenon DEF Leading

\* Where ids tell the entries of S apart, the scan finds the winner.
LEMMA NewerWins ==
    ASSUME NEW U, Stamped(U), NEW b \in Seq(U), NEW S \in SUBSET ToSet(b), IdsDetermine(S)
    PROVE  Scan(Newer, b, S) = Winner(Newer, S)
<1> DEFINE best == Scan(Newer, b, S)
<1>1. ToSet(b) \subseteq U
    BY DEF ToSet
<1>2. /\ best = Nobody <=> S = {}
      /\ best # Nobody => best \in S /\ \A d \in S : <<d, best>> \notin NewerOn(U)
    BY ScanNewer, LeadingWins DEF Stamped
<1> HIDE DEF best
<1>3. CASE S = {}
    BY <1>2, <1>3 DEF Winner, best
<1>4. CASE S # {}
    <2>1. best \in S /\ \A d \in S : ~Newer(d, best)
        BY <1>1, <1>2, <1>4 DEF NewerOn
    <2>2. \A e \in S : (\A d \in S : ~Newer(d, e)) => e = best
        BY <1>1, <2>1 DEF Newer, Stamped, IdsDetermine
    <2>3. Winner(Newer, S) = best
        BY <1>4, <2>1, <2>2 DEF Winner
    <2> QED
        BY <2>3 DEF best
<1> QED
    BY <1>3, <1>4

\* No two announcements of S have one stamp.
StampsDetermine(S) == \A d, e \in S : d.ts = e.ts => d = e

LEMMA EarlierWins ==
    ASSUME NEW U, Stamped(U), NEW b \in Seq(U), NEW S \in SUBSET ToSet(b), StampsDetermine(S)
    PROVE  Scan(Earlier, b, S) = Winner(Earlier, S)
<1> DEFINE best == Scan(Earlier, b, S)
<1>1. ToSet(b) \subseteq U
    BY DEF ToSet
<1>2. /\ best = Nobody <=> S = {}
      /\ best # Nobody => best \in S /\ \A d \in S : <<d, best>> \notin EarlierOn(U)
    BY ScanEarlier, LeadingWins DEF Stamped
<1> HIDE DEF best
<1>3. CASE S = {}
    BY <1>2, <1>3 DEF Winner, best
<1>4. CASE S # {}
    <2>1. best \in S /\ \A d \in S : ~Earlier(d, best)
        BY <1>1, <1>2, <1>4 DEF EarlierOn
    <2>2. \A e \in S : (\A d \in S : ~Earlier(d, e)) => e = best
        BY <1>1, <2>1 DEF Earlier, Stamped, StampsDetermine
    <2>3. Winner(Earlier, S) = best
        BY <1>4, <2>1, <2>2 DEF Winner
    <2> QED
        BY <2>3 DEF best
<1> QED
    BY <1>3, <1>4

\* The fold of the lines is the view of their set.
LEMMA FoldIsView ==
    ASSUME NEW U, Stamped(U), NEW b \in Seq(U), IdsDetermine(ToSet(b)), NEW t,
           StampsDetermine(Saying(ToSet(b), t, "announce"))
    PROVE  FoldTask(b, t) = ViewOf(ToSet(b), t)
<1> DEFINE S == ToSet(b)
           of(kind) == Saying(S, t, kind)
           bids == of("bid")
           by(x) == {e \in bids : e.from = x}
<1>1. \A kind : of(kind) \in SUBSET S /\ IdsDetermine(of(kind))
    BY DEF Saying, IdsDetermine
<1>2. \A x : by(x) \in SUBSET S /\ IdsDetermine(by(x))
    BY <1>1 DEF IdsDetermine
<1>3. Scan(Earlier, b, of("announce")) = Winner(Earlier, of("announce"))
    BY <1>1, EarlierWins
<1>4. /\ Scan(Newer, b, of("award")) = Winner(Newer, of("award"))
      /\ Scan(Newer, b, of("done")) = Winner(Newer, of("done"))
    BY <1>1, NewerWins
<1>5. \A x : Scan(Newer, b, by(x)) = Winner(Newer, by(x))
    BY <1>2, NewerWins
<1>6. [x \in {e.from : e \in bids} |-> Scan(Newer, b, by(x))]
      = [x \in {e.from : e \in bids} |-> Winner(Newer, by(x))]
    BY <1>5
<1> QED
    BY <1>3, <1>4, <1>6, Zenon DEF FoldTask, ViewOf

----------------------------------------------------------------------------
(* The lines that come first with their id: what a merge hands on.         *)

Firsts(b) == {b[i] : i \in {k \in DOMAIN b : \A j \in 1..(k - 1) : b[j].id # b[k].id}}

LEMMA Least ==
    ASSUME NEW S \in SUBSET Nat, S # {}
    PROVE  \E m \in S : \A n \in S : m <= n
<1> DEFINE R == OpToRel(<, Nat)
<1>1. \E m \in S : \A n \in S : ~ (<<n, m>> \in R)
    BY NatLessThanWellFounded, WFMin
<1>2. PICK m \in S : \A n \in S : ~ (<<n, m>> \in R)
    BY <1>1
<1>3. \A n \in S : ~(n < m)
    BY <1>2 DEF OpToRel
<1> QED
    BY <1>3

\* Of each id on a board one line comes first, and only one entry.
LEMMA FirstExists ==
    ASSUME NEW U, NEW b \in Seq(U), NEW x \in Ids(b)
    PROVE  \E e \in Firsts(b) : e.id = x
<1> DEFINE S == {k \in DOMAIN b : b[k].id = x}
<1>1. S \in SUBSET Nat /\ S # {}
    BY DEF Ids, ToSet
<1>2. PICK m \in S : \A n \in S : m <= n
    BY <1>1, Least
<1>3. \A j \in 1..(m - 1) : j \in DOMAIN b /\ j \notin S
    BY <1>2
<1>4. b[m] \in Firsts(b)
    BY <1>2, <1>3 DEF Firsts
<1> QED
    BY <1>2, <1>4

LEMMA FirstUnique ==
    ASSUME NEW U, NEW b \in Seq(U), NEW d \in Firsts(b), NEW e \in Firsts(b), d.id = e.id
    PROVE  d = e
<1>1. PICK i \in DOMAIN b : d = b[i] /\ \A j \in 1..(i - 1) : b[j].id # b[i].id
    BY DEF Firsts
<1>2. PICK k \in DOMAIN b : e = b[k] /\ \A j \in 1..(k - 1) : b[j].id # b[k].id
    BY DEF Firsts
<1>3. i \in Nat /\ k \in Nat /\ i >= 1 /\ k >= 1
    OBVIOUS
<1>4. ~(i < k) /\ ~(k < i)
    BY <1>1, <1>2, <1>3
<1> QED
    BY <1>1, <1>2, <1>3, <1>4

LEMMA FirstsOnBoard ==
    ASSUME NEW U, NEW b \in Seq(U)
    PROVE  Firsts(b) \subseteq ToSet(b) /\ ToSet(b) \subseteq U
BY DEF Firsts, ToSet

\* Appending takes away no first line, and adds first lines of its own.
LEMMA FirstsAppend ==
    ASSUME NEW U, NEW b \in Seq(U), NEW c \in Seq(U)
    PROVE  /\ Firsts(b) \subseteq Firsts(b \o c)
           /\ Firsts(b \o c) \subseteq Firsts(b) \cup Firsts(c)
           /\ ToSet(b \o c) = ToSet(b) \cup ToSet(c)
<1> DEFINE bc == b \o c
           m == Len(b)
<1>1. /\ bc \in Seq(U) /\ m \in Nat /\ Len(c) \in Nat
      /\ DOMAIN bc = 1..(m + Len(c)) /\ DOMAIN b = 1..m /\ DOMAIN c = 1..Len(c)
    OBVIOUS
<1>2. \A i \in 1..m : bc[i] = b[i]
    OBVIOUS
<1>3. \A i \in 1..Len(c) : m + i \in 1..(m + Len(c)) /\ bc[m + i] = c[i]
    OBVIOUS
<1> HIDE DEF bc, m
<1>4. ASSUME NEW i \in 1..m, \A j \in 1..(i - 1) : b[j].id # b[i].id
      PROVE  b[i] \in Firsts(bc)
    <2>1. i \in DOMAIN bc /\ bc[i] = b[i]
        BY <1>1, <1>2
    <2>2. \A j \in 1..(i - 1) : j \in 1..m
        BY <1>1
    <2>3. \A j \in 1..(i - 1) : bc[j].id # bc[i].id
        BY <1>2, <1>4, <2>1, <2>2
    <2> QED
        BY <2>1, <2>3 DEF Firsts
<1>5. ASSUME NEW i \in DOMAIN bc, \A j \in 1..(i - 1) : bc[j].id # bc[i].id
      PROVE  bc[i] \in Firsts(b) \cup Firsts(c)
    <2>1. CASE i \in 1..m
        <3>1. \A j \in 1..(i - 1) : j \in 1..m
            BY <1>1, <2>1
        <3>2. \A j \in 1..(i - 1) : b[j].id # b[i].id
            BY <1>2, <1>5, <2>1, <3>1
        <3> QED
            BY <1>1, <1>2, <2>1, <3>2 DEF Firsts
    <2>2. CASE i \notin 1..m
        <3> DEFINE k == i - m
        <3>1. k \in 1..Len(c) /\ i = m + k
            BY <1>1, <2>2
        <3>2. \A j \in 1..(k - 1) : j \in 1..Len(c) /\ m + j \in 1..(i - 1)
            BY <1>1, <3>1
        <3>3. bc[i] = c[k] /\ \A j \in 1..(k - 1) : bc[m + j] = c[j]
            BY <1>3, <3>1, <3>2
        <3>4. \A j \in 1..(k - 1) : c[j].id # c[k].id
            BY <1>5, <3>2, <3>3
        <3> QED
            BY <1>1, <3>1, <3>3, <3>4 DEF Firsts
    <2> QED
        BY <2>1, <2>2
<1>6. ToSet(bc) = ToSet(b) \cup ToSet(c)
    <2>1. ASSUME NEW i \in DOMAIN bc PROVE bc[i] \in ToSet(b) \cup ToSet(c)
        <3>1. CASE i \in 1..m
            BY <1>1, <1>2, <3>1 DEF ToSet
        <3>2. CASE i \notin 1..m
            <4>1. i - m \in 1..Len(c) /\ i = m + (i - m)
                BY <1>1, <3>2
            <4>2. bc[i] = c[i - m]
                BY <1>3, <4>1
            <4> QED
                BY <1>1, <4>1, <4>2 DEF ToSet
        <3> QED
            BY <3>1, <3>2
    <2>2. ASSUME NEW i \in DOMAIN b PROVE b[i] \in ToSet(bc)
        BY <1>1, <1>2 DEF ToSet
    <2>3. ASSUME NEW i \in DOMAIN c PROVE c[i] \in ToSet(bc)
        BY <1>1, <1>3 DEF ToSet
    <2> QED
        BY <2>1, <2>2, <2>3 DEF ToSet
<1> QED
    BY <1>1, <1>4, <1>5, <1>6 DEF Firsts, bc

\* Entries with one id are alike: of one second, and of one sort.
Alike(U, K) == \A d, e \in U : d.id = e.id => d.ts = e.ts /\ (d \in K <=> e \in K)

\* The scan ends up with a line that came first with its id.
LEMMA NewerFirst ==
    ASSUME NEW U, Stamped(U), NEW b \in Seq(U), NEW K, Alike(U, K)
    PROVE  LET best == Scan(Newer, b, ToSet(b) \cap K)
           IN  /\ best = Nobody <=> ToSet(b) \cap K = {}
               /\ best # Nobody => /\ best \in Firsts(b) \cap K
                                  /\ \A d \in ToSet(b) \cap K : ~Newer(d, best)
<1> DEFINE S == ToSet(b) \cap K
           best == Scan(Newer, b, S)
<1>1. ToSet(b) \subseteq U /\ Nobody \notin U
    BY DEF ToSet, Stamped
<1>2. Leading(b, S, NewerOn(U), Len(b), best)
    BY ScanNewer
<1> HIDE DEF best
<1>3. /\ best = Nobody <=> S = {}
      /\ best # Nobody => best \in S /\ \A d \in S : <<d, best>> \notin NewerOn(U)
    <2>1. S \in SUBSET ToSet(b)
        OBVIOUS
    <2> HIDE DEF S
    <2> QED
        BY <1>1, <1>2, <2>1, LeadingWins
<1>4. ASSUME best # Nobody PROVE best \in Firsts(b)
    <2>1. PICK i \in 1..Len(b) :
            /\ best = b[i] /\ b[i] \in S
            /\ \A j \in 1..(i - 1) : b[j] \in S => <<b[i], b[j]>> \in NewerOn(U)
        BY <1>2, <1>4 DEF Leading
    <2>2. ASSUME NEW j \in 1..(i - 1), b[j].id = b[i].id PROVE FALSE
        <3>1. j \in DOMAIN b /\ b[j] \in ToSet(b) /\ b[j] \in U /\ b[i] \in U
            BY <1>1, <2>1 DEF ToSet
        <3>2. b[j] \in S /\ b[j].ts = b[i].ts
            BY <2>1, <2>2, <3>1 DEF Alike
        <3>3. Newer(b[i], b[j])
            BY <2>1, <3>2 DEF NewerOn
        <3> QED
            BY <2>2, <3>1, <3>2, <3>3 DEF Newer, Stamped
    <2> QED
        BY <2>1, <2>2 DEF Firsts
<1>5. best # Nobody => \A d \in S : ~Newer(d, best)
    BY <1>1, <1>3 DEF NewerOn
<1> QED
    BY <1>3, <1>4, <1>5 DEF best

\* On two boards with the same ids, of which the same lines came first, the
\* scans end up with the same entry.
Meet(b, c) == \A d \in Firsts(b), e \in Firsts(c) : d.id = e.id => d = e

LEMMA NewerMeets ==
    ASSUME NEW U, Stamped(U), NEW b \in Seq(U), NEW c \in Seq(U), NEW K, Alike(U, K),
           Ids(b) = Ids(c), Meet(b, c)
    PROVE  Scan(Newer, b, ToSet(b) \cap K) = Scan(Newer, c, ToSet(c) \cap K)
<1> DEFINE S == ToSet(b) \cap K
           T == ToSet(c) \cap K
           d == Scan(Newer, b, S)
           e == Scan(Newer, c, T)
<1>1. ToSet(b) \subseteq U /\ ToSet(c) \subseteq U
    BY DEF ToSet
<1>2. /\ d = Nobody <=> S = {}
      /\ d # Nobody => d \in Firsts(b) \cap K /\ \A x \in S : ~Newer(x, d)
    BY NewerFirst
<1>3. /\ e = Nobody <=> T = {}
      /\ e # Nobody => e \in Firsts(c) \cap K /\ \A x \in T : ~Newer(x, e)
    BY NewerFirst
<1>4. S = {} <=> T = {}
    <2> HIDE DEF d, e
    <2>1. ASSUME NEW x \in ToSet(b) PROVE \E y \in ToSet(c) : x.id = y.id
        <3>1. x.id \in Ids(c)
            BY DEF Ids
        <3> QED
            BY <3>1 DEF Ids
    <2>2. ASSUME NEW y \in ToSet(c) PROVE \E x \in ToSet(b) : x.id = y.id
        <3>1. y.id \in Ids(b)
            BY DEF Ids
        <3> QED
            BY <3>1 DEF Ids
    <2>3. ASSUME NEW x \in S PROVE T # {}
        <3>1. PICK y \in ToSet(c) : x.id = y.id
            BY <2>1
        <3> QED
            BY <1>1, <3>1 DEF Alike
    <2>4. ASSUME NEW y \in T PROVE S # {}
        <3>1. PICK x \in ToSet(b) : x.id = y.id
            BY <2>2
        <3> QED
            BY <1>1, <3>1 DEF Alike
    <2> QED
        BY <2>3, <2>4
<1> HIDE DEF d, e
<1>5. CASE d # Nobody
    <2>1. e # Nobody /\ d \in Firsts(b) /\ d \in K /\ e \in Firsts(c) /\ e \in K
        BY <1>2, <1>3, <1>4, <1>5
    <2>2. d \in ToSet(b) /\ e \in ToSet(c)
        BY <2>1, FirstsOnBoard
    <2>3. PICK x \in Firsts(c) : x.id = d.id
        BY <2>2, FirstExists DEF Ids
    <2>4. PICK y \in Firsts(b) : y.id = e.id
        BY <2>2, FirstExists DEF Ids
    <2>5. x = d /\ y = e
        BY <2>1, <2>3, <2>4 DEF Meet
    <2>6. d \in T /\ e \in S
        BY <2>1, <2>3, <2>4, <2>5, FirstsOnBoard
    <2>7. ~Newer(d, e) /\ ~Newer(e, d) /\ d \in U /\ e \in U
        BY <1>1, <1>2, <1>3, <1>5, <2>1, <2>2, <2>6
    <2>8. d.id = e.id
        BY <2>7 DEF Newer, Stamped
    <2>9. d = e
        BY <2>1, <2>8 DEF Meet
    <2> QED
        BY <2>9 DEF d, e
<1>6. CASE d = Nobody
    BY <1>2, <1>3, <1>4, <1>6 DEF d, e
<1> QED
    BY <1>5, <1>6

\* Entries with one id differ in nothing that is hashed; no task is announced
\* twice in a second.
ContentById(U) == \A d, e \in U : d.id = e.id => SameContent(d, e)
AnnouncedOnce(U) ==
    \A d, e \in U : d.kind = "announce" /\ e.kind = "announce" /\ d.task = e.task /\ d.ts = e.ts => d = e

LEMMA FoldsMeet ==
    ASSUME NEW U, Stamped(U), ContentById(U), AnnouncedOnce(U),
           NEW b \in Seq(U), NEW c \in Seq(U), Ids(b) = Ids(c), Meet(b, c), NEW t
    PROVE  FoldTask(b, t) = FoldTask(c, t)
<1>1. ToSet(b) \subseteq U /\ ToSet(c) \subseteq U
    BY DEF ToSet
<1>2. ASSUME NEW K \in SUBSET U, \A d, e \in U : SameContent(d, e) => (d \in K <=> e \in K)
      PROVE  Scan(Newer, b, ToSet(b) \cap K) = Scan(Newer, c, ToSet(c) \cap K)
    <2>1. Alike(U, K)
        BY <1>2 DEF Alike, ContentById, SameContent
    <2> QED
        BY <2>1, NewerMeets
<1>3. \A x \in ToSet(b) : \E y \in ToSet(c) : x.id = y.id /\ SameContent(x, y)
    BY <1>1 DEF Ids, ContentById
<1>4. \A y \in ToSet(c) : \E x \in ToSet(b) : x.id = y.id /\ SameContent(x, y)
    BY <1>1 DEF Ids, ContentById
<1>5. Scan(Earlier, b, Saying(ToSet(b), t, "announce")) = Scan(Earlier, c, Saying(ToSet(c), t, "announce"))
    <2> DEFINE S == Saying(ToSet(b), t, "announce")
               T == Saying(ToSet(c), t, "announce")
    <2>1. S = T
        BY <1>1, <1>3, <1>4 DEF Saying, SameContent, AnnouncedOnce
    <2>2. S \in SUBSET ToSet(b) /\ T \in SUBSET ToSet(c)
        BY DEF Saying
    <2>3. StampsDetermine(S) /\ StampsDetermine(T)
        BY <1>1 DEF Saying, StampsDetermine, AnnouncedOnce
    <2>4. Scan(Earlier, b, S) = Winner(Earlier, S)
        BY <2>2, <2>3, EarlierWins
    <2>5. Scan(Earlier, c, T) = Winner(Earlier, T)
        BY <2>2, <2>3, EarlierWins
    <2> QED
        BY <2>1, <2>4, <2>5
<1>6. ASSUME NEW kind
      PROVE  Scan(Newer, b, Saying(ToSet(b), t, kind)) = Scan(Newer, c, Saying(ToSet(c), t, kind))
    <2> DEFINE K == Saying(U, t, kind)
    <2>1. K \in SUBSET U /\ \A d, e \in U : SameContent(d, e) => (d \in K <=> e \in K)
        BY DEF Saying, SameContent
    <2>2. Saying(ToSet(b), t, kind) = ToSet(b) \cap K /\ Saying(ToSet(c), t, kind) = ToSet(c) \cap K
        BY <1>1 DEF Saying
    <2> HIDE DEF K
    <2> QED
        BY <1>2, <2>1, <2>2
<1> DEFINE of(B) == Saying(ToSet(B), t, "bid")
           bidders(B) == {e.from : e \in of(B)}
           by(B, x) == {e \in of(B) : e.from = x}
<1>7. ASSUME NEW x
      PROVE  Scan(Newer, b, by(b, x)) = Scan(Newer, c, by(c, x))
    <2> DEFINE K == {e \in Saying(U, t, "bid") : e.from = x}
    <2>1. K \in SUBSET U /\ \A d, e \in U : SameContent(d, e) => (d \in K <=> e \in K)
        BY DEF Saying, SameContent
    <2>2. by(b, x) = ToSet(b) \cap K /\ by(c, x) = ToSet(c) \cap K
        BY <1>1 DEF Saying
    <2> HIDE DEF K, by
    <2> QED
        BY <1>2, <2>1, <2>2
<1>8. bidders(b) = bidders(c)
    BY <1>3, <1>4 DEF Saying, SameContent
<1>9. [x \in bidders(b) |-> Scan(Newer, b, by(b, x))] = [x \in bidders(c) |-> Scan(Newer, c, by(c, x))]
    <2> HIDE DEF by, bidders
    <2> QED
        BY <1>7, <1>8
<1>10. LastTs({e \in ToSet(b) : e.task = t}) = LastTs({e \in ToSet(c) : e.task = t})
    <2>1. {e.ts : e \in {d \in ToSet(b) : d.task = t}} = {e.ts : e \in {d \in ToSet(c) : d.task = t}}
        BY <1>3, <1>4 DEF SameContent
    <2> QED
        BY <2>1, Zenon DEF LastTs
<1> QED
    BY <1>5, <1>6, <1>9, <1>10, Zenon DEF FoldTask

\* The recursion of MergeNotes.
MergeOf(have, incoming, f) ==
    /\ f[0] = <<>>
    /\ \A n \in 1..Len(incoming) :
        f[n] = IF incoming[n].id \in Ids(have) \cup Ids(f[n - 1]) THEN f[n - 1]
               ELSE Append(f[n - 1], incoming[n])

LEMMA MergeOfExists ==
    ASSUME NEW U, NEW have, NEW incoming \in Seq(U)
    PROVE  \E f \in [0..Len(incoming) -> Seq(U)] :
                MergeOf(have, incoming, f) /\ MergeNotes(have, incoming) = f[Len(incoming)]
<1> DEFINE V == Seq(U)
           G == [n \in Nat |-> [new \in V |->
                    IF n \in 1..Len(incoming)
                    THEN IF incoming[n].id \in Ids(have) \cup Ids(new) THEN new
                         ELSE Append(new, incoming[n])
                    ELSE new]]
           rest(f) == [n \in 0..Len(incoming) |->
                        IF n = 0 THEN <<>>
                        ELSE IF incoming[n].id \in Ids(have) \cup Ids(f[n - 1]) THEN f[n - 1]
                             ELSE Append(f[n - 1], incoming[n])]
           new == CHOOSE f : f = rest(f)
<1>1. MergeNotes(have, incoming) = new[Len(incoming)]
    BY DEF MergeNotes
<1>2. G \in [Nat -> [V -> V]]
    OBVIOUS
<1>3. Len(incoming) \in Nat /\ <<>> \in V
    OBVIOUS
<1>4. PICK f \in [0..Len(incoming) -> V] : Unfolds(f, <<>>, G, Len(incoming))
    <2> HIDE DEF G, V
    <2> QED
        BY <1>2, <1>3, Recursion
<1> HIDE DEF G
<1>5. ASSUME NEW n \in 1..Len(incoming)
      PROVE  f[n] = IF incoming[n].id \in Ids(have) \cup Ids(f[n - 1]) THEN f[n - 1]
                    ELSE Append(f[n - 1], incoming[n])
    <2>1. n \in Nat /\ f[n - 1] \in V
        BY <1>3
    <2> QED
        BY <1>4, <2>1 DEF G, Unfolds
<1>6. MergeOf(have, incoming, f) /\ f = rest(f)
    <2>1. f[0] = <<>>
        BY <1>4 DEF Unfolds
    <2>2. MergeOf(have, incoming, f)
        BY <1>5, <2>1 DEF MergeOf
    <2>3. rest(f)[0] = f[0] /\ \A n \in 0..Len(incoming) : n = 0 \/ n \in 1..Len(incoming)
        BY <1>3, <2>1
    <2>4. \A n \in 1..Len(incoming) : rest(f)[n] = f[n]
        BY <1>3, <1>5
    <2>5. DOMAIN rest(f) = 0..Len(incoming) /\ rest(f) = [n \in 0..Len(incoming) |-> rest(f)[n]]
        OBVIOUS
    <2>6. f = [n \in 0..Len(incoming) |-> rest(f)[n]]
        <3> HIDE DEF rest
        <3> QED
            BY <2>3, <2>4
    <2>7. f = rest(f)
        BY <2>5, <2>6, Zenon
    <2> QED
        BY <2>2, <2>7
<1>7. new = rest(new)
    <2> HIDE DEF rest
    <2> QED
        BY <1>6, Zenon
<1>8. new[Len(incoming)] = f[Len(incoming)]
    <2> HIDE DEF new
    <2>1. new[0] = f[0]
        BY <1>3, <1>6, <1>7 DEF MergeOf
    <2>2. \A n \in 1..Len(incoming) : n - 1 \in 0..Len(incoming) /\ n \in 0..Len(incoming) /\ n # 0
        BY <1>3
    <2>3. \A n \in 1..Len(incoming) : new[n - 1] = f[n - 1] => new[n] = f[n]
        BY <1>5, <1>7, <2>2
    <2>4. InStep(new, f, Len(incoming))
        BY <2>1, <2>3 DEF InStep
    <2> QED
        BY <1>3, <2>4, SameOutcome
<1> QED
    BY <1>1, <1>6, <1>8

LEMMA AppendSet ==
    ASSUME NEW U, NEW b \in Seq(U), NEW e \in U
    PROVE  ToSet(Append(b, e)) = ToSet(b) \cup {e}
<1> DEFINE c == Append(b, e)
<1>1. /\ DOMAIN c = 1..(Len(b) + 1) /\ DOMAIN b = 1..Len(b) /\ Len(b) \in Nat
      /\ \A i \in 1..Len(b) : c[i] = b[i]
      /\ c[Len(b) + 1] = e
    OBVIOUS
<1>2. \A i \in 1..(Len(b) + 1) : i \in 1..Len(b) \/ i = Len(b) + 1
    BY <1>1
<1>3. 1..Len(b) \subseteq 1..(Len(b) + 1) /\ Len(b) + 1 \in 1..(Len(b) + 1)
    BY <1>1
<1> HIDE DEF c
<1>4. ToSet(c) = ToSet(b) \cup {e}
    BY <1>1, <1>2, <1>3 DEF ToSet
<1> QED
    BY <1>4 DEF c

\* What a merge appends came first with its id.
LEMMA MergeFirsts ==
    ASSUME NEW U, NEW have, NEW incoming \in Seq(U)
    PROVE  /\ MergeNotes(have, incoming) \in Seq(U)
           /\ ToSet(MergeNotes(have, incoming)) \subseteq Firsts(incoming)
<1>1. PICK f \in [0..Len(incoming) -> Seq(U)] :
        MergeOf(have, incoming, f) /\ MergeNotes(have, incoming) = f[Len(incoming)]
    BY MergeOfExists, ZenonT(60)
<1> DEFINE Right(n) == /\ ToSet(f[n]) \subseteq Firsts(incoming)
                       /\ \A j \in 1..n : incoming[j].id \in Ids(have) \cup Ids(f[n])
           P == {n \in Nat : n <= Len(incoming) => Right(n)}
<1>2. 0 \in P
    <2>1. f[0] = <<>>
        BY <1>1 DEF MergeOf
    <2>2. ToSet(f[0]) = {}
        BY <2>1 DEF ToSet
    <2>3. \A j \in 1..0 : FALSE
        OBVIOUS
    <2> QED
        BY <2>2, <2>3
<1>3. ASSUME NEW n \in P PROVE n + 1 \in P
    <2> SUFFICES ASSUME n + 1 <= Len(incoming) PROVE Right(n + 1)
        OBVIOUS
    <2> DEFINE e == incoming[n + 1]
    <2>1. /\ n \in Nat /\ n + 1 \in 1..Len(incoming) /\ (n + 1) - 1 = n
          /\ n \in 0..Len(incoming) /\ Len(incoming) \in Nat
          /\ \A j \in 1..(n + 1) : j = n + 1 \/ j \in 1..n
        OBVIOUS
    <2>2. Right(n) /\ f[n] \in Seq(U) /\ e \in U
        BY <1>1, <2>1
    <2>3. f[n + 1] = IF e.id \in Ids(have) \cup Ids(f[n]) THEN f[n] ELSE Append(f[n], e)
        BY <1>1, <2>1 DEF MergeOf
    <2>4. CASE e.id \in Ids(have) \cup Ids(f[n])
        BY <2>1, <2>2, <2>3, <2>4
    <2>5. CASE e.id \notin Ids(have) \cup Ids(f[n])
        <3>1. f[n + 1] = Append(f[n], e)
            BY <2>3, <2>5
        <3>2. ToSet(f[n + 1]) = ToSet(f[n]) \cup {e}
            BY <2>2, <3>1, AppendSet
        <3>3. Ids(f[n + 1]) = Ids(f[n]) \cup {e.id}
            BY <3>2 DEF Ids
        <3>4. \A j \in 1..n : incoming[j].id # e.id
            BY <2>2, <2>5
        <3>5. e \in Firsts(incoming)
            BY <2>1, <3>4 DEF Firsts
        <3> HIDE DEF e
        <3>6. ToSet(f[n + 1]) \subseteq Firsts(incoming)
            BY <2>2, <3>2, <3>5
        <3>7. \A j \in 1..(n + 1) : incoming[j].id \in Ids(have) \cup Ids(f[n + 1])
            BY <2>1, <2>2, <3>3 DEF e
        <3> QED
            BY <3>6, <3>7
    <2> QED
        BY <2>4, <2>5
<1> HIDE DEF P
<1>4. P \in SUBSET Nat
    BY DEF P
<1>5. P = Nat
    BY <1>2, <1>3, <1>4, Induction
<1>6. Right(Len(incoming)) /\ Len(incoming) \in 0..Len(incoming)
    BY <1>5 DEF P
<1> QED
    BY <1>1, <1>6

----------------------------------------------------------------------------
(* Compaction.                                                             *)

\* The recursion of Without.
WithoutOf(b, T, f) ==
    /\ f[0] = <<>>
    /\ \A n \in 1..Len(b) : f[n] = IF b[n].task \in T THEN f[n - 1] ELSE Append(f[n - 1], b[n])

LEMMA WithoutOfExists ==
    ASSUME NEW U, NEW b \in Seq(U), NEW T
    PROVE  \E f \in [0..Len(b) -> Seq(U)] : WithoutOf(b, T, f) /\ Without(b, T) = f[Len(b)]
<1> DEFINE V == Seq(U)
           G == [n \in Nat |-> [kept \in V |->
                    IF n \in 1..Len(b) /\ b[n].task \notin T THEN Append(kept, b[n]) ELSE kept]]
           rest(f) == [n \in 0..Len(b) |->
                        IF n = 0 THEN <<>>
                        ELSE IF b[n].task \in T THEN f[n - 1] ELSE Append(f[n - 1], b[n])]
           kept == CHOOSE f : f = rest(f)
<1>1. Without(b, T) = kept[Len(b)]
    BY DEF Without
<1>2. G \in [Nat -> [V -> V]]
    OBVIOUS
<1>3. Len(b) \in Nat /\ <<>> \in V
    OBVIOUS
<1>4. PICK f \in [0..Len(b) -> V] : Unfolds(f, <<>>, G, Len(b))
    <2> HIDE DEF G, V
    <2> QED
        BY <1>2, <1>3, Recursion
<1> HIDE DEF G
<1>5. ASSUME NEW n \in 1..Len(b)
      PROVE  f[n] = IF b[n].task \in T THEN f[n - 1] ELSE Append(f[n - 1], b[n])
    <2>1. n \in Nat /\ f[n - 1] \in V
        BY <1>3
    <2> QED
        BY <1>4, <2>1 DEF G, Unfolds
<1>6. WithoutOf(b, T, f) /\ f = rest(f)
    <2>1. f[0] = <<>>
        BY <1>4 DEF Unfolds
    <2>2. WithoutOf(b, T, f)
        BY <1>5, <2>1 DEF WithoutOf
    <2>3. rest(f)[0] = f[0] /\ \A n \in 0..Len(b) : n = 0 \/ n \in 1..Len(b)
        BY <1>3, <2>1
    <2>4. \A n \in 1..Len(b) : rest(f)[n] = f[n]
        BY <1>3, <1>5
    <2>5. DOMAIN rest(f) = 0..Len(b) /\ rest(f) = [n \in 0..Len(b) |-> rest(f)[n]]
        OBVIOUS
    <2>6. f = [n \in 0..Len(b) |-> rest(f)[n]]
        <3> HIDE DEF rest
        <3> QED
            BY <2>3, <2>4
    <2>7. f = rest(f)
        BY <2>5, <2>6, Zenon
    <2> QED
        BY <2>2, <2>7
<1>7. kept = rest(kept)
    <2> HIDE DEF rest
    <2> QED
        BY <1>6, Zenon
<1>8. kept[Len(b)] = f[Len(b)]
    <2> HIDE DEF kept
    <2>1. kept[0] = f[0]
        BY <1>3, <1>6, <1>7 DEF WithoutOf
    <2>2. \A n \in 1..Len(b) : n - 1 \in 0..Len(b) /\ n \in 0..Len(b) /\ n # 0
        BY <1>3
    <2>3. \A n \in 1..Len(b) : kept[n - 1] = f[n - 1] => kept[n] = f[n]
        BY <1>5, <1>7, <2>2
    <2>4. InStep(kept, f, Len(b))
        BY <2>1, <2>3 DEF InStep
    <2> QED
        BY <1>3, <2>4, SameOutcome
<1> QED
    BY <1>1, <1>6, <1>8

\* Of the lines, those that are not about the tasks T stay.
LEMMA WithoutSet ==
    ASSUME NEW U, NEW b \in Seq(U), NEW T
    PROVE  /\ Without(b, T) \in Seq(U)
           /\ ToSet(Without(b, T)) = {e \in ToSet(b) : e.task \notin T}
<1>1. PICK f \in [0..Len(b) -> Seq(U)] : WithoutOf(b, T, f) /\ Without(b, T) = f[Len(b)]
    BY WithoutOfExists
<1> DEFINE Right(n) == \A e : e \in ToSet(f[n]) <=> \E j \in 1..n : e = b[j] /\ b[j].task \notin T
           P == {n \in Nat : n <= Len(b) => Right(n)}
<1>2. 0 \in P
    <2>1. ToSet(f[0]) = {}
        BY <1>1 DEF WithoutOf, ToSet
    <2> QED
        BY <2>1
<1>3. ASSUME NEW n \in P PROVE n + 1 \in P
    <2> SUFFICES ASSUME n + 1 <= Len(b) PROVE Right(n + 1)
        OBVIOUS
    <2> DEFINE e == b[n + 1]
    <2>1. /\ n \in Nat /\ n + 1 \in 1..Len(b) /\ (n + 1) - 1 = n
          /\ n \in 0..Len(b) /\ n + 1 \in 1..(n + 1) /\ 1..n \subseteq 1..(n + 1)
          /\ \A j \in 1..(n + 1) : j = n + 1 \/ j \in 1..n
        OBVIOUS
    <2>2. Right(n) /\ f[n] \in Seq(U) /\ e \in U
        BY <1>1, <2>1
    <2>3. f[n + 1] = IF e.task \in T THEN f[n] ELSE Append(f[n], e)
        BY <1>1, <2>1 DEF WithoutOf
    <2>4. ToSet(f[n + 1]) = ToSet(f[n]) \cup (IF e.task \in T THEN {} ELSE {e})
        BY <2>2, <2>3, AppendSet
    <2> QED
        BY <2>1, <2>2, <2>4
<1> HIDE DEF P
<1>4. P \in SUBSET Nat
    BY DEF P
<1>5. P = Nat
    BY <1>2, <1>3, <1>4, Induction
<1>6. Len(b) \in Nat /\ Len(b) \in 0..Len(b) /\ DOMAIN b = 1..Len(b)
    OBVIOUS
<1> HIDE DEF Right
<1>7. Right(Len(b))
    BY <1>5, <1>6 DEF P
<1>8. Without(b, T) \in Seq(U)
    BY <1>1, <1>6
<1>9. \A e : e \in ToSet(Without(b, T)) <=> \E j \in DOMAIN b : e = b[j] /\ b[j].task \notin T
    BY <1>1, <1>6, <1>7 DEF Right
<1>10. \A e : e \in ToSet(b) <=> \E j \in DOMAIN b : e = b[j]
    BY DEF ToSet
<1> QED
    BY <1>8, <1>9, <1>10

----------------------------------------------------------------------------
(* Types, and what a step of a round does.                                 *)

Phase == {"idle", "pulled", "merging", "merged", "sent", "storing"}
RoundState(S) == [phase : Phase, peer : Host \cup {Nobody}, incoming : Seq(S), have : Seq(S)]
CutState(S) == [on : BOOLEAN, keep : Seq(S)]

\* A round that is under way has a peer, one that may be talked to.
TypeInv ==
    /\ posts \subseteq Entry /\ board \in [Host -> Seq(posts)]
    /\ round \in [Host -> RoundState(posts)]
    /\ \A h \in Host : round[h].phase # "idle" => <<h, round[h].peer>> \in Peer
    /\ cut \in [Host -> CutState(posts)] /\ prunes \in Nat

LEMMA SeqGrows ==
    ASSUME NEW S, NEW T, S \subseteq T
    PROVE  Seq(S) \subseteq Seq(T)
OBVIOUS

LEMMA StatesGrow ==
    ASSUME NEW S, NEW T, S \subseteq T
    PROVE  RoundState(S) \subseteq RoundState(T) /\ CutState(S) \subseteq CutState(T)
<1>1. Seq(S) \subseteq Seq(T)
    BY SeqGrows
<1> QED
    BY <1>1 DEF RoundState, CutState

LEMMA InitTypes == Init => TypeInv
<1> SUFFICES ASSUME Init PROVE TypeInv
    OBVIOUS
<1>1. \A S : <<>> \in Seq(S)
    OBVIOUS
<1>2. NoRound \in RoundState({}) /\ NoCut \in CutState({})
    BY <1>1 DEF NoRound, NoCut, RoundState, CutState, Phase
<1>3. NoRound.phase = "idle"
    BY DEF NoRound
<1>4. posts = {} /\ board = [h \in Host |-> <<>>] /\ round = [h \in Host |-> NoRound]
      /\ cut = [h \in Host |-> NoCut] /\ prunes = 0
    BY DEF Init
<1> QED
    BY <1>1, <1>2, <1>3, <1>4 DEF TypeInv

\* A step of the round of p.
Turn(p) ==
    \/ \E q \in Host : Pull(p, q)
    \/ ReadOwn(p) \/ AppendOwn(p) \/ Send(p) \/ Refuse(p) \/ Receive(p) \/ Store(p) \/ GiveUp(p)

\* It leaves the round as x: what has come in is a board, or was in before.
Left(p, x) ==
    /\ round' = [round EXCEPT ![p] = x] /\ x \in RoundState(posts)
    /\ x.phase # "idle" => <<p, x.peer>> \in Peer
    /\ x.incoming \in {<<>>, round[p].incoming} \cup {board[h] : h \in Host}

LEMMA RoundType ==
    ASSUME TypeInv, NEW p \in Host
    PROVE  /\ round[p] \in RoundState(posts)
           /\ round[p].phase \in Phase /\ round[p].incoming \in Seq(posts) /\ round[p].have \in Seq(posts)
           /\ \A h \in Host : board[h] \in Seq(posts)
           /\ <<>> \in Seq(posts)
           /\ round[p].phase # "idle" => round[p].peer \in Host /\ <<p, round[p].peer>> \in Peer
BY PeerAssumption DEF TypeInv, RoundState

LEMMA TurnMoves ==
    ASSUME TypeInv, NEW p \in Host, Turn(p)
    PROVE  /\ \E x : Left(p, x)
           /\ posts' = posts /\ UNCHANGED pruning
           /\ \/ UNCHANGED <<board, raced>>
              \/ \E h \in Host : AppendTo(h, New(p))
<1> DEFINE r == round[p]
<1>1. /\ r \in RoundState(posts) /\ r.peer \in Host \cup {Nobody}
      /\ r.phase \in Phase /\ r.incoming \in Seq(posts) /\ r.have \in Seq(posts)
      /\ \A h \in Host : board[h] \in Seq(posts)
      /\ <<>> \in Seq(posts)
      /\ r.phase # "idle" => r.peer \in Host /\ <<p, r.peer>> \in Peer
    BY RoundType DEF RoundState
<1>2. ASSUME NEW q \in Host, Pull(p, q)
      PROVE  Left(p, [phase |-> "pulled", peer |-> q, incoming |-> board[q], have |-> <<>>])
    BY <1>1, <1>2 DEF Pull, Left, RoundState, Phase
<1>3. ASSUME NEW x \in RoundState(posts), x.peer = r.peer, r.phase # "idle",
             x.incoming \in {<<>>, r.incoming} \cup {board[h] : h \in Host},
             round' = [round EXCEPT ![p] = x]
      PROVE  Left(p, x)
    BY <1>1, <1>3 DEF Left
<1>4. ASSUME round' = [round EXCEPT ![p] = NoRound] PROVE Left(p, NoRound)
    BY <1>1, <1>4 DEF Left, NoRound, RoundState, Phase
<1>5. CASE \E q \in Host : Pull(p, q)
    BY <1>2, <1>5 DEF Pull
<1>6. CASE ReadOwn(p)
    <2>1. PICK x : x = [r EXCEPT !.phase = "merging", !.have = board[p]]
        OBVIOUS
    <2>2. r.phase # "idle" /\ round' = [round EXCEPT ![p] = x]
        BY <1>6, <2>1 DEF ReadOwn
    <2>3. x \in RoundState(posts) /\ x.peer = r.peer /\ x.incoming = r.incoming
        BY <1>1, <2>1, <2>2 DEF RoundState, Phase
    <2>4. Left(p, x)
        BY <1>3, <2>2, <2>3
    <2> QED
        BY <1>6, <2>4 DEF ReadOwn
<1>7. CASE AppendOwn(p)
    <2>1. PICK x : x = [r EXCEPT !.phase = "merged", !.incoming = <<>>, !.have = <<>>]
        OBVIOUS
    <2>2. r.phase # "idle" /\ round' = [round EXCEPT ![p] = x]
        BY <1>7, <2>1 DEF AppendOwn
    <2>3. x \in RoundState(posts) /\ x.peer = r.peer /\ x.incoming = <<>>
        BY <1>1, <2>1, <2>2 DEF RoundState, Phase
    <2>4. Left(p, x)
        BY <1>3, <2>2, <2>3
    <2> QED
        BY <1>7, <2>4 DEF AppendOwn, AppendTo
<1>8. CASE Send(p)
    <2>1. PICK x : x = [r EXCEPT !.phase = "sent", !.incoming = board[p]]
        OBVIOUS
    <2>2. r.phase # "idle" /\ round' = [round EXCEPT ![p] = x]
        BY <1>8, <2>1 DEF Send
    <2>3. x \in RoundState(posts) /\ x.peer = r.peer /\ x.incoming = board[p]
        BY <1>1, <2>1, <2>2 DEF RoundState, Phase
    <2>4. Left(p, x)
        BY <1>3, <2>2, <2>3
    <2> QED
        BY <1>8, <2>4 DEF Send
<1>9. CASE Refuse(p) \/ GiveUp(p)
    BY <1>4, <1>9 DEF Refuse, GiveUp
<1>10. CASE Receive(p)
    <2>1. PICK x : x = [r EXCEPT !.phase = "storing", !.have = board[r.peer]]
        OBVIOUS
    <2>2. r.phase # "idle" /\ round' = [round EXCEPT ![p] = x]
        BY <1>10, <2>1 DEF Receive
    <2>3. x \in RoundState(posts) /\ x.peer = r.peer /\ x.incoming = r.incoming
        BY <1>1, <2>1, <2>2 DEF RoundState, Phase
    <2>4. Left(p, x)
        BY <1>3, <2>2, <2>3
    <2> QED
        BY <1>10, <2>4 DEF Receive
<1>11. CASE Store(p)
    <2>1. r.peer \in Host
        BY <1>1, <1>11 DEF Store
    <2> QED
        BY <1>4, <1>11, <2>1 DEF Store, AppendTo
<1> QED
    BY <1>5, <1>6, <1>7, <1>8, <1>9, <1>10, <1>11 DEF Turn

\* What a compaction keeps is from the board.
LEMMA KeepType ==
    ASSUME TypeInv, NEW h \in Host, NEW cutoff
    PROVE  Keep(board[h], cutoff) \in Seq(posts)
<1>1. board[h] \in Seq(posts)
    BY DEF TypeInv
<1> QED
    BY <1>1, WithoutSet DEF Keep

\* What is appended was posted, or came in.
LEMMA NewType ==
    ASSUME TypeInv, NEW p \in Host
    PROVE  /\ New(p) \in Seq(posts)
           /\ ToSet(New(p)) \subseteq Firsts(round[p].incoming)
BY RoundType, MergeFirsts DEF New

LEMMA AppendType ==
    ASSUME TypeInv, NEW h \in Host, NEW S, posts \subseteq S, NEW new \in Seq(S), AppendTo(h, new)
    PROVE  /\ board' \in [Host -> Seq(S)]
           /\ \A g \in Host : board'[g] = IF g = h THEN board[g] \o new ELSE board[g]
<1>1. board \in [Host -> Seq(S)]
    BY SeqGrows DEF TypeInv
<1>2. board' = [board EXCEPT ![h] = board[h] \o new]
    BY DEF AppendTo
<1>3. board[h] \o new \in Seq(S)
    BY <1>1
<1> QED
    BY <1>1, <1>2, <1>3

LEMMA NextTypes == TypeInv /\ [Next]_vars => TypeInv'
<1> SUFFICES ASSUME TypeInv, [Next]_vars PROVE TypeInv'
    OBVIOUS
<1>1. CASE PostAny
    <2>1. PICK e \in Entry : Post(e)
        BY <1>1 DEF PostAny
    <2>2. /\ posts' = posts \cup {e} /\ AppendTo(e.origin, <<e>>)
          /\ UNCHANGED <<round, cut, prunes>> /\ e.origin \in Host
        BY <2>1 DEF Post, AppendTo, pruning, Entry
    <2>3. posts \subseteq posts' /\ posts' \subseteq Entry /\ <<e>> \in Seq(posts')
        BY <2>2 DEF TypeInv
    <2>4. board' \in [Host -> Seq(posts')]
        BY <2>2, <2>3, AppendType
    <2>5. RoundState(posts) \subseteq RoundState(posts') /\ CutState(posts) \subseteq CutState(posts')
        BY <2>3, StatesGrow
    <2> QED
        BY <2>2, <2>3, <2>4, <2>5 DEF TypeInv
<1>2. ASSUME NEW p \in Host, Turn(p) PROVE TypeInv'
    <2>1. PICK x : Left(p, x)
        BY <1>2, TurnMoves
    <2>2. posts' = posts /\ UNCHANGED <<cut, prunes>>
        BY <1>2, TurnMoves DEF pruning
    <2>3. board' \in [Host -> Seq(posts)]
        <3>1. CASE UNCHANGED board
            BY <3>1 DEF TypeInv
        <3>2. CASE \E h \in Host : AppendTo(h, New(p))
            BY <3>2, AppendType, NewType
        <3> QED
            BY <1>2, <3>1, <3>2, TurnMoves
    <2>4. /\ round' \in [Host -> RoundState(posts)]
          /\ \A h \in Host : round'[h].phase # "idle" => <<h, round'[h].peer>> \in Peer
        BY <2>1 DEF Left, TypeInv
    <2> QED
        BY <2>2, <2>3, <2>4 DEF TypeInv
<1>3. ASSUME NEW h \in Host, ReadToPrune(h) PROVE TypeInv'
    <2>1. PICK cutoff \in 1..MaxTs : cut' = [cut EXCEPT ![h] = [on |-> TRUE, keep |-> Keep(board[h], cutoff)]]
        BY <1>3 DEF ReadToPrune
    <2>2. [on |-> TRUE, keep |-> Keep(board[h], cutoff)] \in CutState(posts)
        BY KeepType DEF CutState
    <2>3. cut' \in [Host -> CutState(posts)]
        BY <2>1, <2>2 DEF TypeInv
    <2> QED
        BY <1>3, <2>3 DEF ReadToPrune, TypeInv
<1>4. ASSUME NEW h \in Host, Replace(h) \/ Abandon(h) PROVE TypeInv'
    <2>1. NoCut \in CutState(posts)
        BY DEF NoCut, CutState
    <2>2. cut[h].keep \in Seq(posts)
        BY DEF TypeInv, CutState
    <2>3. cut' \in [Host -> CutState(posts)]
        BY <1>4, <2>1 DEF Replace, Abandon, TypeInv
    <2>4. board' \in [Host -> Seq(posts)]
        BY <1>4, <2>2 DEF Replace, Abandon, TypeInv
    <2> QED
        BY <1>4, <2>3, <2>4 DEF Replace, Abandon, TypeInv
<1>5. CASE UNCHANGED vars
    BY <1>5 DEF vars, pruning, TypeInv
<1> QED
    BY <1>1, <1>2, <1>3, <1>4, <1>5 DEF Next, Turn

LEMMA TypesHold == TypeInv => TypeOK
<1> SUFFICES ASSUME TypeInv, NEW h \in Host
             PROVE  /\ ToSet(board[h]) \subseteq posts
                    /\ round[h].phase \in {"idle", "pulled", "merging", "merged", "sent", "storing"}
                    /\ ToSet(round[h].incoming) \cup ToSet(round[h].have) \cup ToSet(cut[h].keep) \subseteq posts
    BY DEF TypeInv, TypeOK
<1>1. \A s \in Seq(posts) : ToSet(s) \subseteq posts
    BY DEF ToSet
<1>2. cut[h].keep \in Seq(posts)
    BY DEF TypeInv, CutState
<1> QED
    BY <1>1, <1>2, RoundType DEF Phase

\* Boards, rounds and compactions hold entries that were posted, and nobody
\* talks to a host it has no endpoint for (exchange, merge and rewrite).
THEOREM TypeCorrect == Spec => []TypeOK
<1>1. Spec => []TypeInv
    BY InitTypes, NextTypes, PTL DEF Spec
<1> QED
    BY <1>1, TypesHold, PTL

----------------------------------------------------------------------------
(* Agreement.                                                              *)

\* mint_id, and the announcements of hosts that do not race.
Minted == ContentById(posts) /\ (~SameSecond => AnnouncedOnce(posts))

\* Until something is compacted, the line that comes first with its id in s
\* is the one that does on the board of its origin.
LeadHome(s, boards) == \A e \in Firsts(s) : e \in Firsts(boards[e.origin])
Lead ==
    prunes = 0 =>
        \A h \in Host : /\ ~cut[h].on
                        /\ LeadHome(board[h], board) /\ LeadHome(round[h].incoming, board)

LEMMA InitLead == Init => Minted /\ Lead
<1> SUFFICES ASSUME Init PROVE Minted /\ Lead
    OBVIOUS
<1>1. posts = {} /\ \A h \in Host : board[h] = <<>> /\ round[h] = NoRound /\ cut[h] = NoCut
    BY DEF Init
<1>2. Firsts(<<>>) = {}
    BY DEF Firsts
<1>3. NoRound.incoming = <<>> /\ NoCut.on = FALSE
    BY DEF NoRound, NoCut
<1> QED
    BY <1>1, <1>2, <1>3 DEF Minted, ContentById, AnnouncedOnce, Lead, LeadHome

LEMMA NextMinted == TypeInv /\ Minted /\ [Next]_vars => Minted'
<1> SUFFICES ASSUME TypeInv, Minted, [Next]_vars PROVE Minted'
    OBVIOUS
<1>1. CASE PostAny
    <2>1. PICK e \in Entry : Post(e)
        BY <1>1 DEF PostAny
    <2>2. /\ posts' = posts \cup {e} /\ MayHaveId(e)
          /\ ~SameSecond /\ e.kind = "announce" =>
                \A d \in posts : ~(d.kind = "announce" /\ d.task = e.task /\ d.ts = e.ts)
        BY <2>1 DEF Post
    <2>3. \A d \in posts : d.id = e.id => SameContent(d, e)
        <3>1. CASE e.id \in {d.id : d \in {c \in posts : SameContent(c, e)}}
            <4>1. PICK c \in posts : SameContent(c, e) /\ c.id = e.id
                BY <3>1
            <4> QED
                BY <4>1 DEF Minted, ContentById, SameContent
        <3>2. CASE e.id \notin {d.id : d \in posts}
            BY <3>2
        <3> QED
            BY <2>2, <3>1, <3>2 DEF MayHaveId
    <2>4. ContentById(posts')
        BY <2>2, <2>3 DEF Minted, ContentById, SameContent
    <2>5. ~SameSecond => AnnouncedOnce(posts')
        BY <2>2 DEF Minted, AnnouncedOnce
    <2> QED
        BY <2>4, <2>5 DEF Minted
<1>2. CASE ~PostAny
    <2>1. posts' = posts
        <3>1. ASSUME NEW p \in Host, Turn(p) PROVE posts' = posts
            BY <3>1, TurnMoves
        <3> QED
            BY <1>2, <3>1 DEF Next, Turn, ReadToPrune, Replace, Abandon, vars
    <2> QED
        BY <2>1 DEF Minted
<1> QED
    BY <1>1, <1>2

\* What leads at home still does when boards have grown.
LEMMA LeadGrows ==
    ASSUME TypeInv, NEW boards, \A h \in Host : Firsts(board[h]) \subseteq Firsts(boards[h]),
           NEW s \in Seq(posts), LeadHome(s, board)
    PROVE  LeadHome(s, boards)
<1>1. \A e \in Firsts(s) : e.origin \in Host
    BY FirstsOnBoard DEF TypeInv, Entry
<1> QED
    BY <1>1 DEF LeadHome

\* An append of lines that lead at home.
LEMMA AppendLeads ==
    ASSUME TypeInv, NEW h \in Host, NEW S, posts \subseteq S, S \subseteq Entry, NEW new \in Seq(S),
           AppendTo(h, new),
           \A g \in Host : LeadHome(board[g], board),
           \A e \in Firsts(new) : e \in Firsts(board[e.origin]) \/ e.origin = h
    PROVE  /\ \A g \in Host : Firsts(board[g]) \subseteq Firsts(board'[g])
           /\ \A g \in Host : LeadHome(board'[g], board')
<1>1. \A g \in Host : board'[g] = IF g = h THEN board[g] \o new ELSE board[g]
    BY AppendType
<1>2. \A g \in Host : board[g] \in Seq(S) /\ board[g] \in Seq(posts)
    BY SeqGrows DEF TypeInv
<1>3. /\ Firsts(board[h]) \subseteq Firsts(board[h] \o new)
      /\ Firsts(board[h] \o new) \subseteq Firsts(board[h]) \cup Firsts(new)
    BY <1>2, FirstsAppend
<1>4. \A g \in Host : Firsts(board[g]) \subseteq Firsts(board'[g])
    BY <1>1, <1>3
<1>5. \A g \in Host : LeadHome(board[g], board')
    BY <1>2, <1>4, LeadGrows
<1>6. LeadHome(board'[h], board')
    <2> SUFFICES ASSUME NEW e \in Firsts(board'[h]) PROVE e \in Firsts(board'[e.origin])
        BY DEF LeadHome
    <2>1. e \in Firsts(board[h]) \/ e \in Firsts(new)
        BY <1>1, <1>3
    <2>2. CASE e \in Firsts(board[h])
        BY <1>5, <2>2 DEF LeadHome
    <2>3. CASE e \in Firsts(new)
        <3>1. e.origin \in Host
            BY <2>3, FirstsOnBoard DEF Entry
        <3> QED
            BY <1>4, <2>3, <3>1
    <2> QED
        BY <2>1, <2>2, <2>3
<1> QED
    BY <1>1, <1>4, <1>5, <1>6

\* No step but the rename of a compaction makes a line that leads stop.
LEMMA NextLead == TypeInv /\ Lead /\ [Next]_vars => Lead'
<1> SUFFICES ASSUME TypeInv, Lead, [Next]_vars, prunes' = 0
             PROVE  \A h \in Host : /\ ~cut'[h].on
                                    /\ LeadHome(board'[h], board')
                                    /\ LeadHome(round'[h].incoming, board')
    BY DEF Lead
<1> DEFINE Leads(s) == LeadHome(s, board)
<1>1. \A h \in Host : board[h] \in Seq(posts) /\ round[h].incoming \in Seq(posts)
    BY RoundType
<1>2. ASSUME prunes = 0
      PROVE  \A h \in Host : ~cut[h].on /\ Leads(board[h]) /\ Leads(round[h].incoming)
    BY <1>2 DEF Lead
<1>3. CASE PostAny
    <2>1. PICK e \in Entry : Post(e)
        BY <1>3 DEF PostAny
    <2> DEFINE S == posts \cup {e}
    <2>2. /\ AppendTo(e.origin, <<e>>) /\ e.origin \in Host
          /\ UNCHANGED <<round, cut, prunes>>
        BY <2>1 DEF Post, AppendTo, pruning, Entry
    <2>3. posts \subseteq S /\ S \subseteq Entry /\ <<e>> \in Seq(S)
        BY <2>2 DEF TypeInv
    <2>4. \A d \in Firsts(<<e>>) : d.origin = e.origin
        BY DEF Firsts
    <2>5. \A h \in Host : ~cut[h].on /\ Leads(board[h]) /\ Leads(round[h].incoming)
        BY <1>2, <2>2
    <2> HIDE DEF S
    <2>6. /\ \A h \in Host : Firsts(board[h]) \subseteq Firsts(board'[h])
          /\ \A h \in Host : LeadHome(board'[h], board')
        BY <2>2, <2>3, <2>4, <2>5, AppendLeads
    <2>7. \A h \in Host : LeadHome(round[h].incoming, board')
        BY <1>1, <2>5, <2>6, LeadGrows
    <2> QED
        BY <2>2, <2>5, <2>6, <2>7
<1>4. ASSUME NEW p \in Host, Turn(p)
      PROVE  \A h \in Host : /\ ~cut'[h].on
                             /\ LeadHome(board'[h], board')
                             /\ LeadHome(round'[h].incoming, board')
    <2>1. PICK x : Left(p, x)
        BY <1>4, TurnMoves
    <2>2. UNCHANGED <<cut, prunes>>
        BY <1>4, TurnMoves DEF pruning
    <2>3. \A h \in Host : ~cut[h].on /\ Leads(board[h]) /\ Leads(round[h].incoming)
        BY <1>2, <2>2
    <2>4. /\ \A h \in Host : Firsts(board[h]) \subseteq Firsts(board'[h])
          /\ \A h \in Host : LeadHome(board'[h], board')
        <3>1. CASE UNCHANGED board
            BY <2>3, <3>1
        <3>2. ASSUME NEW h \in Host, AppendTo(h, New(p))
              PROVE  /\ \A g \in Host : Firsts(board[g]) \subseteq Firsts(board'[g])
                     /\ \A g \in Host : LeadHome(board'[g], board')
            <4>1. New(p) \in Seq(posts) /\ ToSet(New(p)) \subseteq Firsts(round[p].incoming)
                BY NewType
            <4>2. \A e \in Firsts(New(p)) : e \in Firsts(board[e.origin])
                BY <2>3, <4>1, FirstsOnBoard DEF LeadHome
            <4>3. posts \subseteq Entry
                BY DEF TypeInv
            <4> QED
                BY <2>3, <3>2, <4>1, <4>2, <4>3, AppendLeads
        <3> QED
            BY <1>4, <3>1, <3>2, TurnMoves
    <2>5. \A h \in Host : LeadHome(round[h].incoming, board') /\ LeadHome(board[h], board')
        BY <1>1, <2>3, <2>4, LeadGrows
    <2>6. LeadHome(<<>>, board')
        BY DEF LeadHome, Firsts
    <2>7. ASSUME NEW h \in Host PROVE LeadHome(round'[h].incoming, board')
        <3>1. CASE h = p
            <4>1. round'[h] = x
                BY <2>1, <3>1 DEF Left, TypeInv
            <4>2. x.incoming = <<>> \/ x.incoming = round[p].incoming \/ \E g \in Host : x.incoming = board[g]
                BY <2>1 DEF Left
            <4> QED
                BY <2>5, <2>6, <4>1, <4>2
        <3>2. CASE h # p
            <4>1. round'[h] = round[h]
                BY <2>1, <3>2 DEF Left, TypeInv
            <4> QED
                BY <2>5, <4>1
        <3> QED
            BY <3>1, <3>2
    <2> QED
        BY <2>2, <2>3, <2>4, <2>7
<1>5. ASSUME NEW h \in Host PROVE ~ReadToPrune(h)
    BY DEF ReadToPrune, TypeInv
<1>6. ASSUME NEW h \in Host PROVE ~(Replace(h) \/ Abandon(h))
    BY <1>2 DEF Replace, Abandon
<1>7. CASE UNCHANGED vars
    BY <1>2, <1>7 DEF vars, pruning
<1> QED
    BY <1>3, <1>4, <1>5, <1>6, <1>7 DEF Next, Turn

LEMMA PostsStamped == TypeInv => Stamped(posts)
<1> SUFFICES ASSUME TypeInv PROVE Stamped(posts)
    OBVIOUS
<1>1. posts \subseteq Entry
    BY DEF TypeInv
<1>2. \A e \in Entry : e.ts \in Nat /\ e.id \in Nat
    BY NumberAssumption DEF Entry
<1> QED
    BY <1>1, <1>2, NobodyAssumption DEF Stamped

\* Two hosts that know the same ids have the same lines come first.
LEMMA BoardsMeet ==
    ASSUME TypeInv, Minted, Lead, prunes = 0 \/ IdsDetermine(posts), NEW h \in Host, NEW g \in Host
    PROVE  Meet(board[h], board[g])
<1>1. \A k \in Host : board[k] \in Seq(posts)
    BY DEF TypeInv
<1>2. \A k \in Host : Firsts(board[k]) \subseteq posts
    BY <1>1, FirstsOnBoard
<1> SUFFICES ASSUME NEW d \in Firsts(board[h]), NEW e \in Firsts(board[g]), d.id = e.id
             PROVE  d = e
    BY DEF Meet
<1>3. d \in posts /\ e \in posts
    BY <1>2
<1>4. CASE IdsDetermine(posts)
    BY <1>3, <1>4 DEF IdsDetermine
<1>5. CASE prunes = 0
    <2>1. d.origin = e.origin /\ d.origin \in Host
        BY <1>3 DEF Minted, ContentById, SameContent, TypeInv, Entry
    <2>2. d \in Firsts(board[d.origin]) /\ e \in Firsts(board[d.origin])
        BY <1>5, <2>1 DEF Lead, LeadHome
    <2> QED
        BY <1>1, <2>1, <2>2, FirstUnique
<1> QED
    BY <1>4, <1>5

\* fold_tasks is "a pure function of the entry set": two hosts that know the
\* same ids see every task alike, whatever order the lines came in.
THEOREM HostsAgree == ASSUME SameSecond = FALSE PROVE Spec => []BoardsAgree
<1> DEFINE I == TypeInv /\ Minted /\ Lead
<1>1. Init => I
    BY InitTypes, InitLead
<1>2. I /\ [Next]_vars => I'
    BY NextTypes, NextMinted, NextLead
<1>3. I => BoardsAgree
    <2> SUFFICES ASSUME TypeInv, Minted, Lead, prunes = 0 \/ IdsDetermine(posts),
                        NEW h \in Host, NEW g \in Host, NEW t \in Task, Ids(board[h]) = Ids(board[g])
                 PROVE  FoldTask(board[h], t) = FoldTask(board[g], t)
        BY DEF BoardsAgree
    <2>1. Meet(board[h], board[g])
        BY BoardsMeet
    <2>2. board[h] \in Seq(posts) /\ board[g] \in Seq(posts)
        BY DEF TypeInv
    <2>3. ContentById(posts) /\ AnnouncedOnce(posts) /\ Stamped(posts)
        BY PostsStamped DEF Minted
    <2> QED
        BY <2>1, <2>2, <2>3, FoldsMeet
<1> QED
    BY <1>1, <1>2, <1>3, PTL DEF Spec

\* Where ids tell the entries of a board apart, its fold is the view of its
\* set, which the models of the fleet and of the brain start from.
THEOREM FoldIsTheView == ASSUME SameSecond = FALSE PROVE Spec => []FoldIsViewOfSet
<1> DEFINE I == TypeInv /\ Minted
<1>1. Init => I
    BY InitTypes, InitLead
<1>2. I /\ [Next]_vars => I'
    BY NextTypes, NextMinted
<1>3. I => FoldIsViewOfSet
    <2> SUFFICES ASSUME TypeInv, Minted, NEW h \in Host, NEW t \in Task, IdsDetermine(ToSet(board[h]))
                 PROVE  FoldTask(board[h], t) = ViewOf(ToSet(board[h]), t)
        BY DEF FoldIsViewOfSet
    <2>1. board[h] \in Seq(posts) /\ Stamped(posts) /\ AnnouncedOnce(posts)
        BY PostsStamped DEF TypeInv, Minted
    <2>2. ToSet(board[h]) \subseteq posts
        BY <2>1, FirstsOnBoard
    <2>3. StampsDetermine(Saying(ToSet(board[h]), t, "announce"))
        BY <2>1, <2>2 DEF StampsDetermine, Saying, AnnouncedOnce
    <2> QED
        BY <2>1, <2>3, FoldIsView
<1> QED
    BY <1>1, <1>2, <1>3, PTL DEF Spec

----------------------------------------------------------------------------
(* What compaction loses.                                                  *)

\* A task counts as finished only on a board that has a result of it.
LEMMA FinishedHasResult ==
    ASSUME NEW U, Stamped(U), NEW b \in Seq(U), NEW t, State(FoldTask(b, t)) \in {"done", "failed"}
    PROVE  \E d \in ToSet(b) : d.kind = "done" /\ d.task = t
<1> DEFINE S == Saying(ToSet(b), t, "done")
           done == Scan(Newer, b, S)
<1>1. FoldTask(b, t).done = IF done = Nobody THEN "no" ELSE IF done.ok THEN "ok" ELSE "failed"
    BY DEF FoldTask, TaskView
<1>2. S \in SUBSET ToSet(b)
    BY DEF Saying
<1>3. done = Nobody <=> S = {}
    <2>1. Nobody \notin U
        BY DEF Stamped
    <2> HIDE DEF S
    <2>2. Leading(b, S, NewerOn(U), Len(b), done)
        BY ScanNewer
    <2> HIDE DEF done
    <2>3. \A R : Leading(b, S, R, Len(b), done) => (done = Nobody <=> S = {})
        BY <1>2, <2>1, LeadingWins
    <2> QED
        BY <2>2, <2>3
<1> HIDE DEF done, S
<1>4. FoldTask(b, t).done # "no"
    BY DEF State
<1>5. S # {}
    BY <1>1, <1>3, <1>4
<1> QED
    BY <1>5 DEF S, Saying

\* What a live task has on a board, a compaction of it keeps.
LEMMA KeepsLive ==
    ASSUME TypeInv, NEW h \in Host, NEW cutoff, NEW e \in ToSet(board[h]), Live(e)
    PROVE  e \in ToSet(Keep(board[h], cutoff))
<1>1. board[h] \in Seq(posts) /\ Stamped(posts)
    BY PostsStamped DEF TypeInv
<1>2. ToSet(board[h]) \subseteq posts
    BY <1>1, FirstsOnBoard
<1>3. e.task \notin Compactable(board[h], cutoff)
    <2> SUFFICES ASSUME e.task \in Compactable(board[h], cutoff) PROVE FALSE
        OBVIOUS
    <2>1. State(FoldTask(board[h], e.task)) \in {"done", "failed"}
        BY DEF Compactable
    <2> QED
        BY <1>1, <1>2, <2>1, FinishedHasResult DEF Live
<1> QED
    BY <1>1, <1>3, WithoutSet DEF Keep

\* An entry of a live task is on the board of its origin, and will be after
\* the compaction that has read it there.
Owed(e) == e \in posts /\ Live(e) /\ e \notin raced
Kept ==
    \A e : Owed(e) =>
        /\ e \in ToSet(board[e.origin])
        /\ \A h \in Host : cut[h].on /\ e \in ToSet(board[h]) => e \in ToSet(cut[h].keep)

\* Appends owe nothing new, but for what is posted.
LEMMA AppendKeeps ==
    ASSUME TypeInv, Kept, NEW h \in Host, NEW S, posts \subseteq S, S \subseteq Entry, NEW new \in Seq(S),
           AppendTo(h, new), posts \subseteq posts', \A e \in posts' \ posts : e \in ToSet(new) /\ e.origin = h
    PROVE  Kept'
<1>1. \A g \in Host : board'[g] = IF g = h THEN board[g] \o new ELSE board[g]
    BY AppendType
<1>2. board[h] \in Seq(S)
    BY SeqGrows DEF TypeInv
<1>3. ToSet(board[h] \o new) = ToSet(board[h]) \cup ToSet(new)
    BY <1>2, FirstsAppend
<1>4. \A g \in Host : ToSet(board[g]) \subseteq ToSet(board'[g])
    BY <1>1, <1>3
<1>5. raced \subseteq raced' /\ cut' = cut /\ (cut[h].on => ToSet(new) \subseteq raced')
    BY DEF AppendTo, pruning
<1>6. \A e : Live(e)' => Live(e)
    BY DEF Live
<1> SUFFICES ASSUME NEW e, Owed(e)'
             PROVE  /\ e \in ToSet(board'[e.origin])
                    /\ \A g \in Host : cut'[g].on /\ e \in ToSet(board'[g]) => e \in ToSet(cut'[g].keep)
    BY DEF Kept
<1>7. e \in posts' /\ e \notin raced' /\ e \notin raced /\ Live(e)
    BY <1>5, <1>6 DEF Owed
<1>8. e \in posts => e.origin \in Host
    BY DEF TypeInv, Entry
<1>9. e \in ToSet(board'[e.origin])
    <2>1. CASE e \in posts
        BY <1>4, <1>7, <1>8, <2>1 DEF Kept, Owed
    <2>2. CASE e \notin posts
        BY <1>1, <1>3, <1>7, <2>2
    <2> QED
        BY <2>1, <2>2
<1>10. ASSUME NEW g \in Host, cut'[g].on, e \in ToSet(board'[g]) PROVE e \in ToSet(cut'[g].keep)
    <2>1. e \notin ToSet(new) \/ g # h
        BY <1>5, <1>7, <1>10
    <2>2. e \in ToSet(board[g])
        BY <1>1, <1>3, <1>10, <2>1
    <2>3. e \in posts
        <3>1. ToSet(board[g]) \subseteq posts
            BY FirstsOnBoard DEF TypeInv
        <3> QED
            BY <2>2, <3>1
    <2> QED
        BY <1>5, <1>7, <1>10, <2>2, <2>3 DEF Kept, Owed
<1> QED
    BY <1>9, <1>10

LEMMA InitKept == Init => Kept
BY DEF Init, Kept, Owed

LEMMA NextKept == TypeInv /\ Kept /\ [Next]_vars => Kept'
<1> SUFFICES ASSUME TypeInv, Kept, [Next]_vars PROVE Kept'
    OBVIOUS
<1>1. CASE PostAny
    <2>1. PICK e \in Entry : Post(e)
        BY <1>1 DEF PostAny
    <2> DEFINE S == posts \cup {e}
    <2>2. AppendTo(e.origin, <<e>>) /\ e.origin \in Host /\ posts' = S
        BY <2>1 DEF Post, Entry
    <2>3. posts \subseteq S /\ S \subseteq Entry /\ <<e>> \in Seq(S) /\ e \in ToSet(<<e>>)
        BY DEF TypeInv, ToSet
    <2>4. \A d \in posts' \ posts : d = e
        BY <2>2
    <2>5. posts \subseteq posts'
        BY <2>2
    <2> HIDE DEF S
    <2> QED
        BY <2>2, <2>3, <2>4, <2>5, AppendKeeps
<1>2. ASSUME NEW p \in Host, Turn(p) PROVE Kept'
    <2>1. posts' = posts /\ UNCHANGED cut
        BY <1>2, TurnMoves DEF pruning
    <2>2. CASE UNCHANGED <<board, raced>>
        BY <2>1, <2>2 DEF Kept, Owed, Live
    <2>3. ASSUME NEW h \in Host, AppendTo(h, New(p)) PROVE Kept'
        <3>1. New(p) \in Seq(posts) /\ posts \subseteq Entry
            BY NewType DEF TypeInv
        <3> QED
            BY <2>1, <2>3, <3>1, AppendKeeps
    <2> QED
        BY <1>2, <2>2, <2>3, TurnMoves
<1>3. ASSUME NEW h \in Host, ReadToPrune(h) PROVE Kept'
    <2>1. PICK cutoff \in 1..MaxTs : cut' = [cut EXCEPT ![h] = [on |-> TRUE, keep |-> Keep(board[h], cutoff)]]
        BY <1>3 DEF ReadToPrune
    <2>2. cut'[h].keep = Keep(board[h], cutoff) /\ \A g \in Host : g # h => cut'[g] = cut[g]
        BY <2>1 DEF TypeInv
    <2>3. UNCHANGED <<board, posts, raced>>
        BY <1>3 DEF ReadToPrune
    <2>4. \A e : Owed(e)' => Owed(e)
        BY <2>3 DEF Owed, Live
    <2>5. \A e \in ToSet(board[h]) : Live(e) => e \in ToSet(cut'[h].keep)
        BY <2>2, KeepsLive
    <2>6. ASSUME NEW e, Owed(e), NEW g \in Host, cut'[g].on, e \in ToSet(board[g])
          PROVE  e \in ToSet(cut'[g].keep)
        BY <2>2, <2>5, <2>6 DEF Kept, Owed
    <2> QED
        BY <2>3, <2>4, <2>6 DEF Kept
<1>4. ASSUME NEW h \in Host, Replace(h) \/ Abandon(h) PROVE Kept'
    <2>1. UNCHANGED <<posts, raced>> /\ cut' = [cut EXCEPT ![h] = NoCut]
        BY <1>4 DEF Replace, Abandon
    <2>2. ~cut'[h].on /\ \A g \in Host : g # h => cut'[g] = cut[g]
        BY <2>1 DEF TypeInv, NoCut
    <2>3. /\ board \in [Host -> Seq(posts)]
          /\ \A g \in Host : g # h => board'[g] = board[g]
          /\ board'[h] = board[h] \/ (cut[h].on /\ board'[h] = cut[h].keep)
        BY <1>4 DEF Replace, Abandon, TypeInv
    <2>4. \A e : Owed(e)' => Owed(e) /\ e.origin \in Host
        BY <2>1 DEF Owed, Live, TypeInv, Entry
    <2>5. ASSUME NEW e, Owed(e) PROVE e.origin \in Host => e \in ToSet(board'[e.origin])
        BY <2>3, <2>5 DEF Kept
    <2>6. ASSUME NEW e, Owed(e), NEW g \in Host, cut'[g].on, e \in ToSet(board'[g])
          PROVE  e \in ToSet(cut'[g].keep)
        BY <2>2, <2>3, <2>6 DEF Kept
    <2> QED
        BY <2>4, <2>5, <2>6 DEF Kept
<1>5. CASE UNCHANGED vars
    BY <1>5 DEF vars, pruning, Kept, Owed, Live
<1> QED
    BY <1>1, <1>2, <1>3, <1>4, <1>5 DEF Next, Turn

\* prune "never drops" anything about an open, bidding or awarded task, but
\* for what is appended between its reading of the board and its rename.
THEOREM CompactionKeeps == Spec => []OnlyTheWindowLoses
<1> DEFINE I == TypeInv /\ Kept
<1>1. Init => I
    BY InitTypes, InitKept
<1>2. I /\ [Next]_vars => I'
    BY NextTypes, NextKept
<1>3. I => OnlyTheWindowLoses
    <2> SUFFICES ASSUME TypeInv, Kept, NEW e \in posts, Live(e), e \notin raced
                 PROVE  e.id = e.id /\ Somewhere(e)
        BY DEF OnlyTheWindowLoses
    <2>1. e.origin \in Host
        BY DEF TypeInv, Entry
    <2> QED
        BY <2>1 DEF Kept, Owed, Somewhere
<1> QED
    BY <1>1, <1>2, <1>3, PTL DEF Spec
=============================================================================

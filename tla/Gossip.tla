------------------------------- MODULE Gossip -------------------------------
(***************************************************************************)
(* Anti-entropy between the blackboards of several hosts:                  *)
(* src/src/cli/gossip.rs (exchange), src/src/api/blackboard_route.rs (list *)
(* and merge), the file operations of src/src/cli/team.rs, and the         *)
(* compaction of src/src/cli/prune.rs.                                     *)
(*                                                                         *)
(* A round of host p with its peer q reads q's board, merges it into p's,  *)
(* then pushes p's whole board to q.  A merge reads the file, computes     *)
(* what is new and appends it, without a lock: other appends come between. *)
(* A compaction reads a board, and later puts a shorter one in its place.  *)
(***************************************************************************)
EXTENDS TaskBoard

CONSTANTS
    Host,           \* daemons, by their origin_id
    Agent,          \* who posts entries
    Task,           \* task ids
    Peer,           \* <<p, q>>: p has a remote endpoint for q
    Kind,           \* kinds of entries posted
    MaxMerge,       \* MAX_MERGE: the largest batch that POST /blackboard takes
    SameSecond,     \* whether one task may be announced twice in a second
    MaxTs,          \* bound: entries are stamped 1..MaxTs
    MaxPosts,       \* bound: entries posted, all different
    MaxPrunes       \* bound: compactions

ASSUME PeerAssumption == Peer \subseteq Host \X Host
ASSUME NumberAssumption == MaxMerge \in Nat /\ MaxTs \in Nat /\ MaxPosts \in Nat /\ MaxPrunes \in Nat
ASSUME SameSecondAssumption == SameSecond \in BOOLEAN

VARIABLES
    board,  \* per host, the lines of its blackboard.jsonl
    posts,  \* history: every entry posted anywhere
    round,  \* per host, the gossip round it runs
    cut,    \* per host, the compaction it runs
    prunes, \* compactions so far
    raced   \* history: entries appended to a board while it was being compacted

pruning == <<cut, prunes>>
vars == <<board, posts, round, pruning, raced>>

Entry == [id: 1..MaxPosts, ts: 1..MaxTs, kind: {"announce", "bid", "award", "done"}, task: Task,
          from: Agent, origin: Host, cost: 0..1, to: Agent \cup {Nobody}, ok: BOOLEAN]

ASSUME NobodyAssumption == Nobody \notin Entry

NoRound == [phase |-> "idle", peer |-> Nobody, incoming |-> <<>>, have |-> <<>>]

NoCut == [on |-> FALSE, keep |-> <<>>]

Init ==
    /\ board = [h \in Host |-> <<>>]
    /\ posts = {}
    /\ round = [h \in Host |-> NoRound]
    /\ cut = [h \in Host |-> NoCut] /\ prunes = 0 /\ raced = {}

----------------------------------------------------------------------------

\* mint_id hashes who, what and when, but neither to nor ok.
SameContent(d, e) ==
    /\ d.origin = e.origin /\ d.ts = e.ts /\ d.from = e.from
    /\ d.task = e.task /\ d.kind = e.kind /\ d.cost = e.cost

\* Equal content has an equal id.  The text of an entry is hashed as well,
\* and tells entries apart that are equal here; an award has none.
MayHaveId(e) ==
    LET twins == {d \in posts : SameContent(d, e)}
    IN  \/ e.id \in {d.id : d \in twins}
        \/ /\ e.id \notin {d.id : d \in posts}
           /\ twins # {} => e.kind # "award"

\* What the verbs fill in: announce, bid --cost, award --to, done [--fail].
Wellformed(e) ==
    /\ e.kind # "bid" => e.cost = 0
    /\ IF e.kind = "award" THEN e.to # Nobody ELSE e.to = Nobody
    /\ e.kind # "done" => e.ok

\* Every writer appends; a compaction under way has read the board before.
AppendTo(h, entries) ==
    /\ board' = [board EXCEPT ![h] = @ \o entries]
    /\ raced' = IF cut[h].on THEN raced \cup ToSet(entries) ELSE raced
    /\ UNCHANGED pruning

\* append_entry: one line, whatever else the file has meanwhile.
Post(e) ==
    /\ Cardinality(posts) < MaxPosts /\ e \notin posts
    /\ e.kind \in Kind /\ Wellformed(e) /\ MayHaveId(e)
    /\ ~SameSecond /\ e.kind = "announce" =>
        \A d \in posts : ~(d.kind = "announce" /\ d.task = e.task /\ d.ts = e.ts)
    /\ AppendTo(e.origin, <<e>>)
    /\ posts' = posts \cup {e}
    /\ UNCHANGED round

\* Stamped by the clock of its own host: the hosts' clocks need not agree.
PostAny == \E e \in Entry : Post(e)

----------------------------------------------------------------------------
(* exchange, as run by p.                                                  *)

\* From itself, too.
Pull_x(p, q) ==
    /\ round[p].phase = "idle"
    /\ round' = [round EXCEPT ![p] = [phase |-> "pulled", peer |-> q,
                                      incoming |-> board[q], have |-> <<>>]]
    /\ UNCHANGED <<board, posts, pruning, raced>>

\* GET /blackboard answers with the whole board.
Pull(p, q) ==
    /\ round[p].phase = "idle" /\ <<p, q>> \in Peer
    /\ round' = [round EXCEPT ![p] = [phase |-> "pulled", peer |-> q,
                                      incoming |-> board[q], have |-> <<>>]]
    /\ UNCHANGED <<board, posts, pruning, raced>>

\* merge_into_blackboard reads the file it will append to ...
ReadOwn(p) ==
    /\ round[p].phase = "pulled"
    /\ round' = [round EXCEPT ![p] = [@ EXCEPT !.phase = "merging", !.have = board[p]]]
    /\ UNCHANGED <<board, posts, pruning, raced>>

New(p) == MergeNotes(round[p].have, round[p].incoming)

\* ... and appends what that reading did not have.
AppendOwn(p) ==
    /\ round[p].phase = "merging"
    /\ round' = [round EXCEPT ![p] = [@ EXCEPT !.phase = "merged", !.incoming = <<>>, !.have = <<>>]]
    /\ AppendTo(p, New(p))
    /\ UNCHANGED posts

\* Nothing is pushed.
Send_x(p) ==
    /\ round[p].phase = "merged"
    /\ round' = [round EXCEPT ![p] = NoRound]
    /\ UNCHANGED <<board, posts, pruning, raced>>

\* POST /blackboard carries the whole board as it is now.
Send(p) ==
    /\ round[p].phase = "merged"
    /\ round' = [round EXCEPT ![p] = [@ EXCEPT !.phase = "sent", !.incoming = board[p]]]
    /\ UNCHANGED <<board, posts, pruning, raced>>

\* 413: batch larger than MAX_MERGE entries.
Refuse(p) ==
    /\ round[p].phase = "sent" /\ Len(round[p].incoming) > MaxMerge
    /\ round' = [round EXCEPT ![p] = NoRound]
    /\ UNCHANGED <<board, posts, pruning, raced>>

\* The peer's handler merges, in the same two steps.
Receive(p) ==
    /\ round[p].phase = "sent" /\ Len(round[p].incoming) <= MaxMerge
    /\ round' = [round EXCEPT ![p] = [@ EXCEPT !.phase = "storing", !.have = board[round[p].peer]]]
    /\ UNCHANGED <<board, posts, pruning, raced>>

Store(p) ==
    /\ round[p].phase = "storing"
    /\ AppendTo(round[p].peer, New(p))
    /\ round' = [round EXCEPT ![p] = NoRound]
    /\ UNCHANGED posts

\* The round ends early: --pull-only, an unreachable peer, a killed process.
GiveUp(p) ==
    /\ round[p].phase \in {"pulled", "merging", "merged", "sent"}
    /\ round' = [round EXCEPT ![p] = NoRound]
    /\ UNCHANGED <<board, posts, pruning, raced>>

----------------------------------------------------------------------------
(* prune.                                                                  *)

\* Tasks that are not live on this board, and quiet since the cutoff.
Compactable(b, cutoff) ==
    {t \in {e.task : e \in ToSet(b)} :
        State(FoldTask(b, t)) \in {"done", "failed"} /\ FoldTask(b, t).last_ts <= cutoff}

\* The lines of b that are not about the tasks T, in their order.
Without(b, T) ==
    LET kept[n \in 0..Len(b)] ==
            IF n = 0 THEN <<>>
            ELSE IF b[n].task \in T THEN kept[n - 1] ELSE Append(kept[n - 1], b[n])
    IN  kept[Len(b)]

\* Quiet tasks go, finished or not.
Keep_x(b, cutoff) ==
    Without(b, {t \in {e.task : e \in ToSet(b)} : FoldTask(b, t).last_ts <= cutoff})

\* partition: of a compactable task everything goes, of others nothing.
Keep(b, cutoff) == Without(b, Compactable(b, cutoff))

\* --older-than may be any age, and --all-done is the youngest cutoff.
ReadToPrune(h) ==
    /\ prunes < MaxPrunes /\ ~cut[h].on
    /\ \E cutoff \in 1..MaxTs :
        /\ Keep(board[h], cutoff) # board[h]
        /\ cut' = [cut EXCEPT ![h] = [on |-> TRUE, keep |-> Keep(board[h], cutoff)]]
    /\ prunes' = prunes + 1
    /\ UNCHANGED <<board, posts, round, raced>>

\* rewrite: the temporary file takes the place of the board.
Replace(h) ==
    /\ cut[h].on
    /\ board' = [board EXCEPT ![h] = cut[h].keep]
    /\ cut' = [cut EXCEPT ![h] = NoCut]
    /\ UNCHANGED <<posts, round, prunes, raced>>

\* It fails, or the process dies: the board stays as it is.
Abandon(h) ==
    /\ cut[h].on
    /\ cut' = [cut EXCEPT ![h] = NoCut]
    /\ UNCHANGED <<board, posts, round, prunes, raced>>

Next ==
    \/ PostAny
    \/ \E p, q \in Host : Pull(p, q)
    \/ \E p \in Host :
        \/ ReadOwn(p) \/ AppendOwn(p) \/ Send(p) \/ Refuse(p) \/ Receive(p) \/ Store(p)
        \/ GiveUp(p) \/ ReadToPrune(p) \/ Replace(p) \/ Abandon(p)

Spec == Init /\ [][Next]_vars

\* The sweep runs on a timer for ever, and goes through all endpoints; any
\* number of rounds may fail, but not all of them.
FairRound(p, q) ==
    /\ SF_vars(Pull(p, q)) /\ SF_vars(ReadOwn(p)) /\ SF_vars(AppendOwn(p)) /\ SF_vars(Send(p))
    /\ SF_vars(Receive(p)) /\ WF_vars(Refuse(p) \/ Store(p))
FairSpec == Spec /\ \A pq \in Peer : FairRound(pq[1], pq[2])

----------------------------------------------------------------------------

TypeOK ==
    /\ \A h \in Host : ToSet(board[h]) \subseteq posts
    /\ posts \subseteq Entry
    /\ \A h \in Host :
        /\ round[h].phase \in {"idle", "pulled", "merging", "merged", "sent", "storing"}
        /\ round[h].phase # "idle" => <<h, round[h].peer>> \in Peer
        /\ ToSet(round[h].incoming) \cup ToSet(round[h].have) \cup ToSet(cut[h].keep) \subseteq posts

\* Two hosts that know the same entries see the same tasks (fold_tasks: "a
\* pure function of the entry set, which is what lets gossiping hosts agree
\* without a consensus round"), in whatever order their lines arrived, with
\* lines doubled, and with entries that share an id, unless a compaction has
\* taken one of those away.
IdsDetermine(S) == \A d, e \in S : d.id = e.id => d = e
BoardsAgree ==
    prunes = 0 \/ IdsDetermine(posts) =>
        \A h, g \in Host, t \in Task :
            Ids(board[h]) = Ids(board[g]) /\ Known(ToSet(board[h]), t) =>
                FoldTask(board[h], t) = FoldTask(board[g], t)

\* Unless entries share an id, the fold of the lines is ViewOf their set:
\* the reference the other modules use.
FoldIsViewOfSet ==
    \A h \in Host, t \in Task :
        LET S == ToSet(board[h])
        IN  IdsDetermine(S) /\ Known(S, t) => FoldTask(board[h], t) = ViewOf(S, t)

\* What prune "never drops: anything about an open, bidding or awarded task":
\* an entry of a task without a result is on some board.  Not so an entry
\* that came between the reading and the rename.
Live(e) == ~\E d \in posts : d.kind = "done" /\ d.task = e.task
Somewhere(e) == \E h \in Host : e \in ToSet(board[h])
OnlyTheWindowLoses == \A e \in posts : Live(e) /\ e \notin raced => \E d \in posts : d.id = e.id /\ Somewhere(d)

\* Without the exception it does not hold.
LiveWorkKept == \A e \in posts : Live(e) => \E d \in posts : d.id = e.id /\ Somewhere(d)

\* Entries spread: once nothing is posted any more, peers end up knowing the
\* same entries, for good ("two hosts that gossip once agree").
Convergence == <>[](\A pq \in Peer : Ids(board[pq[1]]) = Ids(board[pq[2]]))
=============================================================================

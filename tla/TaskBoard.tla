------------------------------ MODULE TaskBoard -----------------------------
(***************************************************************************)
(* The blackboard as data: src/src/cli/team.rs (entries and their merge),  *)
(* src/src/cli/tasks.rs (the fold that turns entries into the state of a   *)
(* task) and the announcement rule of src/src/cli/backlog.rs.              *)
(*                                                                         *)
(* A board is the sequence of lines of blackboard.jsonl, oldest first.     *)
(* FoldTask is the code's fold of that sequence; ViewOf is the view as a   *)
(* function of the set of entries, which the fold is meant to be.          *)
(***************************************************************************)
EXTENDS Naturals, SequencesExt

CONSTANT Nobody   \* an absent name, and the winner among no entries

----------------------------------------------------------------------------
(* Merging: merge_notes.                                                   *)

Ids(board) == {e.id : e \in ToSet(board)}

\* The entries of incoming that have lacks, each id once, in their order.
MergeNotes(have, incoming) ==
    LET new[n \in 0..Len(incoming)] ==
            IF n = 0 THEN <<>>
            ELSE IF incoming[n].id \in Ids(have) \cup Ids(new[n - 1]) THEN new[n - 1]
                 ELSE Append(new[n - 1], incoming[n])
    IN  new[Len(incoming)]

----------------------------------------------------------------------------
(* Folding: fold_tasks.                                                    *)

\* Variants ending in _x are bugs this code could have; nothing uses them.
Newer_x(a, b) == a.ts > b.ts

\* newer: a later entry wins, the id breaks ties.
Newer(a, b) == a.ts > b.ts \/ (a.ts = b.ts /\ a.id > b.id)

\* Announcements: a strictly earlier one wins; nothing breaks ties.
Earlier(a, b) == a.ts < b.ts

\* The entry that a scan of the board for entries of S ends up with.
Scan(beats(_, _), board, S) ==
    LET best[n \in 0..Len(board)] ==
            IF n = 0 THEN Nobody
            ELSE IF board[n] \in S /\ (best[n - 1] = Nobody \/ beats(board[n], best[n - 1]))
                 THEN board[n] ELSE best[n - 1]
    IN  best[Len(board)]

\* An entry of the set S that no other entry of it beats.
Winner(beats(_, _), S) ==
    IF S = {} THEN Nobody ELSE CHOOSE e \in S : \A d \in S : ~beats(d, e)

LastTs(S) ==
    LET stamps == {e.ts : e \in S}
    IN  CHOOSE n \in stamps : \A m \in stamps : m <= n

\* What S says of a task.
Saying(S, task, kind) == {e \in S : e.task = task /\ e.kind = kind}

\* A TaskView, from the entries that won; bid maps each bidder to its own.
TaskView(announce, award, done, bid, last_ts) ==
    [ announced_by |-> IF announce = Nobody THEN Nobody ELSE announce.from,
      home         |-> IF announce = Nobody THEN Nobody ELSE announce.origin,
      announced_ts |-> IF announce = Nobody THEN 0 ELSE announce.ts,
      last_ts      |-> last_ts,
      bids         |-> [b \in DOMAIN bid |-> bid[b].cost],
      awarded_to   |-> IF award = Nobody THEN Nobody ELSE award.to,
      done         |-> IF done = Nobody THEN "no" ELSE IF done.ok THEN "ok" ELSE "failed" ]

\* The oldest award wins.
FoldTask_x(board, task) ==
    LET of(kind) == Saying(ToSet(board), task, kind)
    IN  TaskView(Scan(Earlier, board, of("announce")), Scan(Earlier, board, of("award")),
                 Scan(Newer, board, of("done")), <<>>,
                 LastTs({e \in ToSet(board) : e.task = task}))

\* The code's single pass keeps one best entry per kind (and per bidder).
FoldTask(board, task) ==
    LET of(kind) == Saying(ToSet(board), task, kind)
        bidders  == {e.from : e \in of("bid")}
    IN  TaskView(Scan(Earlier, board, of("announce")), Scan(Newer, board, of("award")),
                 Scan(Newer, board, of("done")),
                 [b \in bidders |-> Scan(Newer, board, {e \in of("bid") : e.from = b})],
                 LastTs({e \in ToSet(board) : e.task = task}))

ViewOf(S, task) ==
    LET of(kind) == Saying(S, task, kind)
        bidders  == {e.from : e \in of("bid")}
    IN  TaskView(Winner(Earlier, of("announce")), Winner(Newer, of("award")), Winner(Newer, of("done")),
                 [b \in bidders |-> Winner(Newer, {e \in of("bid") : e.from = b})],
                 LastTs({e \in S : e.task = task}))

\* Whether anything on the board is about the task: it has a view at all.
Known(S, task) == \E e \in S : e.task = task

----------------------------------------------------------------------------
(* Reading a view.                                                         *)

\* TaskView::state
State(v) ==
    CASE v.done = "ok"           -> "done"
      [] v.done = "failed"       -> "failed"
      [] v.done = "no" /\ v.awarded_to # Nobody -> "awarded"
      [] OTHER -> IF DOMAIN v.bids = {} THEN "open" ELSE "bidding"

\* TaskView::is_takeable
IsTakeable(v) == State(v) \in {"open", "bidding"}

\* The comparison the wrong way round.
OfferedTo_x(v, me) == IsTakeable(v) /\ v.announced_by = me

\* rank_tasks offers nobody a task that it announced itself.
OfferedTo(v, me) == IsTakeable(v) /\ v.announced_by # me

\* should_announce, for a task of the set S of entries, at time now.
ShouldAnnounce(S, task, now, cooldown) ==
    Known(S, task) =>
        LET v == ViewOf(S, task)
        IN  State(v) \in {"done", "failed"} /\ now - v.last_ts >= cooldown
=============================================================================

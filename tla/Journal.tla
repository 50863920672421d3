------------------------------- MODULE Journal -------------------------------
(***************************************************************************)
(* The decision journal: crates/tab-atelier-decisions/src/lib.rs, written  *)
(* by threads of the daemon, which append for producers, and of the Kiosk, *)
(* where a person reads and rules.  One file, no lock: whoever changes a   *)
(* line reads the file, edits all of it, truncates it and writes it anew.  *)
(* Names that Tabs has too, of the same daemon, begin with Journal here.   *)
(***************************************************************************)
EXTENDS Naturals, SequencesExt

CONSTANTS
    Id,         \* decisions
    Title,      \* what a producer says of one
    Verdict,    \* what a person says
    Thread,     \* those that work on the file
    NoVerdict,
    MaxCalls,   \* bound: calls of the journal
    MaxFaults   \* bound: writers that die, or whose write fails

ASSUME JournalAssumption ==
    /\ Id # {} /\ Title # {} /\ NoVerdict \notin Verdict
    /\ MaxCalls \in Nat /\ MaxFaults \in Nat

VARIABLES
    file,   \* the cards in it
    torn,   \* a line of it does not parse
    call,   \* per thread: the call it serves, and what it read of the file
    posted, \* history: ids a producer was told are on the board
    ruled,  \* history: per id, the verdict a person was told is recorded
    hurt,   \* history: a write went over what its writer had not read, or was cut short
    calls, faults

journal == <<file, torn, call, posted, ruled, hurt, calls, faults>>

Card == [id : Id, title : Title, state : {"open", "read", "tranched", "archived"}, verdict : Verdict \cup {NoVerdict}]

Posted(id, title) == [id |-> id, title |-> title, state |-> "open", verdict |-> NoVerdict]

\* base: the file as read; out: what is to be written over it.
Idle == [pc |-> "idle", op |-> "none", card |-> Posted(CHOOSE id \in Id : TRUE, CHOOSE t \in Title : TRUE),
         base |-> <<>>, out |-> <<>>]

JournalInit ==
    /\ file = <<>> /\ torn = FALSE
    /\ call = [p \in Thread |-> Idle]
    /\ posted = {} /\ ruled = [id \in Id |-> NoVerdict]
    /\ hurt = FALSE /\ calls = 0 /\ faults = 0

\* The lines of an id, and the cards there, of which `find` takes the first.
Lines(cards, id) == {i \in DOMAIN cards : cards[i].id = id}
CardsOf(cards, id) == {cards[i] : i \in Lines(cards, id)}
Found(cards, id) == cards[CHOOSE i \in Lines(cards, id) : \A j \in Lines(cards, id) : i <= j]

Counted == calls < MaxCalls /\ calls' = calls + 1

Return(p) == call' = [call EXCEPT ![p] = Idle]

----------------------------------------------------------------------------

\* What a person ruled is not looked for.
Settled_x(c, new) == c = new

\* append leaves alone what it would repeat, and what a person has ruled.
Settled(c, new) == c = new \/ c.state = "tranched"

\* An append looks at the last card only.
Next_x(cards, new) ==
    IF cards = <<>> \/ Last(cards).id # new.id THEN "append"
    ELSE IF Settled(Last(cards), new) THEN "idle" ELSE "update"

\* append: which of its four outcomes.
NextOf(cards, new) ==
    IF Lines(cards, new.id) = {} THEN "append"
    ELSE IF Settled(Found(cards, new.id), new) THEN "idle" ELSE "update"

\* append reads the file.  What does not parse is an error.
Post(p, new) ==
    /\ call[p].pc = "idle" /\ Counted
    /\ LET next == NextOf(file, new)
       IN  IF torn \/ next = "idle" THEN UNCHANGED call
           ELSE call' = [call EXCEPT ![p] = [Idle EXCEPT !.pc = next, !.op = "append", !.card = new, !.base = file]]
    /\ UNCHANGED <<file, torn, posted, ruled, hurt, faults>>

\* A new card goes to the end of the file as it is by now.
AppendLine(p) ==
    /\ call[p].pc = "append"
    /\ file' = Append(file, call[p].card)
    /\ posted' = posted \cup {call[p].card.id}
    /\ hurt' = (hurt \/ CardsOf(file, call[p].card.id) # CardsOf(call[p].base, call[p].card.id))
    /\ Return(p)
    /\ UNCHANGED <<torn, ruled, calls, faults>>

\* The edit that update is given.
Edit(op, c, new) ==
    CASE op = "append" -> new
      [] op = "read"   -> [c EXCEPT !.state = IF @ = "open" THEN "read" ELSE @]
      [] op = "tranch" -> [c EXCEPT !.state = "tranched", !.verdict = new.verdict]

Edited(op, cards, new) == [i \in DOMAIN cards |-> IF cards[i].id = new.id THEN Edit(op, cards[i], new) ELSE cards[i]]

\* update: it reads the file and edits every line of the id, if there is one.
Read(p, op, new) ==
    IF torn \/ Lines(file, new.id) = {} THEN Return(p)
    ELSE call' = [call EXCEPT ![p] = [pc |-> "truncate", op |-> op, card |-> new, base |-> file,
                                      out |-> Edited(op, file, new)]]

\* The second reading of an append that found its card: a verdict that came
\* between the two is edited away.
Update(p) ==
    /\ call[p].pc = "update"
    /\ Read(p, "append", call[p].card)
    /\ hurt' = (hurt \/ CardsOf(file, call[p].card.id) # CardsOf(call[p].base, call[p].card.id))
    /\ UNCHANGED <<file, torn, posted, ruled, calls, faults>>

\* mark_read, tranch.
MarkRead(p, id) ==
    /\ call[p].pc = "idle" /\ Counted
    /\ Read(p, "read", [Idle.card EXCEPT !.id = id])
    /\ UNCHANGED <<file, torn, posted, ruled, hurt, faults>>

Tranch(p, id, verdict) ==
    /\ call[p].pc = "idle" /\ Counted
    /\ Read(p, "tranch", [Idle.card EXCEPT !.id = id, !.verdict = verdict])
    /\ UNCHANGED <<file, torn, posted, ruled, hurt, faults>>

\* fs::write truncates ...
Truncate(p) ==
    /\ call[p].pc = "truncate"
    /\ call' = [call EXCEPT ![p].pc = "write"]
    /\ file' = <<>> /\ torn' = FALSE
    /\ hurt' = (hurt \/ torn \/ file # call[p].base)
    /\ UNCHANGED <<posted, ruled, calls, faults>>

\* ... and writes from the start of the file, over what came meanwhile, whose
\* end may stick out, in the middle of a line or not.
WriteOut(p) ==
    /\ call[p].pc = "write"
    /\ \/ file' = call[p].out /\ torn' = FALSE
       \/ file # <<>> /\ \E i \in DOMAIN file, cut \in BOOLEAN :
              file' = call[p].out \o SubSeq(file, i, Len(file)) /\ torn' = cut
    /\ posted' = IF call[p].op = "append" THEN posted \cup {call[p].card.id} ELSE posted
    /\ ruled' = IF call[p].op = "tranch" THEN [ruled EXCEPT ![call[p].card.id] = call[p].card.verdict] ELSE ruled
    /\ hurt' = (hurt \/ file # <<>> \/ torn)
    /\ Return(p)
    /\ UNCHANGED <<calls, faults>>

\* The process dies, or the disk is full.
Fail(p) ==
    /\ call[p].pc # "idle" /\ faults < MaxFaults /\ faults' = faults + 1
    /\ Return(p)
    /\ hurt' = (hurt \/ call[p].pc = "write")
    /\ UNCHANGED <<file, torn, posted, ruled, calls>>

\* Somebody archives a card, in an editor.
Archive(id) ==
    /\ \A p \in Thread : call[p].pc = "idle"
    /\ Lines(file, id) # {} /\ ~torn
    /\ file' = [i \in DOMAIN file |-> IF file[i].id = id THEN [file[i] EXCEPT !.state = "archived"] ELSE file[i]]
    /\ ruled' = [ruled EXCEPT ![id] = NoVerdict]
    /\ UNCHANGED <<torn, call, posted, hurt, calls, faults>>

JournalNext ==
    \/ \E p \in Thread :
        \/ \E id \in Id, title \in Title : Post(p, Posted(id, title))
        \/ \E id \in Id : MarkRead(p, id)
        \/ \E id \in Id, verdict \in Verdict : Tranch(p, id, verdict)
        \/ AppendLine(p) \/ Update(p) \/ Truncate(p) \/ WriteOut(p) \/ Fail(p)
    \/ \E id \in Id : Archive(id)

JournalSpec == JournalInit /\ [][JournalNext]_journal

----------------------------------------------------------------------------

JournalTypeOK ==
    /\ file \in Seq(Card) /\ torn \in BOOLEAN
    /\ call \in [Thread -> [pc : {"idle", "append", "update", "truncate", "write"},
                            op : {"none", "append", "read", "tranch"}, card : Card,
                            base : Seq(Card), out : Seq(Card)]]
    /\ posted \subseteq Id /\ ruled \in [Id -> Verdict \cup {NoVerdict}]
    /\ hurt \in BOOLEAN /\ calls \in 0..MaxCalls /\ faults \in 0..MaxFaults

\* What is in the file is not on its way from one writer's memory.
Whole == \A p \in Thread : call[p].pc # "write"

\* "The board must not grow a duplicate card each time": a card that was
\* posted is there once, however often it is posted and by whom; appends of
\* different cards never harm each other.  It takes a rewrite of what its
\* writer had not read, or an append of what another has appended since it
\* looked, to lose or double one.
OneCardPerId ==
    ~hurt /\ Whole => /\ ~torn
                      /\ \A id \in posted : Lines(file, id) # {}
                      /\ \A id \in Id : \A i, j \in Lines(file, id) : i = j

\* "A re-post cannot overwrite a verdict": once the person is told that a
\* verdict is recorded it stays, until the card is archived.
VerdictStands ==
    ~hurt /\ Whole => \A id \in Id : ruled[id] # NoVerdict =>
        \E c \in CardsOf(file, id) : c.state = "tranched" /\ c.verdict = ruled[id]
=============================================================================

---------------------------- MODULE DaemonProofs ----------------------------
(***************************************************************************)
(* Theorems about the daemon: about Journal, for all sets of decisions and *)
(* threads, and about Tabs, for all tabs, clients, queues and restarts.    *)
(*                                                                         *)
(* Journal.  Until a rewrite meets another call, a decision has one card   *)
(* and keeps its verdict.  What is in the file says so only while nobody   *)
(* writes it; while one thread does, its memory has to.                    *)
(*                                                                         *)
(* Tabs.  Every list of tabs that is kept anywhere (the loop's, the file's *)
(* and those in the writer's queue) is one that a daemon may start with,   *)
(* and a lock that was answered is on the tab or is the last in the queue  *)
(* for it.  While the loop works through what it took, two answers count:  *)
(* the one at the take, which what was taken ends on, and the one of now   *)
(* (Ahead).  The closes of a drain are a recursion over positions, so what *)
(* it leaves is shown by induction.  A graceful stop leaves no writes.     *)
(***************************************************************************)
EXTENDS Journal, Tabs, SequenceTheorems, WellFoundedInduction, TLAPS

Call == [pc : {"idle", "append", "update", "truncate", "write"},
         op : {"none", "append", "read", "tranch"}, card : Card, base : Seq(Card), out : Seq(Card)]

\* No id has two lines.
Unique(cards) == \A i, j \in DOMAIN cards : cards[i].id = cards[j].id => i = j

\* What was posted and ruled is there.
Kept(cards) ==
    /\ \A id \in posted : Lines(cards, id) # {}
    /\ \A id \in Id : ruled[id] # NoVerdict =>
        \E c \in CardsOf(cards, id) : c.state = "tranched" /\ c.verdict = ruled[id]

\* What a thread is about to write is what it read, edited.
Prepared ==
    \A p \in Thread :
        /\ call[p].pc \in {"append", "update"} => call[p].op = "append"
        /\ call[p].pc \in {"truncate", "write"} =>
            /\ call[p].op # "none"
            /\ call[p].out = Edited(call[p].op, call[p].base, call[p].card)
            /\ Lines(call[p].base, call[p].card.id) # {}

\* An append writes where there was nothing, or nothing was ruled.
Harmless ==
    \A p \in Thread :
        /\ call[p].pc = "append" => Lines(call[p].base, call[p].card.id) = {}
        /\ call[p].pc \in {"update", "truncate", "write"} /\ call[p].op = "append" =>
            \A c \in CardsOf(call[p].base, call[p].card.id) : c.state # "tranched"

\* Lines are not doubled, nor are those in a writer's memory.
Single ==
    /\ ~torn /\ Unique(file)
    /\ \A p \in Thread : call[p].pc = "write" => Unique(call[p].base)

\* The only writer has what the file had, as long as the file is empty.
OnlyWriter(p) == \A q \in Thread : call[q].pc = "write" <=> q = p
Carried == \A p \in Thread : OnlyWriter(p) /\ file = <<>> => Kept(call[p].base)

\* What it takes of the state, besides the types, while nothing is hurt.
Sound == Harmless /\ Single /\ Carried /\ (Whole => Kept(file))

IInv == JournalTypeOK /\ Prepared /\ (~hurt => Sound)

----------------------------------------------------------------------------
(* Cards and calls.                                                        *)

LEMMA CallType == JournalTypeOK => call \in [Thread -> Call]
BY DEF JournalTypeOK, Call

LEMMA PostedType == ASSUME NEW id \in Id, NEW title \in Title PROVE Posted(id, title) \in Card
BY DEF Posted, Card

LEMMA IdleType == Idle \in Call
<1>1. (CHOOSE id \in Id : TRUE) \in Id /\ (CHOOSE t \in Title : TRUE) \in Title
    BY JournalAssumption
<1> QED
    BY <1>1, PostedType DEF Idle, Call

\* An edit keeps the id.
LEMMA EditType ==
    ASSUME NEW c \in Card, NEW new \in Card, NEW op \in {"append", "read", "tranch"}, c.id = new.id
    PROVE  Edit(op, c, new) \in Card /\ Edit(op, c, new).id = c.id
BY DEF Edit, Card

LEMMA EditedType ==
    ASSUME NEW cards \in Seq(Card), NEW new \in Card, NEW op \in {"append", "read", "tranch"}
    PROVE  /\ Edited(op, cards, new) \in Seq(Card)
           /\ DOMAIN Edited(op, cards, new) = DOMAIN cards
           /\ \A i \in DOMAIN cards : Edited(op, cards, new)[i].id = cards[i].id
<1>1. \A i \in DOMAIN cards : cards[i] \in Card
    OBVIOUS
<1>2. \A i \in DOMAIN cards : /\ Edited(op, cards, new)[i] \in Card
                              /\ Edited(op, cards, new)[i].id = cards[i].id
    BY <1>1, EditType DEF Edited
<1>3. DOMAIN Edited(op, cards, new) = 1..Len(cards) /\ Len(cards) \in Nat
    BY DEF Edited
<1> DEFINE e == Edited(op, cards, new)
<1>4. e = [i \in 1..Len(cards) |-> e[i]]
    BY DEF Edited
<1> HIDE DEF e
<1>5. \A i \in 1..Len(cards) : e[i] \in Card
    BY <1>2 DEF e
<1>6. e \in Seq(Card)
    BY <1>3, <1>4, <1>5
<1> QED
    BY <1>2, <1>3, <1>6 DEF e

----------------------------------------------------------------------------
(* Types and calls, step by step.                                          *)

\* A call that has read the file is what Prepared says of it.
LEMMA ReadType ==
    ASSUME JournalTypeOK, Prepared, NEW p \in Thread, NEW op \in {"append", "read", "tranch"}, NEW new \in Card,
           Read(p, op, new), file' = file, torn' = torn
    PROVE  call' \in [Thread -> Call] /\ Prepared'
<1>1. CASE torn \/ Lines(file, new.id) = {}
    <2>1. call' = [call EXCEPT ![p] = Idle]
        BY <1>1 DEF Read, Return
    <2>2. Idle.pc = "idle"
        BY DEF Idle
    <2> QED
        BY <2>1, <2>2, IdleType, CallType DEF Prepared, Call
<1>2. CASE ~(torn \/ Lines(file, new.id) = {})
    <2> DEFINE c == [pc |-> "truncate", op |-> op, card |-> new, base |-> file, out |-> Edited(op, file, new)]
    <2>1. call' = [call EXCEPT ![p] = c]
        BY <1>2 DEF Read
    <2>2. c \in Call
        BY EditedType DEF Call, JournalTypeOK
    <2> QED
        BY <1>2, <2>1, <2>2, CallType DEF Prepared, Call
<1> QED
    BY <1>1, <1>2

LEMMA InitTypes == JournalInit => JournalTypeOK /\ Prepared
<1> SUFFICES ASSUME JournalInit PROVE JournalTypeOK /\ Prepared
    OBVIOUS
<1>1. Idle.pc = "idle"
    BY DEF Idle
<1>2. call \in [Thread -> Call]
    BY IdleType DEF JournalInit
<1>3. file \in Seq(Card) /\ ruled \in [Id -> Verdict \cup {NoVerdict}]
    BY DEF JournalInit
<1>4. calls \in 0..MaxCalls /\ faults \in 0..MaxFaults
    BY JournalAssumption DEF JournalInit
<1>5. JournalTypeOK
    BY <1>2, <1>3, <1>4 DEF JournalInit, JournalTypeOK, Call
<1>6. Prepared
    BY <1>1 DEF JournalInit, Prepared
<1> QED
    BY <1>5, <1>6

LEMMA PostTypes ==
    ASSUME JournalTypeOK, Prepared, NEW p \in Thread, NEW id \in Id, NEW title \in Title, Post(p, Posted(id, title))
    PROVE  JournalTypeOK' /\ Prepared'
<1> DEFINE new == Posted(id, title)
           next == NextOf(file, new)
           c == [Idle EXCEPT !.pc = next, !.op = "append", !.card = new, !.base = file]
<1>1. next \in {"append", "idle", "update"}
    BY DEF NextOf
<1>2. c \in Call /\ c.pc = next /\ c.op = "append"
    BY <1>1, IdleType, PostedType DEF Call, JournalTypeOK
<1>3. call' = call \/ call' = [call EXCEPT ![p] = c]
    BY DEF Post
<1>4. call' \in [Thread -> Call] /\ Prepared'
    BY <1>1, <1>2, <1>3, CallType DEF Prepared
<1>5. calls' \in 0..MaxCalls
    BY JournalAssumption DEF Post, Counted, JournalTypeOK
<1> QED
    BY <1>4, <1>5 DEF JournalTypeOK, Post, Call

LEMMA ReturnTypes ==
    ASSUME JournalTypeOK, Prepared, NEW p \in Thread, Return(p)
    PROVE  call' \in [Thread -> Call] /\ Prepared' /\ call'[p].pc = "idle"
<1>1. Idle.pc = "idle"
    BY DEF Idle
<1> QED
    BY <1>1, IdleType, CallType DEF Return, Prepared

LEMMA WriteTypes ==
    ASSUME JournalTypeOK, Prepared, NEW p \in Thread, WriteOut(p)
    PROVE  JournalTypeOK' /\ Prepared'
<1>1. call[p] \in Call
    BY CallType
<1>2. \A i \in DOMAIN file : SubSeq(file, i, Len(file)) \in Seq(Card)
    BY DEF JournalTypeOK
<1>3. file' \in Seq(Card) /\ torn' \in BOOLEAN
    <2>1. CASE file' = call[p].out /\ torn' = FALSE
        BY <1>1, <2>1 DEF Call
    <2>2. CASE \E i \in DOMAIN file, cut \in BOOLEAN :
                  file' = call[p].out \o SubSeq(file, i, Len(file)) /\ torn' = cut
        BY <1>1, <1>2, <2>2 DEF Call
    <2> QED
        BY <2>1, <2>2 DEF WriteOut
<1>4. posted' \subseteq Id /\ ruled' \in [Id -> Verdict \cup {NoVerdict}]
    BY <1>1 DEF WriteOut, JournalTypeOK, Call, Card
<1>5. hurt' \in BOOLEAN
    BY DEF WriteOut, JournalTypeOK
<1>6. call' \in [Thread -> Call] /\ Prepared'
    BY ReturnTypes DEF WriteOut
<1> QED
    BY <1>3, <1>4, <1>5, <1>6 DEF JournalTypeOK, WriteOut, Call

LEMMA ArchiveTypes ==
    ASSUME JournalTypeOK, Prepared, NEW id \in Id, Archive(id)
    PROVE  JournalTypeOK' /\ Prepared'
<1> DEFINE e(i) == IF file[i].id = id THEN [file[i] EXCEPT !.state = "archived"] ELSE file[i]
<1>1. file' = [i \in DOMAIN file |-> e(i)]
    BY DEF Archive
<1>2. \A i \in DOMAIN file : file[i] \in Card
    BY DEF JournalTypeOK
<1>3. \A i \in DOMAIN file : e(i) \in Card
    BY <1>2 DEF Card
<1>4. DOMAIN file = 1..Len(file) /\ Len(file) \in Nat
    BY DEF JournalTypeOK
<1> HIDE DEF e
<1>5. file' \in Seq(Card)
    BY <1>1, <1>3, <1>4
<1> QED
    BY <1>5 DEF JournalTypeOK, Prepared, Archive

LEMMA NextTypes == JournalTypeOK /\ Prepared /\ [JournalNext]_journal => JournalTypeOK' /\ Prepared'
<1> SUFFICES ASSUME JournalTypeOK, Prepared, [JournalNext]_journal PROVE JournalTypeOK' /\ Prepared'
    OBVIOUS
<1>1. ASSUME NEW p \in Thread, NEW id \in Id, NEW title \in Title, Post(p, Posted(id, title))
      PROVE  JournalTypeOK' /\ Prepared'
    BY <1>1, PostTypes
<1>2. ASSUME NEW p \in Thread, NEW id \in Id, MarkRead(p, id)
      PROVE  JournalTypeOK' /\ Prepared'
    <2> DEFINE new == [Idle.card EXCEPT !.id = id]
    <2>1. new \in Card
        BY IdleType DEF Call, Card
    <2>2. call' \in [Thread -> Call] /\ Prepared'
        BY <1>2, <2>1, ReadType DEF MarkRead
    <2> QED
        BY <1>2, <2>2, JournalAssumption, SMTT(20) DEF MarkRead, Counted, JournalTypeOK, Call
<1>3. ASSUME NEW p \in Thread, NEW id \in Id, NEW verdict \in Verdict, Tranch(p, id, verdict)
      PROVE  JournalTypeOK' /\ Prepared'
    <2> DEFINE new == [Idle.card EXCEPT !.id = id, !.verdict = verdict]
    <2>1. new \in Card
        BY IdleType DEF Call, Card
    <2>2. call' \in [Thread -> Call] /\ Prepared'
        BY <1>3, <2>1, ReadType DEF Tranch
    <2> QED
        BY <1>3, <2>2, JournalAssumption DEF Tranch, Counted, JournalTypeOK, Call
<1>4. ASSUME NEW p \in Thread, AppendLine(p)
      PROVE  JournalTypeOK' /\ Prepared'
    <2>1. call[p] \in Call
        BY CallType
    <2>2. file' \in Seq(Card)
        BY <1>4, <2>1 DEF AppendLine, JournalTypeOK, Call
    <2>4. posted' \subseteq Id
        BY <1>4, <2>1 DEF AppendLine, JournalTypeOK, Call, Card
    <2>3. call' \in [Thread -> Call] /\ Prepared'
        BY <1>4, ReturnTypes DEF AppendLine
    <2> QED
        BY <1>4, <2>2, <2>3, <2>4 DEF AppendLine, JournalTypeOK, Call
<1>5. ASSUME NEW p \in Thread, Update(p)
      PROVE  JournalTypeOK' /\ Prepared'
    <2>1. call[p].card \in Card
        BY CallType DEF Call
    <2>2. call' \in [Thread -> Call] /\ Prepared'
        BY <1>5, <2>1, ReadType DEF Update
    <2> QED
        BY <1>5, <2>2 DEF Update, JournalTypeOK, Call
<1>6. ASSUME NEW p \in Thread, Truncate(p)
      PROVE  JournalTypeOK' /\ Prepared'
    <2>1. call' = [call EXCEPT ![p] = [call[p] EXCEPT !.pc = "write"]]
        BY <1>6 DEF Truncate
    <2>2. call[p] \in Call /\ call[p].pc = "truncate"
        BY <1>6, CallType DEF Truncate
    <2>4. [call[p] EXCEPT !.pc = "write"] \in Call
        BY <2>2 DEF Call
    <2>5. call' \in [Thread -> Call]
        BY <2>1, <2>4, CallType
    <2>6. /\ call'[p] = [call[p] EXCEPT !.pc = "write"]
          /\ \A q \in Thread \ {p} : call'[q] = call[q]
        BY <2>1, CallType
    <2>7. /\ call'[p].pc = "write" /\ call'[p].op = call[p].op /\ call'[p].card = call[p].card
          /\ call'[p].base = call[p].base /\ call'[p].out = call[p].out
        BY <2>2, <2>6 DEF Call
    <2>9. /\ call[p].op # "none" /\ Lines(call[p].base, call[p].card.id) # {}
          /\ call[p].out = Edited(call[p].op, call[p].base, call[p].card)
        BY <2>2 DEF Prepared
    <2>8. Prepared'
        <3> SUFFICES ASSUME NEW q \in Thread
                     PROVE  /\ call'[q].pc \in {"append", "update"} => call'[q].op = "append"
                            /\ call'[q].pc \in {"truncate", "write"} =>
                                /\ call'[q].op # "none"
                                /\ call'[q].out = Edited(call'[q].op, call'[q].base, call'[q].card)
                                /\ Lines(call'[q].base, call'[q].card.id) # {}
            BY Zenon DEF Prepared
        <3>1. CASE q = p
            BY <2>7, <2>9, <3>1
        <3>2. CASE q # p
            BY <2>6, <3>2 DEF Prepared
        <3> QED
            BY <3>1, <3>2
    <2>3. file' \in Seq(Card)
        BY <1>6 DEF Truncate
    <2> QED
        BY <1>6, <2>3, <2>5, <2>8 DEF Truncate, JournalTypeOK, Call
<1>7. ASSUME NEW p \in Thread, WriteOut(p)
      PROVE  JournalTypeOK' /\ Prepared'
    BY <1>7, WriteTypes
<1>8. ASSUME NEW p \in Thread, Fail(p)
      PROVE  JournalTypeOK' /\ Prepared'
    <2>1. call' \in [Thread -> Call] /\ Prepared'
        BY <1>8, ReturnTypes DEF Fail
    <2> QED
        BY <1>8, <2>1, JournalAssumption DEF Fail, JournalTypeOK, Call
<1>9. ASSUME NEW id \in Id, Archive(id)
      PROVE  JournalTypeOK' /\ Prepared'
    BY <1>9, ArchiveTypes
<1>10. CASE UNCHANGED journal
    BY <1>10 DEF journal, JournalTypeOK, Prepared
<1> QED
    BY <1>1, <1>2, <1>3, <1>4, <1>5, <1>6, <1>7, <1>8, <1>9, <1>10 DEF JournalNext

\* The state keeps its type, for all sets of decisions, threads and verdicts
\* (Decision, Journal::append and update).
THEOREM TypeCorrect == JournalSpec => []JournalTypeOK
<1>1. JournalSpec => [](JournalTypeOK /\ Prepared)
    BY InitTypes, NextTypes, PTL DEF JournalSpec
<1> QED
    BY <1>1, PTL

----------------------------------------------------------------------------
(* One card per id, and its verdict.                                       *)

LEMMA InitSound == JournalInit => Sound
<1> SUFFICES ASSUME JournalInit PROVE Sound
    OBVIOUS
<1>1. \A p \in Thread : call[p].pc = "idle"
    BY DEF JournalInit, Idle
<1>2. Kept(file)
    BY DEF JournalInit, Kept
<1>3. Single
    BY <1>1 DEF JournalInit, Single, Unique
<1> QED
    BY <1>1, <1>2, <1>3 DEF Sound, Harmless, Carried, OnlyWriter

\* A step of a thread that does not write, and writes nothing.
LEMMA QuietStep ==
    ASSUME JournalTypeOK, Sound, NEW p \in Thread, NEW c, call' = [call EXCEPT ![p] = c],
           call[p].pc # "write", c.pc # "write", UNCHANGED <<file, torn, posted, ruled>>
    PROVE  Single' /\ Carried' /\ (Whole' => Kept(file)')
<1>1. \A q \in Thread : /\ call'[q].pc = "write" <=> call[q].pc = "write"
                        /\ call[q].pc = "write" => call'[q] = call[q]
    BY CallType
<1>2. Single'
    BY <1>1 DEF Sound, Single, Unique
<1>3. Whole' => Kept(file)'
    BY <1>1 DEF Sound, Whole, Kept, Lines, CardsOf
<1>4. ASSUME NEW q \in Thread, OnlyWriter(q)', file' = <<>> PROVE Kept(call[q].base)'
    <2>1. OnlyWriter(q) /\ call'[q] = call[q]
        BY <1>1, <1>4 DEF OnlyWriter
    <2>2. Kept(call[q].base)
        BY <1>4, <2>1 DEF Sound, Carried
    <2> QED
        BY <2>1, <2>2 DEF Kept, Lines, CardsOf
<1> QED
    BY <1>2, <1>3, <1>4 DEF Carried

\* What append found is all there is.
LEMMA FoundIsAll ==
    ASSUME NEW cards \in Seq(Card), Unique(cards), NEW id, Lines(cards, id) # {}
    PROVE  \A c \in CardsOf(cards, id) : c = Found(cards, id)
<1>1. PICK only \in Lines(cards, id) : TRUE
    OBVIOUS
<1>2. \A j \in Lines(cards, id) : j = only
    BY DEF Lines, Unique
<1>3. only \in Nat
    BY DEF Lines
<1> DEFINE first == CHOOSE i \in Lines(cards, id) : \A j \in Lines(cards, id) : i <= j
<1>4. first \in Lines(cards, id)
    <2>1. \A j \in Lines(cards, id) : only <= j
        BY <1>2, <1>3
    <2> QED
        BY <2>1
<1>5. Found(cards, id) = cards[first]
    BY DEF Found
<1> HIDE DEF first
<1>6. Found(cards, id) = cards[only]
    BY <1>2, <1>4, <1>5
<1> QED
    BY <1>2, <1>6 DEF CardsOf

LEMMA PostSound ==
    ASSUME JournalTypeOK, Sound, NEW p \in Thread, NEW new \in Card, Post(p, new)
    PROVE  Sound'
<1> DEFINE next == NextOf(file, new)
           c == [Idle EXCEPT !.pc = next, !.op = "append", !.card = new, !.base = file]
<1>1. CASE UNCHANGED call
    <2>1. UNCHANGED <<file, torn, posted, ruled, call>>
        BY <1>1 DEF Post
    <2>2. Harmless'
        BY <2>1 DEF Sound, Harmless, Lines, CardsOf
    <2>3. Single'
        BY <2>1 DEF Sound, Single, Unique
    <2>4. Carried'
        BY <2>1 DEF Sound, Carried, OnlyWriter, Kept, Lines, CardsOf
    <2>5. Whole' => Kept(file)'
        BY <2>1 DEF Sound, Whole, Kept, Lines, CardsOf
    <2> QED
        BY <2>2, <2>3, <2>4, <2>5 DEF Sound
<1>2. CASE call' = [call EXCEPT ![p] = c] /\ next # "idle"
    <2>1. /\ c.pc = next /\ c.op = "append" /\ c.base = file /\ c.card = new
          /\ next \in {"append", "update"}
        BY <1>2, IdleType DEF Call, NextOf
    <2> HIDE DEF c
    <2>2. Single' /\ Carried' /\ (Whole' => Kept(file)')
        BY <1>2, <2>1, QuietStep DEF Post
    <2>3. next = "append" => Lines(file, new.id) = {}
        BY DEF NextOf
    <2>4. next = "update" => \A d \in CardsOf(file, new.id) : d.state # "tranched"
        <3>1. SUFFICES ASSUME next = "update" PROVE \A d \in CardsOf(file, new.id) : d.state # "tranched"
            OBVIOUS
        <3>2. Lines(file, new.id) # {} /\ ~Settled(Found(file, new.id), new)
            BY <3>1 DEF NextOf
        <3>3. Unique(file) /\ file \in Seq(Card)
            BY DEF Sound, Single, JournalTypeOK
        <3>4. \A d \in CardsOf(file, new.id) : d = Found(file, new.id)
            BY <3>2, <3>3, FoundIsAll
        <3> QED
            BY <3>2, <3>4 DEF Settled
    <2>5. Harmless'
        BY <1>2, <2>1, <2>3, <2>4, CallType DEF Sound, Harmless, Lines, CardsOf
    <2> QED
        BY <2>2, <2>5 DEF Sound
<1> QED
    BY <1>1, <1>2 DEF Post

\* Reading the file again, to rule or because nothing had been ruled.
LEMMA ReadSound ==
    ASSUME JournalTypeOK, Sound, NEW p \in Thread, NEW op, NEW new, Read(p, op, new),
           call[p].pc # "write", UNCHANGED <<file, torn, posted, ruled>>,
           op = "append" => \A c \in CardsOf(file, new.id) : c.state # "tranched"
    PROVE  Sound'
<1> DEFINE c == [pc |-> "truncate", op |-> op, card |-> new, base |-> file, out |-> Edited(op, file, new)]
<1>1. Idle.pc = "idle"
    BY DEF Idle
<1>2. PICK d \in {Idle, c} : call' = [call EXCEPT ![p] = d]
    BY DEF Read, Return
<1>3. d.pc # "write"
    BY <1>1, <1>2
<1>4. Single' /\ Carried' /\ (Whole' => Kept(file)')
    BY <1>2, <1>3, QuietStep
<1>5. Harmless'
    BY <1>1, <1>2, CallType DEF Sound, Harmless, Lines, CardsOf
<1> QED
    BY <1>4, <1>5 DEF Sound

LEMMA AppendSound ==
    ASSUME JournalTypeOK, Sound, NEW p \in Thread, AppendLine(p), ~hurt'
    PROVE  Sound'
<1> DEFINE new == call[p].card
<1>1. Lines(file, new.id) = {}
    <2>1. CardsOf(file, new.id) = CardsOf(call[p].base, new.id) /\ Lines(call[p].base, new.id) = {}
        BY DEF AppendLine, Sound, Harmless
    <2>2. CardsOf(file, new.id) = {}
        BY <2>1 DEF CardsOf
    <2> QED
        BY <2>2 DEF CardsOf
<1>2. /\ file' = Append(file, new) /\ file \in Seq(Card) /\ new \in Card
      /\ posted' = posted \cup {new.id} /\ UNCHANGED <<torn, ruled>>
    BY CallType DEF AppendLine, JournalTypeOK, Call
<1> HIDE DEF new
<1>3. /\ DOMAIN file' = 1..(Len(file) + 1) /\ file'[Len(file) + 1] = new
      /\ DOMAIN file = 1..Len(file) /\ Len(file) \in Nat
      /\ \A i \in DOMAIN file : file'[i] = file[i]
    BY <1>2
<1>4. \A q \in Thread : /\ call'[q].pc = "write" <=> call[q].pc = "write"
                        /\ call'[q].pc # "idle" => call'[q] = call[q]
    BY CallType DEF AppendLine, Return, Idle
<1>5. Harmless'
    BY <1>4 DEF Sound, Harmless, Lines, CardsOf
<1>6. Unique(file')
    BY <1>1, <1>3 DEF Unique, Lines, Sound, Single
<1>7. Single'
    BY <1>2, <1>4, <1>6 DEF Sound, Single, Unique
<1>8. Carried'
    <2>1. file' # <<>>
        BY <1>2
    <2> QED
        BY <2>1 DEF Carried
<1>9. ASSUME Whole' PROVE Kept(file)'
    <2>1. Kept(file)
        BY <1>4, <1>9 DEF Sound, Whole
    <2>2. \A id : Lines(file, id) \subseteq Lines(file', id) /\ CardsOf(file, id) \subseteq CardsOf(file', id)
        BY <1>3 DEF Lines, CardsOf
    <2>3. Lines(file', new.id) # {}
        BY <1>3 DEF Lines
    <2>4. \A id \in posted' : Lines(file', id) # {}
        BY <1>2, <2>1, <2>2, <2>3 DEF Kept
    <2>5. \A id \in Id : ruled'[id] # NoVerdict =>
            \E c \in CardsOf(file', id) : c.state = "tranched" /\ c.verdict = ruled'[id]
        BY <1>2, <2>1, <2>2 DEF Kept
    <2> QED
        BY <2>4, <2>5 DEF Kept, Lines, CardsOf
<1> QED
    BY <1>5, <1>7, <1>8, <1>9 DEF Sound

LEMMA TruncateSound ==
    ASSUME JournalTypeOK, Sound, NEW p \in Thread, Truncate(p), ~hurt'
    PROVE  Sound'
<1>1. file = call[p].base /\ file' = <<>> /\ torn' = FALSE /\ UNCHANGED <<posted, ruled>>
    BY DEF Truncate
<1>2. \A q \in Thread : /\ call'[q].base = call[q].base /\ call'[q].card = call[q].card
                        /\ call'[q].op = call[q].op
                        /\ q # p => call'[q].pc = call[q].pc
                        /\ call'[p].pc = "write" /\ call[p].pc = "truncate"
    BY CallType DEF Truncate, Call
<1>3. Harmless'
    BY <1>2 DEF Sound, Harmless, Lines, CardsOf
<1>4. Single'
    BY <1>1, <1>2 DEF Sound, Single, Unique
<1>5. ASSUME NEW q \in Thread, OnlyWriter(q)' PROVE Kept(call[q].base)'
    <2>1. q = p /\ Whole
        BY <1>2, <1>5 DEF OnlyWriter, Whole
    <2>2. Kept(call[p].base)
        BY <1>1, <2>1 DEF Sound
    <2> QED
        BY <1>1, <1>2, <2>1, <2>2 DEF Kept, Lines, CardsOf
<1>6. ~Whole'
    BY <1>2 DEF Whole
<1> QED
    BY <1>3, <1>4, <1>5, <1>6 DEF Sound, Carried

\* What is written has what was read, and the edit.
LEMMA EditedKept ==
    ASSUME JournalTypeOK, Prepared, Harmless, NEW p \in Thread, WriteOut(p), Kept(call[p].base), file' = call[p].out
    PROVE  Kept(file)'
<1> DEFINE op == call[p].op
           base == call[p].base
           new == call[p].card
<1>1. /\ op \in {"append", "read", "tranch"} /\ base \in Seq(Card) /\ new \in Card /\ new.id \in Id
      /\ file' = Edited(op, base, new) /\ Lines(base, new.id) # {}
    BY CallType DEF WriteOut, Prepared, Call, Card
<1>2. /\ posted' = IF op = "append" THEN posted \cup {new.id} ELSE posted
      /\ ruled' = IF op = "tranch" THEN [ruled EXCEPT ![new.id] = new.verdict] ELSE ruled
      /\ ruled \in [Id -> Verdict \cup {NoVerdict}]
    BY DEF WriteOut, JournalTypeOK
<1>3. op = "append" => \A c \in CardsOf(base, new.id) : c.state # "tranched"
    BY DEF WriteOut, Harmless
<1>4. Kept(base)
    OBVIOUS
<1> HIDE DEF op, base, new
<1>5. \A id : Lines(file', id) = Lines(base, id)
    <2>1. DOMAIN file' = DOMAIN base /\ \A i \in DOMAIN base : file'[i].id = base[i].id
        <3>1. /\ DOMAIN Edited(op, base, new) = DOMAIN base
              /\ \A i \in DOMAIN base : Edited(op, base, new)[i].id = base[i].id
            BY <1>1, EditedType
        <3> QED
            BY <1>1, <3>1
    <2> QED
        BY <2>1 DEF Lines
<1>6. \A i \in DOMAIN base : file'[i] = IF base[i].id = new.id THEN Edit(op, base[i], new) ELSE base[i]
    BY <1>1 DEF Edited
<1>7. \A id \in posted' : Lines(file', id) # {}
    BY <1>1, <1>2, <1>4, <1>5 DEF Kept
<1>8. ASSUME NEW id \in Id, ruled'[id] # NoVerdict
      PROVE  \E c \in CardsOf(file', id) : c.state = "tranched" /\ c.verdict = ruled'[id]
    <2>1. CASE id # new.id
        <3>1. ruled'[id] = ruled[id]
            BY <1>2, <2>1
        <3>2. PICK i \in Lines(base, id) : base[i].state = "tranched" /\ base[i].verdict = ruled[id]
            BY <1>4, <1>8, <3>1 DEF Kept, CardsOf
        <3>3. i \in Lines(file', id) /\ file'[i] = base[i]
            BY <1>5, <1>6, <2>1 DEF Lines
        <3> QED
            BY <3>1, <3>2, <3>3 DEF CardsOf
    <2>2. CASE id = new.id /\ op = "tranch"
        <3>1. PICK i \in Lines(base, id) : TRUE
            BY <1>1, <2>2
        <3>2. i \in Lines(file', id) /\ file'[i] = Edit(op, base[i], new) /\ base[i] \in Card
            <4>1. i \in DOMAIN base /\ base[i].id = new.id /\ i \in Lines(file', id)
                BY <1>5, <2>2 DEF Lines
            <4>2. base[i] \in Card
                BY <1>1, <4>1
            <4> QED
                BY <1>6, <4>1, <4>2
        <3>3. file'[i].state = "tranched" /\ file'[i].verdict = new.verdict
            BY <2>2, <3>2 DEF Edit, Card
        <3>4. ruled'[id] = new.verdict
            BY <1>2, <2>2
        <3> QED
            BY <3>2, <3>3, <3>4 DEF CardsOf
    <2>3. CASE id = new.id /\ op # "tranch"
        <3>1. ruled'[id] = ruled[id]
            BY <1>2, <2>3
        <3>2. PICK i \in Lines(base, id) : base[i].state = "tranched" /\ base[i].verdict = ruled[id]
            BY <1>4, <1>8, <3>1 DEF Kept, CardsOf
        <3>3. op = "read"
            BY <1>1, <1>3, <2>3, <3>2 DEF CardsOf
        <3>4. i \in Lines(file', id) /\ file'[i] = Edit(op, base[i], new) /\ base[i] \in Card
            <4>1. i \in DOMAIN base /\ base[i].id = new.id /\ i \in Lines(file', id)
                BY <1>5, <2>3 DEF Lines
            <4>2. base[i] \in Card
                BY <1>1, <4>1
            <4> QED
                BY <1>6, <4>1, <4>2
        <3>5. file'[i].state = "tranched" /\ file'[i].verdict = ruled[id]
            BY <3>2, <3>3, <3>4 DEF Edit, Card
        <3> QED
            BY <3>1, <3>4, <3>5 DEF CardsOf
    <2> QED
        BY <2>1, <2>2, <2>3
<1> QED
    BY <1>7, <1>8 DEF Kept, Lines, CardsOf

LEMMA WriteSound ==
    ASSUME JournalTypeOK, Prepared, Sound, NEW p \in Thread, WriteOut(p), ~hurt'
    PROVE  Sound'
<1>1. file = <<>> /\ file' = call[p].out /\ torn' = FALSE /\ call[p].pc = "write"
    BY DEF WriteOut
<1>2. \A q \in Thread : /\ call'[q].pc # "idle" => call'[q] = call[q]
                        /\ q # p => call'[q] = call[q]
                        /\ call'[p].pc = "idle"
    BY CallType DEF WriteOut, Return, Idle
<1>3. /\ call[p].op \in {"append", "read", "tranch"} /\ call[p].base \in Seq(Card) /\ call[p].card \in Card
      /\ file' = Edited(call[p].op, call[p].base, call[p].card) /\ Lines(call[p].base, call[p].card.id) # {}
    BY <1>1, CallType DEF Prepared, Call
<1>4. /\ DOMAIN file' = DOMAIN call[p].base
      /\ \A i \in DOMAIN file' : file'[i].id = call[p].base[i].id
    <2> DEFINE op == call[p].op
               base == call[p].base
               new == call[p].card
    <2>1. op \in {"append", "read", "tranch"} /\ base \in Seq(Card) /\ new \in Card /\ file' = Edited(op, base, new)
        BY <1>3
    <2> HIDE DEF op, base, new
    <2>2. DOMAIN file' = DOMAIN base /\ \A i \in DOMAIN base : file'[i].id = base[i].id
        BY <2>1, EditedType
    <2> QED
        BY <2>2 DEF base
<1>5. Harmless'
    BY <1>2 DEF Sound, Harmless, Lines, CardsOf
<1>6. Unique(file')
    BY <1>1, <1>4 DEF Sound, Single, Unique
<1>7. Single'
    BY <1>1, <1>2, <1>6 DEF Sound, Single, Unique
<1>8. file' # <<>>
    <2>1. DOMAIN file' # {}
        BY <1>3, <1>4 DEF Lines
    <2> QED
        BY <2>1
<1>9. ASSUME Whole' PROVE Kept(file)'
    <2>1. OnlyWriter(p)
        BY <1>1, <1>2, <1>9 DEF Whole, OnlyWriter
    <2>2. Kept(call[p].base)
        BY <1>1, <2>1 DEF Sound, Carried
    <2> QED
        BY <1>1, <2>2, EditedKept DEF Sound
<1> QED
    BY <1>5, <1>7, <1>8, <1>9 DEF Sound, Carried

LEMMA ArchiveSound ==
    ASSUME JournalTypeOK, Sound, NEW id \in Id, Archive(id)
    PROVE  Sound'
<1>1. Whole /\ Kept(file)
    BY DEF Archive, Whole, Sound
<1>2. /\ DOMAIN file' = DOMAIN file
      /\ \A i \in DOMAIN file : /\ file'[i].id = file[i].id
                                /\ file[i].id # id => file'[i] = file[i]
    <2>1. \A i \in DOMAIN file : file[i] \in Card
        BY DEF JournalTypeOK
    <2> QED
        BY <2>1 DEF Archive, Card
<1>3. UNCHANGED <<torn, call, posted>> /\ ruled' = [ruled EXCEPT ![id] = NoVerdict]
      /\ ruled \in [Id -> Verdict \cup {NoVerdict}]
    BY DEF Archive, JournalTypeOK
<1>4. Harmless'
    BY <1>3 DEF Sound, Harmless, Lines, CardsOf
<1>5. Single'
    BY <1>2, <1>3 DEF Sound, Single, Unique
<1>6. Carried'
    BY <1>1, <1>3 DEF Whole, Carried, OnlyWriter
<1>7. \A d : Lines(file', d) = Lines(file, d)
    BY <1>2 DEF Lines
<1>8. \A d \in Id : d # id => CardsOf(file', d) = CardsOf(file, d)
    BY <1>2, <1>7 DEF CardsOf, Lines
<1>9. \A d \in Id : ruled'[d] # NoVerdict =>
        \E c \in CardsOf(file', d) : c.state = "tranched" /\ c.verdict = ruled'[d]
    BY <1>1, <1>3, <1>8 DEF Kept
<1>10. Kept(file)'
    BY <1>1, <1>3, <1>7, <1>9 DEF Kept, Lines, CardsOf
<1> QED
    BY <1>4, <1>5, <1>6, <1>10 DEF Sound

LEMMA NextInv == IInv /\ [JournalNext]_journal => IInv'
<1> SUFFICES ASSUME JournalTypeOK, Prepared, ~hurt => Sound, [JournalNext]_journal, ~hurt' PROVE Sound'
    BY NextTypes DEF IInv
<1>1. ASSUME NEW p \in Thread, NEW id \in Id, NEW title \in Title, Post(p, Posted(id, title))
      PROVE  Sound'
    <2>1. ~hurt
        BY <1>1 DEF Post
    <2> QED
        BY <1>1, <2>1, PostedType, PostSound
<1>2. ASSUME NEW p \in Thread, NEW id \in Id, MarkRead(p, id)
      PROVE  Sound'
    <2>1. Sound /\ call[p].pc # "write" /\ UNCHANGED <<file, torn, posted, ruled>>
        BY <1>2 DEF MarkRead
    <2> DEFINE new == [Idle.card EXCEPT !.id = id]
    <2>2. Read(p, "read", new)
        BY <1>2 DEF MarkRead
    <2> HIDE DEF new
    <2> QED
        BY <2>1, <2>2, ReadSound
<1>3. ASSUME NEW p \in Thread, NEW id \in Id, NEW verdict \in Verdict, Tranch(p, id, verdict)
      PROVE  Sound'
    <2>1. Sound /\ call[p].pc # "write" /\ UNCHANGED <<file, torn, posted, ruled>>
        BY <1>3 DEF Tranch
    <2> DEFINE new == [Idle.card EXCEPT !.id = id, !.verdict = verdict]
    <2>2. Read(p, "tranch", new)
        BY <1>3 DEF Tranch
    <2> HIDE DEF new
    <2> QED
        BY <2>1, <2>2, ReadSound
<1>4. ASSUME NEW p \in Thread, AppendLine(p)
      PROVE  Sound'
    <2>1. ~hurt
        BY <1>4 DEF AppendLine, JournalTypeOK
    <2> QED
        BY <1>4, <2>1, AppendSound
<1>5. ASSUME NEW p \in Thread, Update(p)
      PROVE  Sound'
    <2> DEFINE new == call[p].card
    <2>1. /\ ~hurt /\ CardsOf(file, new.id) = CardsOf(call[p].base, new.id)
          /\ call[p].pc = "update" /\ Read(p, "append", new) /\ UNCHANGED <<file, torn, posted, ruled>>
        BY <1>5 DEF Update, JournalTypeOK
    <2>2. \A c \in CardsOf(file, new.id) : c.state # "tranched"
        BY <2>1 DEF Sound, Harmless, Prepared
    <2> HIDE DEF new
    <2> QED
        BY <2>1, <2>2, ReadSound
<1>6. ASSUME NEW p \in Thread, Truncate(p)
      PROVE  Sound'
    <2>1. ~hurt
        BY <1>6 DEF Truncate, JournalTypeOK
    <2> QED
        BY <1>6, <2>1, TruncateSound
<1>7. ASSUME NEW p \in Thread, WriteOut(p)
      PROVE  Sound'
    <2>1. ~hurt
        BY <1>7 DEF WriteOut, JournalTypeOK
    <2> QED
        BY <1>7, <2>1, WriteSound
<1>8. ASSUME NEW p \in Thread, Fail(p)
      PROVE  Sound'
    <2>1. ~hurt /\ call[p].pc # "write" /\ UNCHANGED <<file, torn, posted, ruled>>
        BY <1>8 DEF Fail, JournalTypeOK
    <2>2. call' = [call EXCEPT ![p] = Idle] /\ Idle.pc = "idle"
        BY <1>8 DEF Fail, Return, Idle
    <2>3. Single' /\ Carried' /\ (Whole' => Kept(file)')
        BY <2>1, <2>2, QuietStep
    <2>4. Harmless'
        BY <2>1, <2>2, CallType DEF Sound, Harmless, Lines, CardsOf
    <2> QED
        BY <2>3, <2>4 DEF Sound
<1>9. ASSUME NEW id \in Id, Archive(id)
      PROVE  Sound'
    <2>1. ~hurt
        BY <1>9 DEF Archive
    <2> QED
        BY <1>9, <2>1, ArchiveSound
<1>10. CASE UNCHANGED journal
    <2>1. ~hurt /\ UNCHANGED <<file, torn, call, posted, ruled>>
        BY <1>10 DEF journal
    <2>2. Harmless' /\ Single' /\ Carried'
        BY <2>1 DEF Sound, Harmless, Single, Unique, Carried, OnlyWriter, Kept, Lines, CardsOf
    <2>3. Whole' => Kept(file)'
        BY <2>1 DEF Sound, Whole, Kept, Lines, CardsOf
    <2> QED
        BY <2>2, <2>3 DEF Sound
<1> QED
    BY <1>1, <1>2, <1>3, <1>4, <1>5, <1>6, <1>7, <1>8, <1>9, <1>10 DEF JournalNext

LEMMA InvHolds == JournalSpec => []IInv
<1>1. JournalInit => IInv
    BY InitTypes, InitSound DEF IInv
<1> QED
    BY <1>1, NextInv, PTL DEF JournalSpec

\* A decision has one card, however often and by whomever it is posted, until
\* a rewrite meets another call (Journal::append: "the board must not grow a
\* duplicate card each time").
THEOREM OneCard == JournalSpec => []OneCardPerId
<1>1. IInv => OneCardPerId
    BY DEF IInv, Sound, Single, Unique, Kept, Lines, OneCardPerId
<1> QED
    BY <1>1, InvHolds, PTL

\* A verdict that a person was told is recorded stays in the file, until a
\* rewrite meets another call (Journal::tranch, and append's Settled).
THEOREM VerdictKept == JournalSpec => []VerdictStands
<1>1. IInv => VerdictStands
    BY DEF IInv, Sound, Kept, VerdictStands
<1> QED
    BY <1>1, InvHolds, PTL

----------------------------------------------------------------------------
\* What holds of 0, and of a number's successor with it, holds of all.
LEMMA Induction ==
    ASSUME NEW P \in SUBSET Nat, 0 \in P, \A n \in P : n + 1 \in P
    PROVE  P = Nat
<1> DEFINE Q == Nat \ P
           R == OpToRel(<, Nat)
<1> SUFFICES ASSUME Q # {} PROVE FALSE
    OBVIOUS
<1>1. \E m \in Q : \A n \in Q : ~ (<<n, m>> \in R)
    BY NatLessThanWellFounded, WFMin
<1>2. PICK m \in Q : \A n \in Q : ~ (<<n, m>> \in R)
    BY <1>1
<1>3. m \in Nat /\ m # 0 /\ m - 1 \in Nat
    OBVIOUS
<1>4. \A n \in Q : ~(n < m)
    BY <1>2 DEF OpToRel
<1>5. m - 1 \in P
    BY <1>3, <1>4
<1>6. (m - 1) + 1 \in P
    BY <1>5, Zenon
<1>7. (m - 1) + 1 = m
    BY <1>3
<1> QED
    BY <1>6, <1>7

\* The values of the recursion from v with the steps G, up to n.
Unfolds(f, v, G, n) == f[0] = v /\ \A k \in 1..n : f[k] = G[k][f[k - 1]]

\* The recursion has values: one step at a time.
LEMMA Recursion ==
    ASSUME NEW V, NEW v \in V, NEW G \in [Nat -> [V -> V]], NEW N \in Nat
    PROVE  \E f \in [0..N -> V] : Unfolds(f, v, G, N)
<1> DEFINE P == {n \in Nat : \E f \in [0..n -> V] : Unfolds(f, v, G, n)}
<1>1. 0 \in P
    <2> DEFINE f == [k \in 0..0 |-> v]
    <2>1. f \in [0..0 -> V] /\ Unfolds(f, v, G, 0)
        BY DEF Unfolds
    <2> QED
        BY <2>1
<1>2. ASSUME NEW n \in P PROVE n + 1 \in P
    <2>1. PICK f \in [0..n -> V] : Unfolds(f, v, G, n)
        BY <1>2
    <2> DEFINE g == [k \in 0..(n + 1) |-> IF k = n + 1 THEN G[k][f[n]] ELSE f[k]]
    <2>2. g \in [0..(n + 1) -> V]
        BY <1>2
    <2>3. g[0] = v
        BY <1>2, <2>1 DEF Unfolds
    <2>4. ASSUME NEW k \in 1..(n + 1) PROVE g[k] = G[k][g[k - 1]]
        <3>1. g[k - 1] = f[k - 1]
            BY <1>2, <2>4
        <3>2. CASE k = n + 1
            BY <1>2, <3>1, <3>2
        <3>3. CASE k # n + 1
            <4>1. k \in 1..n /\ g[k] = f[k]
                BY <1>2, <3>3
            <4> QED
                BY <2>1, <3>1, <4>1 DEF Unfolds
        <3> QED
            BY <3>2, <3>3
    <2>5. \E h \in [0..(n + 1) -> V] : Unfolds(h, v, G, n + 1)
        BY <2>2, <2>3, <2>4 DEF Unfolds
    <2> QED
        BY <1>2, <2>5
<1> HIDE DEF P
<1>3. P \subseteq Nat
    BY DEF P
<1>4. P = Nat
    BY <1>1, <1>2, <1>3, Induction
<1> QED
    BY <1>4 DEF P

\* A recursion has one outcome.
InStep(f, g, N) == f[0] = g[0] /\ \A n \in 1..N : f[n - 1] = g[n - 1] => f[n] = g[n]

LEMMA SameOutcome ==
    ASSUME NEW f, NEW g, NEW N \in Nat, InStep(f, g, N)
    PROVE  f[N] = g[N]
<1> DEFINE P == {n \in Nat : n <= N => f[n] = g[n]}
<1>1. 0 \in P
    BY DEF InStep
<1>2. ASSUME NEW n \in P PROVE n + 1 \in P
    <2> SUFFICES ASSUME n + 1 <= N PROVE f[n + 1] = g[n + 1]
        OBVIOUS
    <2>1. n + 1 \in 1..N /\ (n + 1) - 1 = n /\ f[n] = g[n]
        OBVIOUS
    <2> QED
        BY <2>1 DEF InStep
<1>3. P \in SUBSET Nat
    OBVIOUS
<1> HIDE DEF P
<1>4. P = Nat
    BY <1>1, <1>2, <1>3, Induction
<1> QED
    BY <1>4 DEF P

\* What is not empty has a least element.
LEMMA Least ==
    ASSUME NEW S \in SUBSET Nat, S # {}
    PROVE  \E m \in S : \A n \in S : m <= n
<1> DEFINE R == OpToRel(<, Nat)
<1>1. \E m \in S : \A n \in S : ~ (<<n, m>> \in R)
    BY NatLessThanWellFounded, WFMin
<1>2. PICK m \in S : \A n \in S : ~ (<<n, m>> \in R)
    BY <1>1
<1>3. \A n \in S : ~(n < m)
    BY <1>2 DEF OpToRel
<1> QED
    BY <1>3

\* A position that is left of finitely many.
LEMMA Greatest ==
    ASSUME NEW m \in Nat, NEW S \in SUBSET (1..m), S # {}
    PROVE  Max(S) \in S /\ \A k \in S : k <= Max(S)
<1> DEFINE R == {m - k : k \in S}
<1>1. R \in SUBSET Nat /\ R # {}
    <2>1. \A k \in S : m - k \in Nat
        OBVIOUS
    <2> QED
        BY <2>1
<1>2. PICK x \in R : \A y \in R : x <= y
    BY <1>1, Least
<1>3. PICK g \in S : x = m - g
    BY <1>2
<1>4. ASSUME NEW k \in S PROVE g >= k
    <2>1. m - k \in R /\ k \in Nat /\ g \in Nat
        OBVIOUS
    <2>2. m - g <= m - k
        BY <1>2, <1>3, <2>1
    <2> QED
        BY <2>1, <2>2
<1>5. \E n \in S : \A k \in S : n >= k
    BY <1>4
<1>6. Max(S) \in S /\ \A k \in S : Max(S) >= k
    BY <1>5 DEF Max
<1> QED
    BY <1>6

----------------------------------------------------------------------------

\* Tabs that a daemon may have: told apart by uuid, all given out already,
\* and one of them active.
Numbered(ts, n) ==
    /\ ts \in Seq(Tab) /\ Len(ts) <= n
    /\ \A i \in DOMAIN ts : ts[i].id <= n
Apart(ts) == \A i, j \in DOMAIN ts : ts[i].id = ts[j].id => i = j
Proper(s, m) == s \in Saved /\ s.active \in DOMAIN s.tabs /\ Numbered(s.tabs, m) /\ Apart(s.tabs)

Remembered ==
    /\ Proper(State, born) /\ (disk = None \/ Proper(disk, born))
    /\ \A k \in DOMAIN jobs : Proper(jobs[k], born)
    /\ Numbered(snap, born)
    /\ \A k \in DOMAIN pending.locks : pending.locks[k].id <= born
    /\ \A n \in 1..MaxTabs : n > born => ~said[n]
    /\ born + Len(taken.news) + Len(pending.news) <= MaxTabs

\* What a queue leaves of the i-th tab's lock is on.
Leaves(work, i, on) ==
    IF ChangesOf(work, tabs[i].id) # {} THEN SaysLast(work, tabs[i].id, on) ELSE tabs[i].locked = on

\* The queues end on the locks answered last; those being worked through on
\* the locks at their take, after which only what is queued has changed them.
Ahead ==
    /\ \A n \in 1..MaxTabs : SaysLast(pending, n, said[n])
    /\ owner # "apply" => taken = NoWork
    /\ owner = "apply" =>
        /\ \A i \in DOMAIN tabs : Leaves(taken, i, heard[tabs[i].id])
        /\ \A n \in 1..MaxTabs : ChangesOf(pending, n) = {} => said[n] = heard[n]
TabsInv == TypeOK /\ Remembered /\ LastLockWins /\ Ahead

\* Closing leaves whole tabs, of those that there were.
Remains(s, m) == {x \in Saved : Proper(x, m) /\ \A i \in DOMAIN x.tabs : \E j \in DOMAIN s.tabs : x.tabs[i] = s.tabs[j]}

\* A list without its i-th tab.
LEMMA RestOf ==
    ASSUME NEW ts \in Seq(Tab), NEW i \in 1..Len(ts)
    PROVE  /\ RemoveAt(ts, i) \in Seq(Tab)
           /\ Len(RemoveAt(ts, i)) = Len(ts) - 1
           /\ \A k \in 1..(Len(ts) - 1) : RemoveAt(ts, i)[k] = IF k < i THEN ts[k] ELSE ts[k + 1]
<1> DEFINE a == SubSeq(ts, 1, i - 1)
           c == SubSeq(ts, i + 1, Len(ts))
<1>1. Len(ts) \in Nat /\ i \in Nat /\ i >= 1 /\ i <= Len(ts)
    OBVIOUS
<1>2. a \in Seq(Tab) /\ Len(a) = i - 1 /\ \A k \in 1..(i - 1) : a[k] = ts[k]
    BY <1>1
<1>3. c \in Seq(Tab) /\ Len(c) = Len(ts) - i /\ \A k \in 1..(Len(ts) - i) : c[k] = ts[i + k]
    BY <1>1
<1>4. RemoveAt(ts, i) = a \o c
    BY DEF RemoveAt
<1> HIDE DEF a, c
<1>5. a \o c \in Seq(Tab) /\ Len(a \o c) = Len(ts) - 1
    <2>1. a \o c \in Seq(Tab) /\ Len(a \o c) = Len(a) + Len(c)
        BY <1>2, <1>3, ConcatProperties
    <2>2. Len(a) + Len(c) = Len(ts) - 1
        BY <1>1, <1>2, <1>3
    <2> QED
        BY <2>1, <2>2
<1>6. ASSUME NEW k \in 1..(Len(ts) - 1)
      PROVE  (a \o c)[k] = IF k < i THEN ts[k] ELSE ts[k + 1]
    <2>1. CASE k < i
        <3>1. k \in 1..(i - 1)
            BY <1>1, <2>1
        <3>2. (a \o c)[k] = a[k]
            BY <1>1, <1>2, <1>3, <3>1
        <3> QED
            BY <1>2, <2>1, <3>1, <3>2
    <2>2. CASE ~(k < i)
        <3>1. k - (i - 1) \in 1..(Len(ts) - i) /\ i + (k - (i - 1)) = k + 1 /\ k \in 1..(Len(a) + Len(c))
            BY <1>1, <1>2, <1>3, <2>2
        <3>2. (a \o c)[k] = c[k - Len(a)]
            BY <1>1, <1>2, <1>3, <2>2, <3>1
        <3>3. (a \o c)[k] = c[k - (i - 1)]
            BY <1>2, <3>2
        <3> QED
            BY <1>3, <2>2, <3>1, <3>3
    <2> QED
        BY <2>1, <2>2
<1> QED
    BY <1>4, <1>5, <1>6

\* One close leaves proper tabs.
LEMMA CloseKeeps ==
    ASSUME NEW m \in Nat, NEW s, NEW x \in Remains(s, m), NEW i \in Nat \ {0}
    PROVE  CloseAt(x, i) \in Remains(s, m)
<1>1. CASE ~(i <= Len(x.tabs) /\ Len(x.tabs) > 1)
    BY <1>1 DEF CloseAt
<1>2. CASE i <= Len(x.tabs) /\ Len(x.tabs) > 1
    <2> DEFINE ts == x.tabs
               rest == RemoveAt(ts, i)
               y == CloseAt(x, i)
    <2>1. /\ x \in Saved /\ ts \in Seq(Tab) /\ x.active \in DOMAIN ts /\ Len(ts) <= m
          /\ \A k \in DOMAIN ts : ts[k].id <= m
          /\ \A k, l \in DOMAIN ts : ts[k].id = ts[l].id => k = l
          /\ \A k \in DOMAIN ts : \E j \in DOMAIN s.tabs : ts[k] = s.tabs[j]
        BY DEF Remains, Proper, Numbered, Apart
    <2>2. Len(ts) \in Nat /\ i \in 1..Len(ts) /\ DOMAIN ts = 1..Len(ts)
        BY <1>2, <2>1
    <2>3. /\ rest \in Seq(Tab) /\ Len(rest) = Len(ts) - 1
          /\ \A k \in 1..(Len(ts) - 1) : rest[k] = IF k < i THEN ts[k] ELSE ts[k + 1]
        BY <2>1, <2>2, RestOf
    <2>4. DOMAIN rest = 1..(Len(ts) - 1)
        BY <2>3
    <2>5. y = [tabs |-> rest, active |-> IF x.active > Len(rest) THEN Len(rest)
                                         ELSE IF x.active > i THEN x.active - 1 ELSE x.active]
        BY <1>2 DEF CloseAt
    <2> HIDE DEF rest, y, ts
    <2>6. y.tabs = rest /\ y.active \in 1..Len(rest) /\ y.active <= x.active
        BY <1>2, <2>1, <2>2, <2>3, <2>5 DEF ts
    <2>7. y \in Saved
        <3>1. x.active \in 1..MaxTabs
            BY <2>1 DEF Saved
        <3>2. y.active \in 1..MaxTabs
            BY <2>2, <2>3, <2>6, <3>1, BoundAssumption
        <3>3. y = [tabs |-> y.tabs, active |-> y.active]
            BY <2>5
        <3> QED
            BY <2>3, <2>6, <3>2, <3>3 DEF Saved
    <2>8. \A k \in DOMAIN rest : \E l \in DOMAIN ts : rest[k] = ts[l] /\ l = IF k < i THEN k ELSE k + 1
        BY <2>2, <2>3, <2>4
    <2>9. Apart(rest)
        <3> SUFFICES ASSUME NEW k \in DOMAIN rest, NEW l \in DOMAIN rest, rest[k].id = rest[l].id
                     PROVE  k = l
            BY DEF Apart
        <3>1. (IF k < i THEN k ELSE k + 1) = (IF l < i THEN l ELSE l + 1)
            BY <2>1, <2>8
        <3> QED
            BY <2>2, <2>4, <3>1
    <2>10. Numbered(rest, m)
        BY <2>1, <2>2, <2>3, <2>8 DEF Numbered
    <2>11. \A k \in DOMAIN rest : \E j \in DOMAIN s.tabs : rest[k] = s.tabs[j]
        BY <2>1, <2>8
    <2>12. DOMAIN rest = 1..Len(rest)
        BY <2>3
    <2> QED
        BY <2>6, <2>7, <2>9, <2>10, <2>11, <2>12 DEF Remains, Proper, y
<1> QED
    BY <1>1, <1>2

\* All closes of a drain do, by induction over the positions.
LEMMA ClosedKeeps ==
    ASSUME NEW m \in Nat, NEW s, Proper(s, m)
    PROVE  Closed(s) \in Remains(s, m)
<1> DEFINE V == Remains(s, m)
           n == Len(s.tabs)
           due(k) == \E c \in taken.closes : c.at = n + 1 - k
           G == [k \in Nat |-> [x \in V |-> IF k \in 1..n /\ due(k) THEN CloseAt(x, n + 1 - k) ELSE x]]
           rest(f) == [k \in 0..n |->
                        IF k = 0 THEN s
                        ELSE IF due(k) THEN CloseAt(f[k - 1], n + 1 - k) ELSE f[k - 1]]
           after == CHOOSE f : f = rest(f)
<1>1. Closed(s) = after[n]
    BY DEF Closed
<1>2. n \in Nat
    BY DEF Proper, Numbered
<1>3. s \in V
    BY DEF Remains, Proper
<1>4. G \in [Nat -> [V -> V]]
    <2>1. \A k \in 1..n : n + 1 - k \in Nat \ {0}
        BY <1>2
    <2> HIDE DEF V, n
    <2>2. ASSUME NEW k \in Nat, NEW x \in V
          PROVE  (IF k \in 1..n /\ due(k) THEN CloseAt(x, n + 1 - k) ELSE x) \in V
        BY <2>1, CloseKeeps DEF V
    <2> QED
        BY <2>2
<1> HIDE DEF V, n, due
<1>5. PICK f \in [0..n -> V] : Unfolds(f, s, G, n)
    <2> HIDE DEF G
    <2> QED
        BY <1>2, <1>3, <1>4, Recursion
<1>6. \A k \in 1..n : f[k] = IF due(k) THEN CloseAt(f[k - 1], n + 1 - k) ELSE f[k - 1]
    <2>1. \A k \in 1..n : k \in Nat /\ k - 1 \in 0..n /\ f[k - 1] \in V
        BY <1>2
    <2> QED
        BY <1>5, <2>1 DEF Unfolds
<1> HIDE DEF G
<1>7. f[0] = s
    BY <1>5 DEF Unfolds
<1>8. f = rest(f)
    <2>1. \A k \in 0..n : k = 0 \/ k \in 1..n
        BY <1>2
    <2>2. \A k \in 0..n : f[k] = IF k = 0 THEN s
                                 ELSE IF due(k) THEN CloseAt(f[k - 1], n + 1 - k) ELSE f[k - 1]
        BY <1>6, <1>7, <2>1
    <2>3. f = [k \in 0..n |-> f[k]]
        OBVIOUS
    <2> QED
        BY <2>2, <2>3
<1>9. after = rest(after)
    <2> HIDE DEF rest
    <2> QED
        BY <1>8, Zenon
<1>10. after[n] = f[n]
    <2> HIDE DEF after
    <2>1. after[0] = f[0]
        BY <1>2, <1>7, <1>9
    <2>2. \A k \in 1..n : k - 1 \in 0..n /\ k \in 0..n /\ k # 0
        BY <1>2
    <2>3. \A k \in 1..n : after[k - 1] = f[k - 1] => after[k] = f[k]
        BY <1>6, <1>9, <2>2
    <2>4. InStep(after, f, n)
        BY <2>1, <2>3 DEF InStep
    <2> QED
        BY <1>2, <2>4, SameOutcome
<1>11. f[n] \in V
    BY <1>2, <1>5
<1> QED
    BY <1>1, <1>10, <1>11 DEF V

----------------------------------------------------------------------------
(* What the requests do.                                                   *)

LEMMA TabType == TabsInv => \A i \in DOMAIN tabs : tabs[i] \in Tab /\ tabs[i].id \in 1..MaxTabs
<1> SUFFICES ASSUME TabsInv, NEW i \in DOMAIN tabs PROVE tabs[i] \in Tab
    BY DEF Tab
<1>1. tabs \in Seq(Tab)
    BY DEF TabsInv, TypeOK
<1> QED
    BY <1>1

LEMMA TabsBounds == TabsInv => /\ born \in 1..MaxTabs /\ MaxTabs \in Nat /\ born \in Nat
                           /\ pending \in Work
                           /\ snap \in Seq(Tab) /\ Len(snap) \in 0..MaxTabs
                           /\ \A i \in DOMAIN snap : snap[i].id \in 1..born
<1> SUFFICES ASSUME TabsInv PROVE /\ born \in 1..MaxTabs /\ MaxTabs \in Nat /\ born \in Nat
                           /\ pending \in Work
                           /\ snap \in Seq(Tab) /\ Len(snap) \in 0..MaxTabs
                           /\ \A i \in DOMAIN snap : snap[i].id \in 1..born
    OBVIOUS
<1>1. born \in 1..MaxTabs /\ MaxTabs \in Nat /\ snap \in Seq(Tab) /\ pending \in Work
    BY BoundAssumption DEF TabsInv, TypeOK, Work
<1>2. Len(snap) <= born /\ \A i \in DOMAIN snap : snap[i].id <= born
    BY DEF TabsInv, Remembered, Numbered
<1>3. \A i \in DOMAIN snap : snap[i] \in Tab
    BY <1>1
<1> QED
    BY <1>1, <1>2, <1>3 DEF Tab

\* resolve_tab_idx finds a position of the snapshot, at which the tab is.
LEMMA Resolved ==
    ASSUME TabsInv, NEW n \in 1..MaxTabs, Listed(n)
    PROVE  At(n) \in DOMAIN snap /\ snap[At(n)].id = n /\ At(n) \in 1..MaxTabs /\ n \in 1..born
<1>1. At(n) \in DOMAIN snap /\ snap[At(n)].id = n
    BY DEF Listed, At
<1> QED
    BY <1>1, TabsBounds

\* Handlers that leave the locks alone.
LEMMA RequestKeeps ==
    ASSUME TabsInv, Queue(pending'), UNCHANGED <<snap, said>>,
           pending' \in Work, pending'.locks = pending.locks,
           waiting' \subseteq Creator, born + Len(taken.news) + Len(pending'.news) <= MaxTabs
    PROVE  TabsInv'
<1>1. UNCHANGED <<tabs, active, born, taken, owner, disk, jobs, sent, heard>>
    BY DEF Queue, owned, files
<1>2. TypeOK'
    BY <1>1 DEF TabsInv, TypeOK, Work
<1>3. Remembered'
    BY <1>1 DEF TabsInv, Remembered, State
<1>4. LastLockWins'
    BY <1>1 DEF TabsInv, LastLockWins, ChangesOf, SaysLast
<1>5. Ahead'
    BY <1>1 DEF TabsInv, Ahead, Leaves, ChangesOf, SaysLast
<1> QED
    BY <1>2, <1>3, <1>4, <1>5 DEF TabsInv

\* Closes, activations and input.
LEMMA AskKeeps ==
    ASSUME TabsInv, NEW n \in 1..MaxTabs, AskClose(n) \/ AskActivate(n) \/ AskInput(n)
    PROVE  TabsInv'
<1>1. At(n) \in 1..MaxTabs /\ Place(n) \in Request
    BY Resolved DEF AskClose, AskActivate, AskInput, Place, Request
<1>2. pending \in Work
    BY TabsBounds
<1>3. waiting \subseteq Creator /\ born + Len(taken.news) + Len(pending.news) <= MaxTabs
    BY DEF TabsInv, TypeOK, Remembered
<1>4. CASE AskClose(n)
    <2>1. pending' = [pending EXCEPT !.closes = @ \cup {Place(n)}]
        BY <1>4 DEF AskClose, Queue
    <2>2. pending' \in Work /\ pending'.locks = pending.locks /\ pending'.news = pending.news
        BY <1>1, <1>2, <2>1 DEF Work
    <2> QED
        BY <1>3, <1>4, <2>1, <2>2, RequestKeeps DEF AskClose
<1>5. CASE AskActivate(n)
    <2>1. pending' = [pending EXCEPT !.activate = At(n)]
        BY <1>5 DEF AskActivate, Queue
    <2>2. pending' \in Work /\ pending'.locks = pending.locks /\ pending'.news = pending.news
        BY <1>1, <1>2, <2>1 DEF Work
    <2> QED
        BY <1>3, <1>5, <2>1, <2>2, RequestKeeps DEF AskActivate
<1>6. CASE AskInput(n)
    <2>1. pending' = [pending EXCEPT !.input = Append(@, Place(n))]
        BY <1>6 DEF AskInput, Queue
    <2>2. pending' \in Work /\ pending'.locks = pending.locks /\ pending'.news = pending.news
        <3>1. pending.input \in Seq(Request)
            BY <1>2 DEF Work
        <3>2. Append(pending.input, Place(n)) \in Seq(Request)
            BY <1>1, <3>1
        <3> QED
            BY <1>2, <2>1, <3>2 DEF Work
    <2> QED
        BY <1>3, <1>6, <2>1, <2>2, RequestKeeps DEF AskInput
<1> QED
    BY <1>4, <1>5, <1>6

\* A creation: there are uuids left for all that are queued.
LEMMA AskNewKeeps ==
    ASSUME TabsInv, NEW c \in Creator \cup {NoReply}, AskNew(c)
    PROVE  TabsInv'
<1>1. pending \in Work /\ born \in Nat /\ MaxTabs \in Nat
    BY TabsBounds
<1>2. pending' = [pending EXCEPT !.news = Append(@, c)] /\ Queue(pending')
    BY DEF AskNew, Queue
<1>3. /\ pending.news \in Seq(Creator \cup {NoReply}) /\ Len(taken.news) \in Nat
      /\ born + Len(taken.news) + Len(pending.news) < MaxTabs
    <2>1. taken.news \in Seq(Creator \cup {NoReply})
        BY DEF TabsInv, TypeOK, Work
    <2> QED
        BY <1>1, <2>1 DEF Work, AskNew
<1>4. Append(pending.news, c) \in Seq(Creator \cup {NoReply}) /\ Len(Append(pending.news, c)) = Len(pending.news) + 1
    BY <1>3
<1>5. pending' \in Work /\ pending'.locks = pending.locks /\ pending'.news = Append(pending.news, c)
    BY <1>1, <1>2, <1>4 DEF Work
<1>6. born + Len(taken.news) + Len(pending'.news) <= MaxTabs
    <2> DEFINE before == Len(taken.news)
               queued == Len(pending.news)
    <2>1. queued \in Nat /\ before \in Nat /\ born + before + queued < MaxTabs
        BY <1>3
    <2>2. Len(pending'.news) = queued + 1
        BY <1>4, <1>5
    <2> HIDE DEF before, queued
    <2>3. born + before + (queued + 1) <= MaxTabs
        BY <1>1, <2>1
    <2> QED
        BY <2>2, <2>3 DEF before
<1>7. waiting' \subseteq Creator
    BY DEF AskNew, TabsInv, TypeOK
<1> QED
    BY <1>2, <1>5, <1>6, <1>7, RequestKeeps DEF AskNew

\* A lock that is answered is the last one of its tab.
LEMMA AskLockKeeps ==
    ASSUME TabsInv, NEW n \in 1..MaxTabs, NEW on \in BOOLEAN, AskLock(n, on)
    PROVE  TabsInv'
<1> DEFINE change == [id |-> n, on |-> on]
           locks == pending.locks
           N == Len(locks)
<1>1. At(n) \in DOMAIN snap /\ n \in 1..born /\ pending \in Work /\ born \in Nat /\ snap \in Seq(Tab)
    BY Resolved, TabsBounds DEF AskLock
<1>2. /\ pending' = [pending EXCEPT !.locks = Append(@, change)]
      /\ snap' = [snap EXCEPT ![At(n)].locked = on]
      /\ said' = [said EXCEPT ![n] = on]
      /\ UNCHANGED <<tabs, active, born, taken, owner, disk, jobs, sent, waiting, heard>>
    BY DEF AskLock, Queue, owned, files
<1>3. locks \in Seq([id : 1..MaxTabs, on : BOOLEAN]) /\ change \in [id : 1..MaxTabs, on : BOOLEAN]
    BY <1>1 DEF Work
<1>4. /\ Append(locks, change) \in Seq([id : 1..MaxTabs, on : BOOLEAN])
      /\ N \in Nat /\ DOMAIN Append(locks, change) = 1..(N + 1) /\ DOMAIN locks = 1..N
      /\ Append(locks, change)[N + 1] = change
      /\ \A k \in 1..N : Append(locks, change)[k] = locks[k]
    BY <1>3
<1>5. /\ pending' \in Work /\ pending'.locks = Append(locks, change)
      /\ pending'.news = pending.news
    BY <1>1, <1>2, <1>4 DEF Work
<1>6. /\ snap' \in Seq(Tab) /\ Len(snap') = Len(snap) /\ DOMAIN snap' = DOMAIN snap
      /\ \A i \in DOMAIN snap : snap'[i].id = snap[i].id
    <2>1. snap[At(n)] \in Tab
        BY <1>1
    <2>2. [snap[At(n)] EXCEPT !.locked = on] \in Tab /\ [snap[At(n)] EXCEPT !.locked = on].id = snap[At(n)].id
        BY <2>1 DEF Tab
    <2>3. snap' = [snap EXCEPT ![At(n)] = [snap[At(n)] EXCEPT !.locked = on]]
        BY <1>2
    <2> QED
        BY <1>1, <2>2, <2>3
<1>7. said \in [1..MaxTabs -> BOOLEAN]
    BY DEF TabsInv, TypeOK
<1>8. TypeOK'
    BY <1>2, <1>5, <1>6, <1>7 DEF TabsInv, TypeOK, Work
<1> HIDE DEF locks, N, change
<1>9. Remembered'
    <2>1. Numbered(snap', born)
        BY <1>6 DEF TabsInv, Remembered, Numbered
    <2>2. \A k \in DOMAIN pending'.locks : pending'.locks[k].id <= born
        <3>1. change.id <= born
            BY <1>1 DEF change
        <3>2. \A k \in 1..N : locks[k].id <= born
            BY <1>4 DEF TabsInv, Remembered, locks
        <3>3. \A k \in 1..(N + 1) : k = N + 1 \/ k \in 1..N
            BY <1>4
        <3> QED
            BY <1>4, <1>5, <3>1, <3>2, <3>3
    <2>3. \A k \in 1..MaxTabs : k > born => ~said'[k]
        BY <1>1, <1>2, <1>7 DEF TabsInv, Remembered
    <2> QED
        BY <1>2, <1>5, <2>1, <2>2, <2>3 DEF TabsInv, Remembered, State
<1>10. ASSUME NEW m \in 1..MaxTabs
       PROVE  /\ m = n => ChangesOf(pending, m)' # {} /\ SaysLast(pending, m, said[m])'
              /\ m # n => /\ ChangesOf(pending, m)' = ChangesOf(pending, m) /\ said'[m] = said[m]
                           /\ SaysLast(pending, m, said[m])' = SaysLast(pending, m, said[m])
    <2>1. ChangesOf(pending, m)' = {k \in 1..(N + 1) : pending'.locks[k].id = m}
        BY <1>4, <1>5 DEF ChangesOf
    <2>2. ChangesOf(pending, m) = {k \in 1..N : locks[k].id = m}
        BY <1>4 DEF ChangesOf, locks
    <2>3. CASE m = n
        <3>1. N + 1 \in ChangesOf(pending, m)' /\ said'[m] = on /\ pending'.locks[N + 1].on = on
            <4>1. pending'.locks[N + 1].id = n /\ pending'.locks[N + 1].on = on
                BY <1>4, <1>5 DEF change
            <4>2. N + 1 \in 1..(N + 1)
                BY <1>4
            <4>3. said'[n] = on
                BY <1>2, <1>7
            <4> QED
                BY <2>1, <2>3, <4>1, <4>2, <4>3
        <3>2. \A k \in ChangesOf(pending, m)' : N + 1 <= k => k = N + 1
            BY <1>4, <2>1
        <3> QED
            BY <2>3, <3>1, <3>2 DEF SaysLast
    <2>4. CASE m # n
        <3>1. ChangesOf(pending, m)' = ChangesOf(pending, m)
            <4>1. \A k \in 1..(N + 1) : k = N + 1 \/ k \in 1..N
                BY <1>4
            <4>2. 1..N \subseteq 1..(N + 1)
                BY <1>4
            <4> QED
                BY <1>4, <1>5, <2>1, <2>2, <2>4, <4>1, <4>2 DEF change
        <3>2. said'[m] = said[m] /\ \A k \in ChangesOf(pending, m) : pending'.locks[k] = pending.locks[k]
            BY <1>2, <1>4, <1>5, <1>7, <2>2, <2>4 DEF locks
        <3> QED
            BY <2>4, <3>1, <3>2 DEF SaysLast
    <2> QED
        BY <2>3, <2>4
<1>11. \A m : ChangesOf(taken, m)' = ChangesOf(taken, m)
    BY <1>2 DEF ChangesOf
<1>12. LastLockWins'
    <2> SUFFICES ASSUME NEW i \in DOMAIN tabs, NEW m, m = tabs[i].id
                 PROVE  IF ChangesOf(pending, m)' # {} THEN SaysLast(pending, m, said[m])'
                        ELSE IF ChangesOf(taken, m)' # {} THEN SaysLast(taken, m, said[m])'
                        ELSE tabs[i].locked = said'[m]
        BY <1>2 DEF LastLockWins
    <2>1. m \in 1..MaxTabs
        BY TabType
    <2>2. IF ChangesOf(pending, m) # {} THEN SaysLast(pending, m, said[m])
          ELSE IF ChangesOf(taken, m) # {} THEN SaysLast(taken, m, said[m])
          ELSE tabs[i].locked = said[m]
        BY DEF TabsInv, LastLockWins
    <2>3. CASE m = n
        BY <1>10, <2>1, <2>3
    <2>4. CASE m # n
        <3>1. SaysLast(taken, m, said[m])' = SaysLast(taken, m, said[m])
            BY <1>2, <1>10, <1>11, <2>1, <2>4 DEF SaysLast
        <3> QED
            BY <1>10, <1>11, <2>1, <2>2, <2>4, <3>1
    <2> QED
        BY <2>3, <2>4
<1>13. Ahead'
    <2>1. \A m \in 1..MaxTabs : SaysLast(pending, m, said[m])'
        BY <1>10 DEF TabsInv, Ahead
    <2>2. \A m \in 1..MaxTabs : ChangesOf(pending, m)' = {} => ChangesOf(pending, m) = {} /\ said'[m] = said[m]
        BY <1>10
    <2>3. owner = "apply" => \A i \in DOMAIN tabs : Leaves(taken, i, heard[tabs[i].id])'
        BY <1>2 DEF TabsInv, Ahead, Leaves, ChangesOf, SaysLast
    <2> QED
        BY <1>2, <2>1, <2>2, <2>3 DEF TabsInv, Ahead
<1> QED
    BY <1>8, <1>9, <1>12, <1>13 DEF TabsInv

----------------------------------------------------------------------------
(* What the drain makes of the tabs.                                       *)

\* The locks are those that had been answered when the queues were taken.
LEMMA LockedAsHeard ==
    ASSUME TabsInv, owner = "apply"
    PROVE  /\ Locked(tabs) \in Seq(Tab) /\ Len(Locked(tabs)) = Len(tabs)
           /\ \A i \in DOMAIN tabs : /\ Locked(tabs)[i].id = tabs[i].id
                                     /\ Locked(tabs)[i].locked = heard[tabs[i].id]
<1> DEFINE ts == Locked(tabs)
           n == Len(tabs)
<1>1. tabs \in Seq(Tab) /\ n \in Nat /\ DOMAIN tabs = 1..n
    BY DEF TabsInv, TypeOK
<1>2. heard \in [1..MaxTabs -> BOOLEAN]
    BY DEF TabsInv, TypeOK
<1>3. taken.locks \in Seq([id : 1..MaxTabs, on : BOOLEAN])
    BY DEF TabsInv, TypeOK, Work
<1>4. DOMAIN taken.locks = 1..Len(taken.locks) /\ Len(taken.locks) \in Nat
    BY <1>3
<1>5. ts = [i \in 1..n |->
            LET mine == ChangesOf(taken, tabs[i].id)
            IN  IF mine = {} THEN tabs[i] ELSE [tabs[i] EXCEPT !.locked = taken.locks[Max(mine)].on]]
    BY <1>1 DEF Locked
<1> HIDE DEF ts, n
<1>6. ASSUME NEW i \in 1..n
      PROVE  ts[i] \in Tab /\ ts[i].id = tabs[i].id /\ ts[i].locked = heard[tabs[i].id]
    <2> DEFINE id == tabs[i].id
               mine == ChangesOf(taken, id)
    <2>1. tabs[i] \in Tab /\ id \in 1..MaxTabs
        BY <1>1, TabType
    <2>2. ts[i] = IF mine = {} THEN tabs[i] ELSE [tabs[i] EXCEPT !.locked = taken.locks[Max(mine)].on]
        BY <1>5
    <2>3. /\ mine = {} => tabs[i].locked = heard[id]
          /\ \A k \in mine : (\A l \in mine : l <= k) => taken.locks[k].on = heard[id]
        BY <1>1 DEF TabsInv, Ahead, Leaves, SaysLast
    <2>4. mine \in SUBSET (1..Len(taken.locks))
        BY <1>4 DEF ChangesOf
    <2> HIDE DEF mine, id
    <2>5. CASE mine = {}
        BY <2>1, <2>2, <2>3, <2>5 DEF id
    <2>6. CASE mine # {}
        <3>1. Max(mine) \in mine /\ \A l \in mine : l <= Max(mine)
            BY <1>4, <2>4, <2>6, Greatest
        <3>2. taken.locks[Max(mine)].on = heard[id] /\ heard[id] \in BOOLEAN
            BY <1>2, <2>1, <2>3, <3>1
        <3>3. ts[i] = [tabs[i] EXCEPT !.locked = heard[id]]
            BY <2>2, <2>6, <3>2
        <3> QED
            BY <2>1, <3>2, <3>3 DEF Tab, id
    <2> QED
        BY <2>5, <2>6
<1>7. ts \in [1..n -> Tab]
    BY <1>5, <1>6
<1>8. ts \in Seq(Tab) /\ Len(ts) = n
    BY <1>1, <1>7, SeqDef, LenProperties
<1> QED
    BY <1>1, <1>6, <1>8 DEF ts, n

\* The tabs, once what was taken has been worked through.
Drained == Activated(Closed([tabs |-> Locked(tabs), active |-> active]))

\* What the requests leave has every lock as it was answered before.
LEMMA DrainedTabs ==
    ASSUME TabsInv, owner = "apply"
    PROVE  /\ Proper(Drained, born)
           /\ \A i \in DOMAIN Drained.tabs : Drained.tabs[i].locked = heard[Drained.tabs[i].id]
<1> DEFINE s == [tabs |-> Locked(tabs), active |-> active]
           c == Closed(s)
<1>1. /\ s.tabs \in Seq(Tab) /\ Len(s.tabs) = Len(tabs)
      /\ \A i \in DOMAIN tabs : s.tabs[i].id = tabs[i].id /\ s.tabs[i].locked = heard[tabs[i].id]
    BY LockedAsHeard
<1>2. /\ Proper(State, born) /\ born \in Nat /\ tabs \in Seq(Tab) /\ taken \in Work
    BY TabsBounds DEF TabsInv, TypeOK, Remembered
<1>3. DOMAIN s.tabs = DOMAIN tabs
    BY <1>1, <1>2
<1>4. Proper(s, born)
    <2>1. active \in DOMAIN tabs /\ active \in 1..MaxTabs /\ Numbered(tabs, born) /\ Apart(tabs)
        BY <1>2 DEF Proper, State, Saved
    <2>2. s \in Saved
        BY <1>1, <2>1 DEF Saved
    <2>3. Numbered(s.tabs, born) /\ Apart(s.tabs)
        BY <1>1, <1>3, <2>1 DEF Numbered, Apart
    <2> QED
        BY <1>3, <2>1, <2>2, <2>3 DEF Proper
<1> HIDE DEF s
<1>5. c \in Remains(s, born)
    BY <1>2, <1>4, ClosedKeeps
<1> HIDE DEF c
<1>6. Proper(c, born) /\ \A i \in DOMAIN c.tabs : \E j \in DOMAIN s.tabs : c.tabs[i] = s.tabs[j]
    BY <1>5 DEF Remains
<1>7. \A i \in DOMAIN c.tabs : c.tabs[i].locked = heard[c.tabs[i].id]
    BY <1>1, <1>3, <1>6
<1>8. Drained.tabs = c.tabs /\ Proper(Drained, born)
    <2>1. Drained = Activated(c)
        BY DEF Drained, c, s
    <2>2. CASE taken.activate # None /\ taken.activate <= Len(c.tabs)
        <3>1. Drained = [c EXCEPT !.active = taken.activate]
            BY <2>1, <2>2 DEF Activated
        <3>2. taken.activate \in 1..MaxTabs
            BY <1>2, <2>2 DEF Work
        <3>3. c \in Saved /\ c.tabs \in Seq(Tab)
            BY <1>6 DEF Proper, Saved
        <3>4. Drained \in Saved /\ Drained.tabs = c.tabs /\ Drained.active = taken.activate
            BY <3>1, <3>2, <3>3 DEF Saved
        <3>5. taken.activate \in DOMAIN c.tabs
            BY <2>2, <3>2, <3>3
        <3> QED
            BY <1>6, <3>4, <3>5 DEF Proper
    <2>3. CASE ~(taken.activate # None /\ taken.activate <= Len(c.tabs))
        BY <1>6, <2>1, <2>3 DEF Activated
    <2> QED
        BY <2>2, <2>3
<1> QED
    BY <1>7, <1>8

\* Tabs that are new come after the others, under uuids that are new.
Followed(ts, m, n) == ts \o [i \in 1..n |-> Fresh(m + i)]

LEMMA FreshTabs ==
    ASSUME NEW m \in Nat, NEW n \in Nat, m + n <= MaxTabs, NEW ts, Numbered(ts, m), Apart(ts)
    PROVE  /\ Numbered(Followed(ts, m, n), m + n) /\ Apart(Followed(ts, m, n))
           /\ \A i \in DOMAIN Followed(ts, m, n) :
                \/ i \in DOMAIN ts /\ Followed(ts, m, n)[i] = ts[i]
                \/ \E k \in 1..n : Followed(ts, m, n)[i] = Fresh(m + k)
           /\ DOMAIN ts \subseteq DOMAIN Followed(ts, m, n)
<1> DEFINE new == [i \in 1..n |-> Fresh(m + i)]
           all == ts \o new
           N == Len(ts)
<1>1. ts \in Seq(Tab) /\ N \in Nat /\ N <= m /\ DOMAIN ts = 1..N /\ \A i \in 1..N : ts[i].id <= m /\ ts[i] \in Tab
    BY DEF Numbered
<1>2. new \in [1..n -> Tab]
    <2>1. \A i \in 1..n : Fresh(m + i) \in Tab
        BY BoundAssumption DEF Fresh, Tab
    <2> QED
        BY <2>1
<1>4. \A k \in 1..n : new[k].id = m + k
    BY DEF Fresh
<1> HIDE DEF new
<1>3. new \in Seq(Tab) /\ Len(new) = n
    <2>1. new \in Seq(Tab) /\ DOMAIN new = 1..n
        BY <1>2, SeqDef
    <2> QED
        BY <2>1, LenProperties
<1>5. all \in Seq(Tab) /\ Len(all) = N + n /\ DOMAIN all = 1..(N + n)
    <2>1. all \in Seq(Tab) /\ Len(all) = N + n
        BY <1>1, <1>3, ConcatProperties
    <2> HIDE DEF all
    <2> QED
        BY <2>1, LenProperties
<1>6. \A i \in 1..(N + n) : all[i] = IF i <= N THEN ts[i] ELSE new[i - N]
    BY <1>1, <1>3, ConcatProperties
<1> HIDE DEF all, N
<1>7. \A i \in 1..N : i \in 1..(N + n) /\ all[i] = ts[i]
    BY <1>1, <1>6
<1>8. \A i \in 1..(N + n) : i \in 1..N \/ (i - N \in 1..n /\ all[i] = new[i - N] /\ all[i].id = m + (i - N))
    BY <1>1, <1>4, <1>6
<1>9. Numbered(all, m + n)
    <2>1. \A i \in 1..N : ts[i].id \in Nat
        BY <1>1, BoundAssumption DEF Tab
    <2>2. \A i \in 1..(N + n) : all[i].id <= m + n
        BY <1>1, <1>7, <1>8, <2>1
    <2> QED
        BY <1>1, <1>5, <2>2 DEF Numbered
<1>10. Apart(all)
    <2> SUFFICES ASSUME NEW i \in 1..(N + n), NEW j \in 1..(N + n), all[i].id = all[j].id PROVE i = j
        BY <1>5 DEF Apart
    <2>1. \A k \in 1..N : ts[k].id \in Nat
        BY <1>1, BoundAssumption DEF Tab
    <2>2. CASE i \in 1..N /\ j \in 1..N
        BY <1>1, <1>7, <2>2 DEF Apart
    <2>3. CASE i \in 1..N /\ j \notin 1..N
        <3>1. all[i].id <= m /\ all[j].id = m + (j - N) /\ j - N \in 1..n
            BY <1>1, <1>7, <1>8, <2>3
        <3> QED
            BY <2>1, <3>1
    <2>4. CASE i \notin 1..N /\ j \in 1..N
        <3>1. all[j].id <= m /\ all[i].id = m + (i - N) /\ i - N \in 1..n
            BY <1>1, <1>7, <1>8, <2>4
        <3> QED
            BY <2>1, <3>1
    <2>5. CASE i \notin 1..N /\ j \notin 1..N
        BY <1>1, <1>8, <2>5
    <2> QED
        BY <2>2, <2>3, <2>4, <2>5
<1>11. \A i \in 1..(N + n) : (i \in 1..N /\ all[i] = ts[i]) \/ \E k \in 1..n : all[i] = Fresh(m + k)
    BY <1>7, <1>8 DEF new
<1>12. 1..N \subseteq 1..(N + n)
    BY <1>7
<1>13. all = Followed(ts, m, n)
    BY DEF all, new, Followed
<1> QED
    BY <1>1, <1>5, <1>9, <1>10, <1>11, <1>12, <1>13

----------------------------------------------------------------------------
(* The steps of the loop, of the writer and of restarts.                   *)

\* More uuids may be given out.
LEMMA NumberedGrows ==
    ASSUME NEW m \in Nat, NEW n \in Nat, m <= n, NEW ts, Numbered(ts, m)
    PROVE  Numbered(ts, n)
<1>1. ts \in Seq(Tab) /\ Len(ts) <= m /\ Len(ts) \in Nat
    BY DEF Numbered
<1>2. \A i \in DOMAIN ts : ts[i] \in Tab /\ ts[i].id <= m
    BY <1>1 DEF Numbered
<1>3. \A i \in DOMAIN ts : ts[i].id \in Nat
    BY <1>2, BoundAssumption DEF Tab
<1> QED
    BY <1>1, <1>2, <1>3 DEF Numbered

LEMMA ProperGrows ==
    ASSUME NEW m \in Nat, NEW n \in Nat, m <= n, NEW s, Proper(s, m)
    PROVE  Proper(s, n)
BY NumberedGrows DEF Proper

LEMMA NoWorkType == NoWork \in Work /\ NoWork.locks = <<>> /\ NoWork.news = <<>>
<1>1. \A S : <<>> \in Seq(S)
    OBVIOUS
<1> QED
    BY <1>1 DEF NoWork, Work

LEMMA NothingSaid == \A n : ChangesOf(NoWork, n) = {}
BY NoWorkType DEF ChangesOf

\* What the tabs and the types of the rest make of the invariant, once
\* nothing taken is left.
LEMMA NothingTaken ==
    ASSUME taken' = NoWork, born' \in 1..MaxTabs, born' \in Nat,
           pending' \in Work, \A k \in DOMAIN pending'.locks : pending'.locks[k].id <= born',
           born' + Len(pending'.news) <= MaxTabs, Len(pending'.news) \in Nat,
           Proper(State', born'), disk' = None \/ Proper(disk', born'), sent' \in Saved \cup {None},
           jobs' \in Seq(Saved), \A k \in DOMAIN jobs' : Proper(jobs'[k], born'),
           Numbered(snap', born'), waiting' \subseteq Creator,
           owner' \in {"drain", "refresh", "persist", "stopped"},
           said' \in [1..MaxTabs -> BOOLEAN], heard' \in [1..MaxTabs -> BOOLEAN],
           \A n \in 1..MaxTabs : n > born' => ~said'[n],
           \A n \in 1..MaxTabs : SaysLast(pending, n, said[n])',
           \A i \in DOMAIN tabs' : tabs'[i].id \in 1..MaxTabs,
           \A i \in DOMAIN tabs' : ChangesOf(pending, tabs[i].id)' = {} => tabs'[i].locked = said'[tabs'[i].id]
    PROVE  TabsInv'
<1>1. taken' \in Work /\ taken'.news = <<>> /\ ChangesOf(NoWork, 1) = {}
    BY NoWorkType, NothingSaid
<1>2. tabs' \in Seq(Tab) /\ active' \in DOMAIN tabs' /\ Apart(tabs') /\ snap' \in Seq(Tab)
    BY DEF Proper, State, Saved, Numbered
<1>3. disk' \in Saved \cup {None}
    BY DEF Proper
<1>4. TypeOK'
    BY <1>1, <1>2, <1>3 DEF TypeOK, Apart
<1>5. born' + Len(taken'.news) + Len(pending'.news) <= MaxTabs
    <2>1. Len(taken'.news) = 0 /\ MaxTabs \in Nat
        BY <1>1, BoundAssumption
    <2> QED
        BY <2>1
<1>6. Remembered'
    BY <1>5 DEF Remembered
<1>7. DOMAIN taken'.locks = {}
    BY NoWorkType
<1>8. LastLockWins'
    <2> SUFFICES ASSUME NEW i \in DOMAIN tabs'
                 PROVE  (LET n == tabs[i].id
                         IN  IF ChangesOf(pending, n) # {} THEN SaysLast(pending, n, said[n])
                             ELSE IF ChangesOf(taken, n) # {} THEN SaysLast(taken, n, said[n])
                             ELSE tabs[i].locked = said[n])'
        BY DEF LastLockWins
    <2>1. tabs'[i].id \in 1..MaxTabs
        OBVIOUS
    <2>2. SaysLast(pending, tabs[i].id, said[tabs[i].id])'
        BY <2>1 DEF SaysLast, ChangesOf
    <2>3. ChangesOf(taken, tabs[i].id)' = {}
        BY <1>7 DEF ChangesOf
    <2>4. ChangesOf(pending, tabs[i].id)' = {} => tabs'[i].locked = said'[tabs'[i].id]
        OBVIOUS
    <2> QED
        BY <2>2, <2>3, <2>4
<1>9. Ahead'
    BY DEF Ahead
<1> QED
    BY <1>4, <1>6, <1>8, <1>9 DEF TabsInv

\* The parts of the invariant.
LEMMA Parts ==
    ASSUME TabsInv
    PROVE  /\ Proper(State, born) /\ (disk = None \/ Proper(disk, born)) /\ sent \in Saved \cup {None}
           /\ jobs \in Seq(Saved) /\ \A k \in DOMAIN jobs : Proper(jobs[k], born)
           /\ Numbered(snap, born) /\ waiting \subseteq Creator
           /\ said \in [1..MaxTabs -> BOOLEAN] /\ \A n \in 1..MaxTabs : n > born => ~said[n]
           /\ heard \in [1..MaxTabs -> BOOLEAN]
           /\ owner \in {"drain", "apply", "refresh", "persist", "stopped"}
           /\ born \in 1..MaxTabs /\ born \in Nat /\ MaxTabs \in Nat
           /\ pending \in Work /\ Len(pending.news) \in Nat /\ taken \in Work /\ Len(taken.news) \in Nat
           /\ born + Len(taken.news) + Len(pending.news) <= MaxTabs
<1>1. /\ pending \in Work /\ Len(pending.news) \in Nat
      /\ taken \in Work /\ Len(taken.news) \in Nat
    <2>1. pending \in Work /\ taken \in Work
        BY DEF TabsInv, TypeOK
    <2>2. pending.news \in Seq(Creator \cup {NoReply}) /\ taken.news \in Seq(Creator \cup {NoReply})
        BY <2>1 DEF Work
    <2> QED
        BY <2>1, <2>2
<1> QED
    BY <1>1, TabsBounds DEF TabsInv, TypeOK, Remembered

\* What is taken ends on the locks that had been answered.
LEMMA TakeKeeps ==
    ASSUME TabsInv, Take
    PROVE  TabsInv'
<1>1. /\ owner = "drain" /\ taken = NoWork /\ taken' = pending /\ pending' = NoWork /\ heard' = said
      /\ owner' = "apply" /\ UNCHANGED <<tabs, active, born, snap, waiting, disk, jobs, sent, said>>
    BY DEF Take, TabsInv, Ahead, owned, files
<1>2. TypeOK'
    BY <1>1, NoWorkType DEF TabsInv, TypeOK
<1>3. Remembered'
    <2>1. Len(NoWork.news) = 0 /\ DOMAIN NoWork.locks = {}
        BY NoWorkType
    <2>2. born' + Len(taken'.news) + Len(pending'.news) <= MaxTabs
        BY <1>1, <2>1, Parts
    <2> QED
        BY <1>1, <2>1, <2>2 DEF TabsInv, Remembered, State
<1>4. \A n : ChangesOf(pending, n)' = {} /\ ChangesOf(taken, n)' = ChangesOf(pending, n) /\ ChangesOf(taken, n) = {}
    BY <1>1, NoWorkType DEF ChangesOf
<1>5. \A n, on : SaysLast(taken', n, on) <=> SaysLast(pending, n, on)
    BY <1>1, <1>4 DEF SaysLast
<1>6. \A i \in DOMAIN tabs : IF ChangesOf(pending, tabs[i].id) # {}
                             THEN SaysLast(pending, tabs[i].id, said[tabs[i].id])
                             ELSE tabs[i].locked = said[tabs[i].id]
    BY <1>4 DEF TabsInv, LastLockWins
<1>7. LastLockWins'
    BY <1>1, <1>4, <1>5, <1>6 DEF LastLockWins
<1>8. Ahead'
    <2>1. \A n \in 1..MaxTabs : SaysLast(pending, n, said[n])'
        BY <1>4 DEF SaysLast
    <2>2. \A i \in DOMAIN tabs' : Leaves(taken, i, heard[tabs[i].id])'
        BY <1>1, <1>4, <1>5, <1>6 DEF Leaves
    <2> QED
        BY <1>1, <2>1, <2>2 DEF Ahead
<1> QED
    BY <1>2, <1>3, <1>7, <1>8 DEF TabsInv

\* The drain, with as many of the new tabs as could be spawned.
LEMMA ApplyKeeps ==
    ASSUME TabsInv, Apply
    PROVE  TabsInv'
<1>1. /\ Proper(Drained, born)
      /\ \A i \in DOMAIN Drained.tabs : Drained.tabs[i].locked = heard[Drained.tabs[i].id]
    BY DrainedTabs DEF Apply
<1>2. PICK n \in 0..Len(taken.news) :
        /\ tabs' = Followed(Drained.tabs, born, n)
        /\ born' = born + n
        /\ waiting' = waiting \ Answered(n)
    BY DEF Apply, Drained, Followed
<1>3. /\ active' = Drained.active /\ taken' = NoWork /\ owner' = "refresh" /\ heard' = NoLocks
      /\ owner = "apply" /\ UNCHANGED <<snap, pending, disk, jobs, sent, said>>
    BY DEF Apply, Drained, files
<1>4. /\ n \in Nat /\ born + n <= MaxTabs /\ born' \in 1..MaxTabs /\ born' \in Nat /\ born <= born'
      /\ born' + Len(pending.news) <= MaxTabs
    <2>1. /\ Len(taken.news) \in Nat /\ Len(pending.news) \in Nat
          /\ born + Len(taken.news) + Len(pending.news) <= MaxTabs /\ born \in 1..MaxTabs /\ MaxTabs \in Nat
        BY Parts
    <2> DEFINE queued == Len(taken.news)
               after == Len(pending.news)
    <2>2. n \in Nat /\ n <= queued
        BY <2>1
    <2>3. born' = born + n
        BY <1>2
    <2> HIDE DEF queued, after
    <2>4. queued \in Nat /\ after \in Nat /\ born + queued + after <= MaxTabs
        BY <2>1 DEF queued, after
    <2>5. born \in Nat /\ 1 <= born /\ MaxTabs \in Nat
        BY <2>1
    <2>6. born + n <= born + queued /\ born + n <= MaxTabs /\ born + n + after <= MaxTabs
        BY <2>2, <2>4, <2>5
    <2>7. born + n \in 1..MaxTabs /\ born <= born + n
        BY <2>2, <2>5, <2>6
    <2>8. born' \in 1..MaxTabs /\ born' \in Nat /\ born <= born'
        BY <2>2, <2>3, <2>5, <2>7
    <2>9. born' + after <= MaxTabs
        BY <2>3, <2>6
    <2> QED
        BY <2>2, <2>6, <2>8, <2>9 DEF after
<1>5. Drained \in Saved /\ Drained.active \in DOMAIN Drained.tabs /\ Numbered(Drained.tabs, born) /\ Apart(Drained.tabs)
    BY <1>1 DEF Proper
<1>6. /\ Numbered(tabs', born') /\ Apart(tabs')
      /\ \A i \in DOMAIN tabs' : \/ i \in DOMAIN Drained.tabs /\ tabs'[i] = Drained.tabs[i]
                                 \/ \E k \in 1..n : tabs'[i] = Fresh(born + k)
      /\ DOMAIN Drained.tabs \subseteq DOMAIN tabs'
    <2> DEFINE ts == Drained.tabs
    <2>1. born \in Nat /\ n \in Nat /\ born + n <= MaxTabs /\ Numbered(ts, born) /\ Apart(ts)
        BY <1>4, <1>5, Parts
    <2> HIDE DEF ts
    <2>2. /\ Numbered(Followed(ts, born, n), born + n) /\ Apart(Followed(ts, born, n))
          /\ \A i \in DOMAIN Followed(ts, born, n) :
                \/ i \in DOMAIN ts /\ Followed(ts, born, n)[i] = ts[i]
                \/ \E k \in 1..n : Followed(ts, born, n)[i] = Fresh(born + k)
          /\ DOMAIN ts \subseteq DOMAIN Followed(ts, born, n)
        BY <2>1, FreshTabs, Zenon
    <2>3. tabs' = Followed(ts, born, n) /\ born' = born + n
        BY <1>2 DEF ts
    <2> QED
        BY <2>2, <2>3, Zenon DEF ts
<1>7. Proper(State', born')
    <2>1. active' \in 1..MaxTabs /\ tabs' \in Seq(Tab)
        BY <1>3, <1>5, <1>6 DEF Saved, Numbered
    <2>2. State' \in Saved /\ State'.tabs = tabs' /\ State'.active = active'
        BY <2>1 DEF State, Saved
    <2> QED
        BY <1>3, <1>5, <1>6, <2>2 DEF Proper
<1>8. \A s : Proper(s, born) => Proper(s, born')
    BY <1>4, Parts, ProperGrows
<1>9. Numbered(snap', born')
    BY <1>3, <1>4, Parts, NumberedGrows
<1>10. \A i \in DOMAIN tabs' : /\ tabs'[i].id \in 1..MaxTabs
                               /\ ChangesOf(pending, tabs[i].id)' = {} => tabs'[i].locked = said'[tabs'[i].id]
    <2> SUFFICES ASSUME NEW i \in DOMAIN tabs'
                 PROVE  /\ tabs'[i].id \in 1..MaxTabs
                        /\ ChangesOf(pending, tabs'[i].id) = {} => tabs'[i].locked = said[tabs'[i].id]
        BY <1>3 DEF ChangesOf
    <2>1. tabs'[i].id \in 1..MaxTabs
        <3>1. tabs' \in Seq(Tab)
            BY <1>6 DEF Numbered
        <3>2. tabs'[i] \in Tab
            BY <3>1
        <3> QED
            BY <3>2 DEF Tab
    <2>2. CASE i \in DOMAIN Drained.tabs /\ tabs'[i] = Drained.tabs[i]
        <3>1. tabs'[i].locked = heard[tabs'[i].id]
            BY <1>1, <2>2
        <3>2. ChangesOf(pending, tabs'[i].id) = {} => said[tabs'[i].id] = heard[tabs'[i].id]
            BY <1>3, <2>1 DEF TabsInv, Ahead
        <3> QED
            BY <2>1, <3>1, <3>2
    <2>3. ASSUME NEW k \in 1..n, tabs'[i] = Fresh(born + k) PROVE tabs'[i].locked = said[tabs'[i].id]
        <3>1. born + k \in 1..MaxTabs /\ born + k > born
            BY <1>4, Parts
        <3>2. ~said[born + k] /\ said[born + k] \in BOOLEAN
            BY <3>1, Parts
        <3>3. tabs'[i].locked = FALSE /\ tabs'[i].id = born + k
            BY <2>3 DEF Fresh
        <3> QED
            BY <3>2, <3>3
    <2> QED
        BY <1>6, <2>1, <2>2, <2>3
<1>11. \A m \in 1..MaxTabs : m > born' => ~said'[m]
    BY <1>3, <1>4, Parts
<1>12. disk' = None \/ Proper(disk', born')
    BY <1>3, <1>8, Parts
<1>13. jobs' \in Seq(Saved) /\ \A k \in DOMAIN jobs' : Proper(jobs'[k], born')
    BY <1>3, <1>8, Parts
<1>14. waiting' \subseteq Creator /\ owner' \in {"drain", "refresh", "persist", "stopped"}
    BY <1>2, <1>3, Parts
<1>15. sent' \in Saved \cup {None} /\ said' \in [1..MaxTabs -> BOOLEAN] /\ heard' \in [1..MaxTabs -> BOOLEAN]
    BY <1>3, Parts DEF NoLocks
<1>16. /\ pending' \in Work /\ Len(pending'.news) \in Nat /\ born' + Len(pending'.news) <= MaxTabs
       /\ \A k \in DOMAIN pending'.locks : pending'.locks[k].id <= born'
    <2>1. \A k \in DOMAIN pending.locks : pending.locks[k].id <= born /\ pending.locks[k].id \in Nat
        <3>1. pending.locks \in Seq([id : 1..MaxTabs, on : BOOLEAN])
            BY Parts DEF Work
        <3> DEFINE S == [id : 1..MaxTabs, on : BOOLEAN]
        <3>2. \A k \in DOMAIN pending.locks : pending.locks[k] \in S
            <4> HIDE DEF S
            <4>1. pending.locks \in Seq(S)
                BY <3>1 DEF S
            <4> QED
                BY <4>1
        <3> QED
            BY <3>2, Parts DEF TabsInv, Remembered
    <2> QED
        BY <1>3, <1>4, <2>1, Parts
<1>17. \A m \in 1..MaxTabs : SaysLast(pending, m, said[m])'
    BY <1>3 DEF TabsInv, Ahead, SaysLast, ChangesOf
<1> QED
    BY <1>3, <1>4, <1>7, <1>9, <1>10, <1>11, <1>12, <1>13, <1>14, <1>15, <1>16, <1>17, NothingTaken

\* Steps that leave tabs, queues and answers alone.
LEMMA AsideKeeps ==
    ASSUME TabsInv, UNCHANGED <<tabs, active, born, pending, taken, said, heard>>,
           snap' \in {snap, tabs}, disk' = None \/ Proper(disk', born), sent' \in Saved \cup {None},
           jobs' \in Seq(Saved), \A k \in DOMAIN jobs' : Proper(jobs'[k], born),
           waiting' \subseteq Creator,
           owner' = owner \/ (owner # "apply" /\ owner' \in {"drain", "refresh", "persist", "stopped"})
    PROVE  TabsInv'
<1>1. Numbered(snap', born)
    BY Parts DEF Proper, State
<1>2. snap' \in Seq(Tab) /\ disk' \in Saved \cup {None}
    BY <1>1 DEF Numbered, Proper
<1>3. TypeOK'
    BY <1>2 DEF TabsInv, TypeOK
<1>4. Remembered'
    BY <1>1 DEF TabsInv, Remembered, State
<1>5. LastLockWins'
    BY DEF TabsInv, LastLockWins, ChangesOf, SaysLast
<1>6. Ahead'
    BY DEF TabsInv, Ahead, Leaves, ChangesOf, SaysLast
<1> QED
    BY <1>3, <1>4, <1>5, <1>6 DEF TabsInv

LEMMA LoopKeeps ==
    ASSUME TabsInv, Refresh \/ Persist \/ NotDue
    PROVE  TabsInv'
<1>1. CASE Refresh \/ NotDue
    BY <1>1, Parts, AsideKeeps DEF Refresh, NotDue, owned, files
<1>2. CASE Persist
    <2>1. State \in Saved /\ Proper(State, born) /\ jobs \in Seq(Saved)
        BY Parts DEF Proper
    <2>2. /\ sent' = State /\ owner' = "drain"
          /\ UNCHANGED <<tabs, active, born, snap, pending, taken, waiting, disk, said, heard>>
        BY <1>2 DEF Persist, owned
    <2>3. jobs' = jobs \/ jobs' = Append(jobs, State)
        BY <1>2 DEF Persist
    <2>4. jobs' \in Seq(Saved) /\ \A k \in DOMAIN jobs' : Proper(jobs'[k], born)
        <3>1. CASE jobs' = jobs
            BY <3>1, Parts
        <3>2. CASE jobs' = Append(jobs, State)
            <4>1. /\ jobs' \in Seq(Saved) /\ Len(jobs) \in Nat /\ DOMAIN jobs' = 1..(Len(jobs) + 1)
                  /\ DOMAIN jobs = 1..Len(jobs)
                  /\ jobs'[Len(jobs) + 1] = State /\ \A k \in 1..Len(jobs) : jobs'[k] = jobs[k]
                BY <2>1, <3>2
            <4>2. \A k \in 1..(Len(jobs) + 1) : k \in 1..Len(jobs) \/ k = Len(jobs) + 1
                BY <4>1
            <4>3. \A k \in 1..Len(jobs) : Proper(jobs[k], born)
                BY <4>1, Parts
            <4> QED
                BY <2>1, <4>1, <4>2, <4>3
        <3> QED
            BY <2>3, <3>1, <3>2
    <2> QED
        BY <1>2, <2>1, <2>2, <2>4, Parts, AsideKeeps DEF Persist
<1> QED
    BY <1>1, <1>2

\* The writer takes a state that was proper when it was queued.
LEMMA WriteKeeps ==
    ASSUME TabsInv, Write
    PROVE  TabsInv'
<1>1. /\ jobs # <<>> /\ disk' = Head(jobs) /\ jobs' = Tail(jobs)
      /\ UNCHANGED <<tabs, active, born, snap, pending, taken, waiting, owner, sent, said, heard>>
    BY DEF Write, owned, history
<1>2. jobs \in Seq(Saved) /\ \A k \in DOMAIN jobs : Proper(jobs[k], born)
    BY Parts
<1>3. /\ Len(jobs) \in Nat /\ Len(jobs) > 0 /\ DOMAIN jobs = 1..Len(jobs) /\ disk' = jobs[1]
      /\ jobs' \in Seq(Saved) /\ DOMAIN jobs' = 1..(Len(jobs) - 1)
      /\ \A k \in 1..(Len(jobs) - 1) : jobs'[k] = jobs[k + 1]
    BY <1>1, <1>2, HeadTailProperties
<1>4. Proper(disk', born)
    BY <1>2, <1>3
<1>5. \A k \in 1..(Len(jobs) - 1) : k + 1 \in 1..Len(jobs)
    BY <1>3
<1>6. \A k \in DOMAIN jobs' : Proper(jobs'[k], born)
    BY <1>2, <1>3, <1>5
<1> QED
    BY <1>1, <1>3, <1>4, <1>6, Parts, AsideKeeps

LEMMA StopKeepsTabs ==
    ASSUME TabsInv, Stop
    PROVE  TabsInv'
<1>1. /\ disk' = State /\ sent' = State /\ jobs' = <<>> /\ owner = "drain" /\ owner' = "stopped"
      /\ UNCHANGED <<tabs, active, born, snap, pending, taken, waiting, said, heard>>
    BY DEF Stop, owned, history
<1>2. State \in Saved /\ Proper(State, born)
    BY Parts DEF Proper
<1>3. <<>> \in Seq(Saved) /\ DOMAIN <<>> = {}
    OBVIOUS
<1> QED
    BY <1>1, <1>2, <1>3, Parts, AsideKeeps

LEMMA FreshIsProper ==
    ASSUME NEW n \in 1..MaxTabs
    PROVE  Proper([tabs |-> <<Fresh(n)>>, active |-> 1], n)
<1> DEFINE s == [tabs |-> <<Fresh(n)>>, active |-> 1]
<1>1. Fresh(n) \in Tab /\ Fresh(n).id = n /\ MaxTabs \in Nat /\ 1 \in 1..MaxTabs
    BY BoundAssumption DEF Fresh, Tab
<1>2. /\ <<Fresh(n)>> \in Seq(Tab) /\ Len(<<Fresh(n)>>) = 1 /\ DOMAIN <<Fresh(n)>> = 1..1
      /\ <<Fresh(n)>>[1] = Fresh(n)
    BY <1>1
<1>3. \A i \in 1..1 : i = 1
    OBVIOUS
<1>4. Numbered(<<Fresh(n)>>, n) /\ Apart(<<Fresh(n)>>)
    BY <1>1, <1>2, <1>3 DEF Numbered, Apart
<1>5. s \in Saved
    BY <1>1, <1>2 DEF Saved
<1> QED
    BY <1>2, <1>4, <1>5 DEF Proper

\* Of tabs told apart, a lock that is taken over is the tab's own.
LEMMA BootKeeps ==
    ASSUME TabsInv, Boot
    PROVE  TabsInv'
<1> DEFINE saved == IF disk = None THEN [tabs |-> <<Fresh(born + 1)>>, active |-> 1] ELSE disk
<1>1. /\ disk = None => born < MaxTabs
      /\ tabs' = saved.tabs /\ active' = saved.active /\ snap' = saved.tabs
      /\ born' = IF disk = None THEN born + 1 ELSE born
      /\ said' = [n \in 1..MaxTabs |-> \E i \in DOMAIN saved.tabs : saved.tabs[i].id = n /\ saved.tabs[i].locked]
    BY DEF Boot
<1>2. /\ pending' = NoWork /\ taken' = NoWork /\ heard' = NoLocks /\ waiting' = {}
      /\ jobs' = <<>> /\ sent' = None /\ owner' = "drain" /\ disk' = disk
    BY DEF Boot
<1>3. born' \in 1..MaxTabs /\ born' \in Nat /\ Proper(saved, born')
    <2>1. CASE disk = None
        <3>1. born + 1 \in 1..MaxTabs /\ born' = born + 1
            BY <1>1, <2>1, Parts
        <3> QED
            BY <2>1, <3>1, FreshIsProper
    <2>2. CASE disk # None
        BY <1>1, <2>2, Parts
    <2> QED
        BY <2>1, <2>2
<1> HIDE DEF saved
<1>4. Proper(State', born')
    <2>1. saved \in Saved /\ saved.active \in DOMAIN saved.tabs /\ Numbered(saved.tabs, born') /\ Apart(saved.tabs)
        BY <1>3 DEF Proper
    <2>2. State' \in Saved /\ State'.tabs = saved.tabs /\ State'.active = saved.active
        BY <1>1, <2>1 DEF State, Saved
    <2> QED
        BY <2>1, <2>2 DEF Proper
<1>5. Numbered(snap', born') /\ Apart(tabs')
    BY <1>1, <1>3 DEF Proper
<1>6. \A i \in DOMAIN tabs' : tabs'[i] \in Tab /\ tabs'[i].id <= born' /\ tabs'[i].id \in 1..MaxTabs
    <2>1. tabs' \in Seq(Tab) /\ \A i \in DOMAIN tabs' : tabs'[i].id <= born'
        BY <1>1, <1>5 DEF Numbered
    <2>2. \A i \in DOMAIN tabs' : tabs'[i] \in Tab
        BY <2>1
    <2> QED
        BY <2>1, <2>2 DEF Tab
<1>7. said' \in [1..MaxTabs -> BOOLEAN]
    BY <1>1
<1>8. \A n \in 1..MaxTabs : said'[n] <=> \E i \in DOMAIN tabs' : tabs'[i].id = n /\ tabs'[i].locked
    BY <1>1
<1>9. \A n \in 1..MaxTabs : n > born' => ~said'[n]
    BY <1>3, <1>6, <1>8
<1>10. \A i \in DOMAIN tabs' : tabs'[i].locked = said'[tabs'[i].id]
    <2> SUFFICES ASSUME NEW i \in DOMAIN tabs' PROVE tabs'[i].locked = said'[tabs'[i].id]
        OBVIOUS
    <2>1. \A j \in DOMAIN tabs' : tabs'[j].id = tabs'[i].id => j = i
        BY <1>5 DEF Apart
    <2>2. said'[tabs'[i].id] <=> tabs'[i].locked
        BY <1>6, <1>8, <2>1
    <2>3. said'[tabs'[i].id] \in BOOLEAN /\ tabs'[i].locked \in BOOLEAN
        BY <1>6, <1>7 DEF Tab
    <2> QED
        BY <2>2, <2>3
<1>11. disk' = None \/ Proper(disk', born')
    BY <1>2, <1>3 DEF saved
<1>12. jobs' \in Seq(Saved) /\ DOMAIN jobs' = {}
    BY <1>2
<1>13. /\ pending' \in Work /\ DOMAIN pending'.locks = {} /\ Len(pending'.news) = 0
       /\ heard' \in [1..MaxTabs -> BOOLEAN]
    BY <1>2, NoWorkType DEF NoLocks
<1>14. born' + Len(pending'.news) <= MaxTabs /\ Len(pending'.news) \in Nat
    <2>1. born' \in 1..MaxTabs /\ MaxTabs \in Nat
        BY <1>3, BoundAssumption
    <2>2. Len(pending'.news) = 0
        BY <1>13
    <2>3. born' \in Nat /\ born' <= MaxTabs
        BY <2>1
    <2> DEFINE queued == Len(pending'.news)
    <2>4. queued = 0
        BY <2>2
    <2> HIDE DEF queued
    <2>5. born' + queued <= MaxTabs /\ queued \in Nat
        <3>1. \A a, b, q \in Nat : q = 0 /\ a <= b => a + q <= b
            OBVIOUS
        <3>2. queued \in Nat /\ MaxTabs \in Nat
            BY <2>1, <2>4
        <3> QED
            BY <2>3, <2>4, <3>1, <3>2
    <2> QED
        BY <2>5 DEF queued
<1>15. \A n \in 1..MaxTabs : SaysLast(pending, n, said[n])'
    BY <1>13 DEF SaysLast, ChangesOf
<1> QED
    BY <1>2, <1>3, <1>4, <1>5, <1>6, <1>7, <1>9, <1>10, <1>11, <1>12, <1>13, <1>14, <1>15, NothingTaken

\* A daemon with one tab.
LEMMA InitTabs == Init => TabsInv
<1> SUFFICES ASSUME Init PROVE TabsInv
    OBVIOUS
<1>1. /\ tabs = <<Fresh(1)>> /\ active = 1 /\ born = 1 /\ snap = tabs /\ pending = NoWork /\ waiting = {}
      /\ owner = "drain" /\ disk \in {State, None} /\ jobs = <<>> /\ sent = None /\ taken = NoWork
      /\ said = [n \in 1..MaxTabs |-> FALSE] /\ heard = [n \in 1..MaxTabs |-> FALSE]
    BY DEF Init, NoLocks
<1>2. 1 \in 1..MaxTabs /\ MaxTabs \in Nat
    BY BoundAssumption
<1>3. Proper(State, 1) /\ State \in Saved /\ Numbered(tabs, 1) /\ Apart(tabs) /\ tabs \in Seq(Tab) /\ active \in DOMAIN tabs
    <2>1. State = [tabs |-> <<Fresh(1)>>, active |-> 1]
        BY <1>1 DEF State
    <2>2. Proper(State, 1)
        BY <1>2, <2>1, FreshIsProper
    <2> QED
        BY <2>2 DEF Proper, State, Saved
<1>4. pending \in Work /\ DOMAIN pending.locks = {} /\ Len(pending.news) = 0 /\ taken = pending
    BY <1>1, NoWorkType
<1>5. jobs \in Seq(Saved) /\ DOMAIN jobs = {}
    BY <1>1
<1>6. TypeOK
    BY <1>1, <1>2, <1>3, <1>4, <1>5 DEF TypeOK, Work, Apart
<1>7. Remembered
    BY <1>1, <1>2, <1>3, <1>4, <1>5 DEF Remembered
<1>8. LastLockWins
    <2>1. \A n : ChangesOf(pending, n) = {} /\ ChangesOf(taken, n) = {}
        BY <1>4 DEF ChangesOf
    <2>2. DOMAIN tabs = 1..1 /\ tabs[1] = Fresh(1)
        BY <1>1
    <2>3. \A i \in DOMAIN tabs : tabs[i].locked = FALSE /\ tabs[i].id = 1
        BY <2>2 DEF Fresh
    <2>4. said[1] = FALSE
        BY <1>1, <1>2
    <2> QED
        BY <2>1, <2>3, <2>4 DEF LastLockWins
<1>9. Ahead
    BY <1>1, <1>4 DEF Ahead, SaysLast, ChangesOf
<1> QED
    BY <1>6, <1>7, <1>8, <1>9 DEF TabsInv

LEMMA NextTabs == TabsInv /\ [Next]_vars => TabsInv'
<1> SUFFICES ASSUME TabsInv, [Next]_vars PROVE TabsInv'
    OBVIOUS
<1>1. CASE Ask
    BY <1>1, AskKeeps, AskNewKeeps, AskLockKeeps DEF Ask
<1>2. CASE Loop
    BY <1>2, TakeKeeps, ApplyKeeps, LoopKeeps DEF Loop
<1>3. CASE Write \/ Stop
    BY <1>3, WriteKeeps, StopKeepsTabs
<1>4. CASE Restart \/ Crash
    BY <1>4, BootKeeps DEF Restart, Crash
<1>5. CASE UNCHANGED vars
    <2>1. UNCHANGED <<tabs, active, born, snap, pending, taken, waiting, owner, disk, jobs, sent, said, heard>>
        BY <1>5 DEF vars, owned, files, history
    <2> QED
        BY <2>1, Parts, AsideKeeps
<1> QED
    BY <1>1, <1>2, <1>3, <1>4, <1>5 DEF Next

LEMMA TabsHold == Spec => []TabsInv
BY InitTabs, NextTabs, PTL DEF Spec

\* There is always a tab, one of them is active, no uuid appears twice, and
\* every request that is queued is for a position that may exist (drain_pending
\* and persist, whose tabs a restart takes over).
THEOREM TabsTyped == Spec => []TypeOK
<1>1. TabsInv => TypeOK
    BY DEF TabsInv
<1> QED
    BY <1>1, TabsHold, PTL

\* The lock last answered wins, whatever refreshes, closes, stops and crashes
\* come between the answer and the drain.
THEOREM LocksHold == Spec => []LastLockWins
<1>1. TabsInv => LastLockWins
    BY DEF TabsInv
<1> QED
    BY <1>1, TabsHold, PTL

\* What is typed is typed into tabs whose lock was not answered before
\* the queues were taken.
LEMMA ApplyTypes ==
    ASSUME TabsInv, Apply, NEW e \in last'.typed
    PROVE  ~heard[e.to]
<1>1. last'.typed = Typed(Drained.tabs)
    BY DEF Apply, Drained
<1>2. PICK r \in ToSet(taken.input) : r.at <= Len(Drained.tabs) /\ ~Drained.tabs[r.at].locked
                                        /\ e = [to |-> Drained.tabs[r.at].id, asked |-> r.asked]
    BY <1>1 DEF Typed
<1>3. r.at \in 1..MaxTabs
    <2>1. taken.input \in Seq(Request)
        BY Parts DEF Work
    <2>2. ToSet(taken.input) \subseteq Request
        BY <2>1 DEF ToSet
    <2> QED
        BY <1>2, <2>2 DEF Request
<1>4. Drained.tabs \in Seq(Tab)
    BY DrainedTabs DEF Apply, Proper, Saved
<1>5. r.at \in DOMAIN Drained.tabs
    BY <1>2, <1>3, <1>4
<1> QED
    BY <1>2, <1>5, DrainedTabs DEF Apply

\* Nothing is typed into a tab whose lock had been answered when the loop took
\* the queues, even what was accepted before, or because a refresh had taken
\* the lock off the snapshot.
THEOREM LockedStaysQuiet == Spec => LockedTabGetsNoInput
<1>1. TabsInv /\ [Next]_vars => [\A e \in last'.typed : e \in last.typed \/ ~heard[e.to]]_vars
    <2> SUFFICES ASSUME TabsInv, [Next]_vars, NEW e \in last'.typed PROVE e \in last.typed \/ ~heard[e.to]
        OBVIOUS
    <2>1. CASE Apply
        BY <2>1, ApplyTypes
    <2>2. CASE UNCHANGED last
        BY <2>2
    <2>3. CASE last' = NoEffect
        BY <2>3 DEF NoEffect
    <2> QED
        BY <2>1, <2>2, <2>3 DEF Next, Ask, AskClose, AskActivate, AskInput, AskLock, AskNew, Queue,
           Loop, Take, Refresh, Persist, NotDue, Write, Stop, Restart, Crash, Boot, vars, history
<1> QED
    BY <1>1, TabsHold, PTL DEF Spec, LockedTabGetsNoInput

----------------------------------------------------------------------------
(* A graceful stop.                                                        *)

NothingLeft == owner = "stopped" => jobs = <<>>
StopInv == FinalStateKept /\ NothingLeft

\* A handler owns neither the tabs nor the files.
LEMMA HandlersQueue == Ask => UNCHANGED <<owned, owner, files>>
BY DEF Ask, AskClose, AskActivate, AskInput, AskLock, AskNew, Queue

\* The loop's steps end in a loop that runs.
LEMMA LoopRuns == Loop => owner' # "stopped"
BY DEF Loop, Take, Apply, Refresh, Persist, NotDue

LEMMA InitStop == Init => StopInv
BY DEF Init, StopInv, FinalStateKept, NothingLeft

LEMMA NextStop == StopInv /\ [Next]_vars => StopInv'
<1> SUFFICES ASSUME StopInv, [Next]_vars PROVE StopInv'
    OBVIOUS
<1>1. CASE Ask
    BY <1>1, HandlersQueue DEF StopInv, FinalStateKept, NothingLeft, State, owned, files
<1>2. CASE Loop
    BY <1>2, LoopRuns DEF StopInv, FinalStateKept, NothingLeft
<1>3. CASE Write
    BY <1>3 DEF Write, StopInv, FinalStateKept, NothingLeft
<1>4. CASE Stop
    BY <1>4 DEF Stop, StopInv, FinalStateKept, NothingLeft, State, owned
<1>5. CASE Restart \/ Crash
    <2>1. owner' = "drain"
        BY <1>5 DEF Restart, Crash, Boot
    <2> QED
        BY <2>1 DEF StopInv, FinalStateKept, NothingLeft
<1>6. CASE UNCHANGED vars
    BY <1>6 DEF vars, owned, files, history, StopInv, FinalStateKept, NothingLeft, State
<1> QED
    BY <1>1, <1>2, <1>3, <1>4, <1>5, <1>6 DEF Next

\* After a stop the file has the tabs as they were last (persist and the exit
\* of the loop in headless.rs): no write that was queued before lands later,
\* and what handlers still accept changes nothing of it.
THEOREM StopKeeps == Spec => []FinalStateKept
<1>1. StopInv => FinalStateKept
    BY DEF StopInv
<1> QED
    BY <1>1, InitStop, NextStop, PTL DEF Spec
=============================================================================

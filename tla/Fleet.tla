-------------------------------- MODULE Fleet --------------------------------
(***************************************************************************)
(* Several hosts and their agents sharing out tasks: the verbs of          *)
(* src/src/cli/work.rs over the boards (TaskBoard), the lease tables, the  *)
(* directory of src/src/federation.rs, the announcements of                *)
(* src/src/sweep.rs and gossip between hosts.                              *)
(*                                                                         *)
(* What the component modules establish is used here as one step: a board  *)
(* is the set of its entries (Gossip: FoldIsViewOfSet), a gossip round is  *)
(* a union, a lease table has one holder per task, who keeps it until it   *)
(* releases it or it lapses (Claims: ServiceSpec).  Fences are left out:   *)
(* no verb compares them.                                                  *)
(***************************************************************************)
EXTENDS TaskBoard

CONSTANTS
    Host,           \* daemons, by their origin_id
    Agent,          \* agents, each a tab of one host
    HostOf,         \* [Agent -> Host]
    Task,           \* task ids that the sources propose
    Sweeper,        \* hosts whose sweep announces tasks
    Sweep,          \* the name that sweeps announce under
    Peer,           \* <<p, q>>: p has a remote endpoint for q
    Learned,        \* <<p, q>>: p's directory knows its endpoint for q at the start
    LinksFail,      \* whether an endpoint may become unreachable
    RepliesFail,    \* whether a granted claim's answer may get lost
    Mortal,         \* agents that may vanish: a crash, a closed tab
    MaxPosts        \* bound: entries posted

ASSUME PlaceAssumption ==
    /\ HostOf \in [Agent -> Host]
    /\ Sweeper \subseteq Host /\ Sweep \notin Agent
    /\ Peer \subseteq Host \X Host /\ Learned \subseteq Peer
ASSUME NobodyAssumption == Nobody \notin Agent \cup Host \cup {Sweep}
ASSUME FaultAssumption == {LinksFail, RepliesFail} \subseteq BOOLEAN /\ Mortal \subseteq Agent
ASSUME BoundAssumption == MaxPosts \in Nat

VARIABLES
    board,  \* per host, the entries of its blackboard
    lease,  \* per host and task, who holds task:<id> in its registry
    knows,  \* per host, the origins its federation directory can reach
    cut,    \* the endpoints that do not answer now
    posts,  \* history: the entries posted anywhere
    agent   \* per agent, where its verb stands

vars == <<board, lease, knows, cut, posts, agent>>

Offer == [task: Task, home: Host]

\* An agent: the offers its take has still to try, the one it has settled
\* on, the host that leased it, and whether take fell back to get it.  late
\* is history, and no guard reads it: its lease ran out while it worked.
Idle == [pc |-> "idle", seen |-> {}, task |-> Nobody, at |-> Nobody, fell |-> FALSE, late |-> FALSE]

Init ==
    /\ board = [h \in Host |-> {}]
    /\ lease = [h \in Host |-> [t \in Task |-> Nobody]]
    /\ knows = [h \in Host |-> {q \in Host : <<h, q>> \in Learned}]
    /\ cut = {}
    /\ posts = {}
    /\ agent = [a \in Agent |-> Idle]

Reachable(p, q) == p = q \/ <<p, q>> \notin cut

----------------------------------------------------------------------------
(* The board.                                                              *)

\* Variants ending in _x are bugs this code could have; no action uses them.
Stamp == Cardinality(posts) + 1

\* append_entry at host h.  Clocks are taken to agree and entries to differ
\* in their second; Gossip lifts both.
Post(h, kind, t, from, to, ok) ==
    LET e == [id |-> Stamp, ts |-> Stamp, kind |-> kind, task |-> t, from |-> from,
              origin |-> h, cost |-> 0, to |-> to, ok |-> ok]
    IN  /\ Cardinality(posts) < MaxPosts
        /\ board' = [board EXCEPT ![h] = @ \cup {e}]
        /\ posts' = posts \cup {e}

\* sweep::once announces what should_announce lets through.  Any time may
\* have passed since the last sweep: the cooldown may always be over.
Announce(h, t) ==
    /\ h \in Sweeper
    /\ ShouldAnnounce(board[h], t, Cardinality(posts), 0)
    /\ Post(h, "announce", t, Sweep, Nobody, TRUE)
    /\ UNCHANGED <<lease, knows, cut, agent>>

\* exchange; its answer also names the peer, which federation::remember keeps.
Gossip(p, q) ==
    /\ <<p, q>> \in Peer /\ Reachable(p, q)
    /\ LET both == board[p] \cup board[q]
       IN  board' = [board EXCEPT ![p] = both, ![q] = both]
    /\ knows' = [knows EXCEPT ![p] = @ \cup {q}]
    /\ UNCHANGED <<lease, cut, posts, agent>>

----------------------------------------------------------------------------
(* take                                                                    *)

View(h, t) == ViewOf(board[h], t)

\* rank_tasks.  The order is a hash of task and agent: any.
Ranked(h, a) ==
    {o \in Offer : /\ Known(board[h], o.task)
                   /\ OfferedTo(View(h, o.task), a)
                   /\ View(h, o.task).home = o.home}

ClaimAt_x(h, home) == h
\* claim_endpoint: the home if the directory has an endpoint for it.
ClaimAt(h, home) == IF home # h /\ home \in knows[h] THEN home ELSE h

Put(a, fields) == agent' = [agent EXCEPT ![a] = fields]

\* The board is read and ranked once, when the verb starts.
Take(a) ==
    /\ agent[a].pc = "idle"
    /\ Ranked(HostOf[a], a) # {}
    /\ Put(a, [Idle EXCEPT !.pc = "taking", !.seen = Ranked(HostOf[a], a)])
    /\ UNCHANGED <<board, lease, knows, cut, posts>>

Free_x(h, t, a) == TRUE
\* POST /claims says yes to whoever may hold the lease.
Free(h, t, a) == lease[h][t] \in {Nobody, a}

Grant(a, h, t) == lease' = [lease EXCEPT ![h][t] = a]

\* The offer is tried and leads nowhere: on to the next, or exit 3.
Skip(a, o) ==
    LET rest == agent[a].seen \ {o}
    IN  Put(a, IF rest = {} THEN Idle ELSE [Idle EXCEPT !.pc = "taking", !.seen = rest])

\* One claim of the walk through the ranking that got an answer.
Claim(a, o) ==
    LET h == ClaimAt(HostOf[a], o.home)
    IN  /\ agent[a].pc = "taking" /\ o \in agent[a].seen
        /\ Reachable(HostOf[a], h)
        /\ IF Free(h, o.task, a)
           THEN /\ Grant(a, h, o.task)
                /\ Put(a, [Idle EXCEPT !.pc = "granted", !.task = o.task, !.at = h])
           ELSE Skip(a, o) /\ UNCHANGED lease
        /\ UNCHANGED <<board, knows, cut, posts>>

\* One that got none: unreachable, or granted with the answer lost.
Unanswered(a, o) ==
    LET h == ClaimAt(HostOf[a], o.home)
    IN  /\ agent[a].pc = "taking" /\ o \in agent[a].seen /\ h # HostOf[a]
        /\ \/ ~Reachable(HostOf[a], h) /\ UNCHANGED lease
           \/ RepliesFail /\ Free(h, o.task, a) /\ Grant(a, h, o.task)
        /\ Put(a, [agent[a] EXCEPT !.pc = "away", !.task = o.task])
        /\ UNCHANGED <<board, knows, cut, posts>>

\* "claiming locally instead": to work at once, with no award on the board.
FallBack(a) ==
    LET h == HostOf[a]
        t == agent[a].task
    IN  /\ agent[a].pc = "away"
        /\ IF Free(h, t, a)
           THEN /\ Grant(a, h, t)
                /\ Put(a, [Idle EXCEPT !.pc = "working", !.task = t, !.at = h, !.fell = TRUE])
           ELSE /\ \E o \in agent[a].seen : o.task = t /\ Skip(a, o)
                /\ UNCHANGED lease
        /\ UNCHANGED <<board, knows, cut, posts>>

\* The award is a separate append, after the grant.
Award(a) ==
    /\ agent[a].pc = "granted"
    /\ Post(HostOf[a], "award", agent[a].task, a, a, TRUE)
    /\ Put(a, [agent[a] EXCEPT !.pc = "working"])
    /\ UNCHANGED <<lease, knows, cut>>

----------------------------------------------------------------------------
(* done                                                                    *)

Done(a, ok) ==
    /\ agent[a].pc = "working"
    /\ Post(HostOf[a], "done", agent[a].task, a, Nobody, ok)
    /\ Put(a, [agent[a] EXCEPT !.pc = "reported"])
    /\ UNCHANGED <<lease, knows, cut>>

\* Where the board of now says the task's lease lives.
ReleaseAt(a) == ClaimAt(HostOf[a], View(HostOf[a], agent[a].task).home)

Released_x(a) == [lease EXCEPT ![ReleaseAt(a)][agent[a].task] = Nobody]
\* Registry::release: only the holder may.
Released(a) ==
    LET h == ReleaseAt(a)
    IN  IF Reachable(HostOf[a], h) /\ lease[h][agent[a].task] = a
        THEN [lease EXCEPT ![h][agent[a].task] = Nobody] ELSE lease

\* The outcome of the release is dropped, a refusal and an error alike.
Release(a) ==
    /\ agent[a].pc = "reported"
    /\ lease' = Released(a)
    /\ Put(a, Idle)
    /\ UNCHANGED <<board, knows, cut, posts>>

----------------------------------------------------------------------------
(* What happens to them.                                                   *)

Holds(a) == agent[a].pc \in {"granted", "working"}

\* A works under the lease that h gave it on t.
WorksUnder(a, h, t) == Holds(a) /\ agent[a].task = t /\ agent[a].at = h

\* The ttl is over, whoever works: no verb renews a lease, and a worker does
\* not learn that it has none any more.
Lapse(h, t) ==
    LET holder == lease[h][t]
    IN  /\ holder # Nobody
        /\ lease' = [lease EXCEPT ![h][t] = Nobody]
        /\ IF WorksUnder(holder, h, t)
           THEN Put(holder, [agent[holder] EXCEPT !.late = TRUE])
           ELSE UNCHANGED agent
        /\ UNCHANGED <<board, knows, cut, posts>>

Die(a) ==
    /\ a \in Mortal /\ agent[a].pc # "dead"
    /\ Put(a, [Idle EXCEPT !.pc = "dead"])
    /\ UNCHANGED <<board, lease, knows, cut, posts>>

Cut(p, q) ==
    /\ LinksFail /\ <<p, q>> \in Peer \ cut
    /\ cut' = cut \cup {<<p, q>>}
    /\ UNCHANGED <<board, lease, knows, posts, agent>>

Heal(p, q) ==
    /\ <<p, q>> \in cut
    /\ cut' = cut \ {<<p, q>>}
    /\ UNCHANGED <<board, lease, knows, posts, agent>>

Verb(a) ==
    \/ Take(a) \/ FallBack(a) \/ Award(a) \/ Release(a)
    \/ \E o \in Offer : Claim(a, o) \/ Unanswered(a, o)
    \/ \E ok \in BOOLEAN : Done(a, ok)

Next ==
    \/ \E h \in Host, t \in Task : Announce(h, t) \/ Lapse(h, t)
    \/ \E p, q \in Host : Gossip(p, q) \/ Cut(p, q) \/ Heal(p, q)
    \/ \E a \in Agent : Verb(a) \/ Die(a)

Spec == Init /\ [][Next]_vars

\* Sweeps and gossip run on timers; agents poll for work and, while they
\* live, see a task through; every lease runs out.
FairSpec ==
    /\ Spec
    /\ \A h \in Host, t \in Task : WF_vars(Announce(h, t)) /\ WF_vars(Lapse(h, t))
    /\ \A p, q \in Host : SF_vars(Gossip(p, q)) /\ WF_vars(Heal(p, q))
    /\ \A a \in Agent : WF_vars(Verb(a))

----------------------------------------------------------------------------

Entry == [id: 1..MaxPosts, ts: 1..MaxPosts, kind: {"announce", "award", "done"}, task: Task,
          from: Agent \cup {Sweep}, origin: Host, cost: {0}, to: Agent \cup {Nobody}, ok: BOOLEAN]

TypeOK ==
    /\ posts \subseteq Entry
    /\ board \in [Host -> SUBSET posts]
    /\ lease \in [Host -> [Task -> Agent \cup {Nobody}]]
    /\ knows \in [Host -> SUBSET Host]
    /\ cut \subseteq Peer
    /\ agent \in [Agent -> [pc: {"idle", "taking", "away", "granted", "working", "reported", "dead"},
                            seen: SUBSET Offer, task: Task \cup {Nobody},
                            at: Host \cup {Nobody}, fell: BOOLEAN, late: BOOLEAN]]

InTime(a) == Holds(a) /\ ~agent[a].late
Clash(a, b) == a # b /\ Holds(a) /\ Holds(b) /\ agent[a].task = agent[b].task

\* "The fleet cannot hand the same work to two machines": no two agents work
\* on one task within their leases, on whichever hosts and boards they took
\* it; of two that do work on one, one has outlived its ttl.
OneWorker ==
    \A a, b \in Agent : Clash(a, b) => agent[a].late \/ agent[b].late

\* The same where endpoints fail: of two agents that work on one task, one
\* has outlived its ttl, or has fallen back to its own host's table and was
\* told so.
DuplicatesAreExplained ==
    \A a, b \in Agent :
        Clash(a, b) => \E c \in {a, b} : agent[c].fell \/ agent[c].late

\* An agent at work holds the lease that it was granted, where it was
\* granted, until its ttl is over: no other agent's take ever takes it away,
\* and no done of one that has outlived its own lease frees it.
WorkIsLeased ==
    \A a \in Agent : InTime(a) => lease[agent[a].at][agent[a].task] = a

Announced(t) == \E e \in posts : e.kind = "announce" /\ e.task = t
Reported(t) == \E e \in posts : e.kind = "done" /\ e.task = t

\* Work that was announced gets done, whatever links fail and answers get
\* lost, as long as nobody dies ("a dead holder's claim lapses and the work
\* returns to the board": the claim does, but nothing retracts the award).
AnyDied == \E a \in Agent : agent[a].pc = "dead"
EventuallyReported == \A t \in Task : Announced(t) ~> (Reported(t) \/ AnyDied)
=============================================================================

----------------------------- MODULE FleetProofs -----------------------------
(***************************************************************************)
(* Theorems about the work of agents: about Fleet, for every set of hosts, *)
(* agents and tasks, and about Agent, for any sockets, sessions, rounds    *)
(* and scenarios.                                                          *)
(*                                                                         *)
(* That an agent at work holds its lease until that runs out needs nothing *)
(* but the types.                                                          *)
(* That two agents do not share a task needs one more thing: that they     *)
(* were sent to the same lease table.  So it is proved for a fleet in      *)
(* which one host sweeps and the others can reach it (OneHome).            *)
(*                                                                         *)
(* Agent.  A history can be sent unless a turn has put its calls there and *)
(* not yet their results; while turns do not overlap, nobody else sends it *)
(* then.  How far the transcript is ahead of the history, and the history  *)
(* of what it can say, follows from where the turn is (Pace).              *)
(***************************************************************************)
EXTENDS Fleet, Agent, FiniteSetTheorems, SequenceTheorems, WellFoundedInduction, TLAPS

Pc == {"idle", "taking", "away", "granted", "working", "reported", "dead"}
AgentState == [pc: Pc, seen: SUBSET Offer, task: Task \cup {Nobody},
               at: Host \cup {Nobody}, fell: BOOLEAN, late: BOOLEAN]

\* A verb under way knows its task, and a worker where its lease is.
Settled ==
    \A a \in Agent :
        /\ agent[a].pc \in {"away", "granted", "working", "reported"} => agent[a].task \in Task
        /\ Holds(a) => agent[a].at \in Host

TypeInv == TypeOK /\ IsFiniteSet(posts) /\ Settled

----------------------------------------------------------------------------
(* Types.                                                                  *)

LEMMA IdleType == Idle \in AgentState
BY DEF Idle, AgentState, Pc

LEMMA AgentType == TypeOK => agent \in [Agent -> AgentState]
BY DEF TypeOK, AgentState, Pc

\* claim_endpoint answers with a host, whatever the board says of the home.
LEMMA ClaimAtType ==
    ASSUME TypeOK, NEW h \in Host, NEW home
    PROVE  ClaimAt(h, home) \in Host
BY DEF TypeOK, ClaimAt

\* A lease changes hands to an agent, or to nobody.
LEMMA LeaseType ==
    ASSUME TypeOK, NEW h \in Host, NEW t \in Task, NEW x \in Agent \cup {Nobody}
    PROVE  [lease EXCEPT ![h][t] = x] \in [Host -> [Task -> Agent \cup {Nobody}]]
BY DEF TypeOK

\* An entry that is appended has its type, and the board it goes to.
LEMMA PostType ==
    ASSUME TypeInv, NEW h \in Host, NEW kind \in {"announce", "award", "done"}, NEW t \in Task,
           NEW from \in Agent \cup {Sweep}, NEW to \in Agent \cup {Nobody}, NEW ok \in BOOLEAN,
           Post(h, kind, t, from, to, ok)
    PROVE  /\ posts' \subseteq Entry /\ IsFiniteSet(posts')
           /\ board' \in [Host -> SUBSET posts']
<1> DEFINE e == [id |-> Stamp, ts |-> Stamp, kind |-> kind, task |-> t, from |-> from,
                 origin |-> h, cost |-> 0, to |-> to, ok |-> ok]
<1>1. posts' = posts \cup {e} /\ board' = [board EXCEPT ![h] = @ \cup {e}]
    BY DEF Post
<1>2. Stamp \in 1..MaxPosts
    BY FS_CardinalityType, BoundAssumption DEF Post, Stamp, TypeInv
<1>3. e \in Entry
    BY <1>2 DEF Entry
<1>4. IsFiniteSet(posts')
    BY <1>1, FS_AddElement DEF TypeInv
<1> QED
    BY <1>1, <1>3, <1>4 DEF TypeInv, TypeOK

\* What a verb puts down for its agent.
LEMMA PutType ==
    ASSUME TypeInv, NEW a \in Agent, NEW s \in AgentState, Put(a, s),
           s.pc \in {"away", "granted", "working", "reported"} => s.task \in Task,
           s.pc \in {"granted", "working"} => s.at \in Host
    PROVE  agent' \in [Agent -> AgentState] /\ Settled'
<1>1. agent' = [agent EXCEPT ![a] = s] /\ agent \in [Agent -> AgentState]
    BY AgentType DEF Put, TypeInv
<1> QED
    BY <1>1 DEF TypeInv, Settled, Holds

LEMMA SkipType ==
    ASSUME TypeInv, NEW a \in Agent, NEW o \in Offer, Skip(a, o)
    PROVE  agent' \in [Agent -> AgentState] /\ Settled'
<1> DEFINE rest == agent[a].seen \ {o}
           s == IF rest = {} THEN Idle ELSE [Idle EXCEPT !.pc = "taking", !.seen = rest]
<1>1. rest \subseteq Offer
    BY AgentType DEF TypeInv, AgentState
<1>2. s \in AgentState /\ s.pc \in {"idle", "taking"}
    BY <1>1 DEF Idle, AgentState, Pc
<1>3. Put(a, s)
    BY DEF Skip
<1> HIDE DEF s
<1> QED
    BY <1>2, <1>3, PutType

\* TypeOK from its parts, for steps that change the leases and the agents.
LEMMA VerbType ==
    ASSUME TypeInv, UNCHANGED <<board, knows, cut, posts>>,
           lease' \in [Host -> [Task -> Agent \cup {Nobody}]],
           agent' \in [Agent -> AgentState], Settled'
    PROVE  TypeInv'
BY DEF TypeInv, TypeOK, AgentState, Pc

LEMMA TakeType ==
    ASSUME TypeInv, NEW a \in Agent, Take(a)
    PROVE  TypeInv'
<1> DEFINE s == [Idle EXCEPT !.pc = "taking", !.seen = Ranked(HostOf[a], a)]
<1>1. s \in AgentState /\ s.pc = "taking"
    BY DEF Idle, AgentState, Pc, Ranked
<1>2. Put(a, s) /\ UNCHANGED <<board, lease, knows, cut, posts>>
    BY DEF Take
<1> HIDE DEF s
<1>3. agent' \in [Agent -> AgentState] /\ Settled'
    BY <1>1, <1>2, PutType
<1> QED
    BY <1>2, <1>3, VerbType DEF TypeInv, TypeOK

\* The three steps that may grant a lease to a.
LEMMA ClaimType ==
    ASSUME TypeInv, NEW a \in Agent, NEW o \in Offer, Claim(a, o)
    PROVE  TypeInv'
<1> DEFINE h == ClaimAt(HostOf[a], o.home)
           s == [Idle EXCEPT !.pc = "granted", !.task = o.task, !.at = h]
<1>1. h \in Host /\ o.task \in Task
    BY PlaceAssumption, ClaimAtType DEF TypeInv, Offer
<1>2. UNCHANGED <<board, knows, cut, posts>>
    BY DEF Claim
<1>3. CASE Grant(a, h, o.task) /\ Put(a, s)
    <2>1. s \in AgentState /\ s.task \in Task /\ s.at \in Host
        BY <1>1 DEF Idle, AgentState, Pc
    <2> HIDE DEF s
    <2>2. agent' \in [Agent -> AgentState] /\ Settled'
        BY <1>3, <2>1, PutType
    <2>3. lease' \in [Host -> [Task -> Agent \cup {Nobody}]]
        BY <1>1, <1>3, LeaseType DEF Grant, TypeInv
    <2> QED
        BY <1>2, <2>2, <2>3, VerbType
<1>4. CASE Skip(a, o) /\ UNCHANGED lease
    BY <1>2, <1>4, SkipType, VerbType DEF TypeInv, TypeOK
<1> QED
    BY <1>3, <1>4 DEF Claim

LEMMA UnansweredType ==
    ASSUME TypeInv, NEW a \in Agent, NEW o \in Offer, Unanswered(a, o)
    PROVE  TypeInv'
<1> DEFINE h == ClaimAt(HostOf[a], o.home)
           s == [agent[a] EXCEPT !.pc = "away", !.task = o.task]
<1>1. h \in Host /\ o.task \in Task
    BY PlaceAssumption, ClaimAtType DEF TypeInv, Offer
<1>2. Put(a, s) /\ UNCHANGED <<board, knows, cut, posts>>
    BY DEF Unanswered
<1>3. s \in AgentState /\ s.pc = "away" /\ s.task \in Task
    BY <1>1, AgentType DEF AgentState, Pc, TypeInv
<1> HIDE DEF s
<1>4. agent' \in [Agent -> AgentState] /\ Settled'
    BY <1>2, <1>3, PutType
<1>5. lease' \in [Host -> [Task -> Agent \cup {Nobody}]]
    <2>1. UNCHANGED lease \/ Grant(a, h, o.task)
        BY DEF Unanswered
    <2>2. CASE UNCHANGED lease
        BY <2>2 DEF TypeInv, TypeOK
    <2>3. CASE Grant(a, h, o.task)
        BY <1>1, <2>3, LeaseType DEF Grant, TypeInv
    <2> QED
        BY <2>1, <2>2, <2>3
<1> QED
    BY <1>2, <1>4, <1>5, VerbType

LEMMA FallBackType ==
    ASSUME TypeInv, NEW a \in Agent, FallBack(a)
    PROVE  TypeInv'
<1> DEFINE h == HostOf[a]
           t == agent[a].task
           s == [Idle EXCEPT !.pc = "working", !.task = t, !.at = h, !.fell = TRUE]
<1>1. h \in Host /\ t \in Task
    BY PlaceAssumption DEF FallBack, TypeInv, Settled
<1>2. UNCHANGED <<board, knows, cut, posts>>
    BY DEF FallBack
<1>3. CASE Grant(a, h, t) /\ Put(a, s)
    <2>1. s \in AgentState /\ s.task \in Task /\ s.at \in Host
        BY <1>1 DEF Idle, AgentState, Pc
    <2> HIDE DEF s
    <2>2. agent' \in [Agent -> AgentState] /\ Settled'
        BY <1>3, <2>1, PutType
    <2>3. lease' \in [Host -> [Task -> Agent \cup {Nobody}]]
        BY <1>1, <1>3, LeaseType DEF Grant, TypeInv
    <2> QED
        BY <1>2, <2>2, <2>3, VerbType
<1>4. ASSUME NEW o \in agent[a].seen, Skip(a, o), UNCHANGED lease
      PROVE  TypeInv'
    <2>1. o \in Offer
        BY <1>4, AgentType DEF TypeInv, AgentState
    <2> QED
        BY <1>2, <1>4, <2>1, SkipType, VerbType DEF TypeInv, TypeOK
<1> QED
    BY <1>3, <1>4 DEF FallBack

\* The two steps that append an entry for an agent.
LEMMA AppendType ==
    ASSUME TypeInv, NEW a \in Agent, NEW kind \in {"award", "done"}, NEW to \in Agent \cup {Nobody},
           NEW ok \in BOOLEAN, NEW pc \in {"working", "reported"},
           agent[a].pc \in {"granted", "working"},
           Post(HostOf[a], kind, agent[a].task, a, to, ok),
           Put(a, [agent[a] EXCEPT !.pc = pc]), UNCHANGED <<lease, knows, cut>>
    PROVE  TypeInv'
<1> DEFINE s == [agent[a] EXCEPT !.pc = pc]
<1>1. agent[a].task \in Task /\ agent[a].at \in Host /\ agent[a] \in AgentState
    BY AgentType DEF TypeInv, Settled, Holds
<1>2. s \in AgentState /\ s.task \in Task /\ s.at \in Host
    BY <1>1 DEF AgentState, Pc
<1> HIDE DEF s
<1>3. agent' \in [Agent -> AgentState] /\ Settled'
    BY <1>2, PutType DEF s
<1>4. /\ posts' \subseteq Entry /\ IsFiniteSet(posts')
      /\ board' \in [Host -> SUBSET posts']
    <2>1. HostOf[a] \in Host /\ a \in Agent \cup {Sweep}
        BY PlaceAssumption
    <2>2. kind \in {"announce", "award", "done"}
        OBVIOUS
    <2> QED
        BY <1>1, <2>1, <2>2, PostType
<1> QED
    BY <1>3, <1>4 DEF TypeInv, TypeOK, AgentState, Pc

LEMMA AwardType ==
    ASSUME TypeInv, NEW a \in Agent, Award(a)
    PROVE  TypeInv'
BY AppendType DEF Award

LEMMA DoneType ==
    ASSUME TypeInv, NEW a \in Agent, NEW ok \in BOOLEAN, Done(a, ok)
    PROVE  TypeInv'
BY AppendType DEF Done

LEMMA ReleaseType ==
    ASSUME TypeInv, NEW a \in Agent, Release(a)
    PROVE  TypeInv'
<1>1. lease' \in [Host -> [Task -> Agent \cup {Nobody}]]
    <2> DEFINE h == ReleaseAt(a)
    <2>1. h \in Host
        BY PlaceAssumption, ClaimAtType DEF ReleaseAt, TypeInv
    <2>2. agent[a].task \in Task
        BY DEF Release, TypeInv, Settled
    <2>3. lease' = [lease EXCEPT ![h][agent[a].task] = Nobody] \/ lease' = lease
        BY DEF Release, Released
    <2> HIDE DEF h
    <2>4. CASE lease' = lease
        BY <2>4 DEF TypeInv, TypeOK
    <2>5. CASE lease' = [lease EXCEPT ![h][agent[a].task] = Nobody]
        BY <2>1, <2>2, <2>5, LeaseType DEF TypeInv
    <2> QED
        BY <2>3, <2>4, <2>5
<1>2. Put(a, Idle) /\ UNCHANGED <<board, knows, cut, posts>>
    BY DEF Release
<1>3. agent' \in [Agent -> AgentState] /\ Settled'
    <2>1. Idle.pc = "idle"
        BY DEF Idle
    <2> QED
        BY <1>2, <2>1, IdleType, PutType
<1> QED
    BY <1>1, <1>2, <1>3, VerbType

LEMMA AnnounceType ==
    ASSUME TypeInv, NEW h \in Host, NEW t \in Task, Announce(h, t)
    PROVE  TypeInv'
<1>1. /\ posts' \subseteq Entry /\ IsFiniteSet(posts')
      /\ board' \in [Host -> SUBSET posts']
    BY PostType DEF Announce
<1> QED
    BY <1>1 DEF Announce, TypeInv, TypeOK, Settled, Holds

LEMMA GossipType ==
    ASSUME TypeInv, NEW p \in Host, NEW q \in Host, Gossip(p, q)
    PROVE  TypeInv'
<1> DEFINE both == board[p] \cup board[q]
<1>1. board' \in [Host -> SUBSET posts']
    <2>1. both \subseteq posts /\ posts' = posts
        BY DEF Gossip, TypeInv, TypeOK
    <2>2. board' = [board EXCEPT ![p] = both, ![q] = both]
        BY DEF Gossip
    <2> HIDE DEF both
    <2> QED
        BY <2>1, <2>2 DEF TypeInv, TypeOK
<1>2. knows' \in [Host -> SUBSET Host]
    BY DEF Gossip, TypeInv, TypeOK
<1> QED
    BY <1>1, <1>2 DEF Gossip, TypeInv, TypeOK, Settled, Holds

\* A lapse changes of the agents only that a worker becomes late.
LEMMA LapseAgent ==
    ASSUME TypeInv, NEW h \in Host, NEW t \in Task, Lapse(h, t)
    PROVE  /\ agent' \in [Agent -> AgentState]
           /\ \A b \in Agent :
                 \/ agent'[b] = agent[b] /\ ~(lease[h][t] = b /\ WorksUnder(b, h, t))
                 \/ agent'[b] = [agent[b] EXCEPT !.late = TRUE] /\ agent'[b].late
<1> DEFINE holder == lease[h][t]
           s == [agent[holder] EXCEPT !.late = TRUE]
<1>1. agent \in [Agent -> AgentState]
    BY AgentType DEF TypeInv
<1>2. holder \in Agent
    BY DEF Lapse, TypeInv, TypeOK
<1>3. s \in AgentState /\ s.late
    BY <1>1, <1>2 DEF AgentState
<1>4. CASE WorksUnder(holder, h, t)
    <2>1. agent' = [agent EXCEPT ![holder] = s]
        BY <1>4 DEF Lapse, Put
    <2>2. agent' \in [Agent -> AgentState]
        BY <1>1, <1>3, <2>1
    <2>3. agent'[holder] = s
        BY <1>1, <1>2, <2>1
    <2>4. ASSUME NEW b \in Agent, b # holder
          PROVE  agent'[b] = agent[b]
        BY <1>1, <2>1, <2>4
    <2>5. ASSUME NEW b \in Agent
          PROVE  \/ agent'[b] = agent[b] /\ b # holder
                 \/ agent'[b] = [agent[b] EXCEPT !.late = TRUE] /\ agent'[b].late
        BY <1>3, <2>3, <2>4
    <2> QED
        BY <2>2, <2>5
<1>5. CASE ~WorksUnder(holder, h, t)
    BY <1>1, <1>5 DEF Lapse
<1> QED
    BY <1>4, <1>5

\* So its verb stands where it stood.
LEMMA LapseVerb ==
    ASSUME TypeInv, NEW h \in Host, NEW t \in Task, Lapse(h, t), NEW b \in Agent
    PROVE  /\ agent'[b].pc = agent[b].pc /\ agent'[b].task = agent[b].task
           /\ agent'[b].at = agent[b].at /\ agent'[b].fell = agent[b].fell
           /\ agent'[b].seen = agent[b].seen
<1> DEFINE r == agent[b]
           x == [r EXCEPT !.late = TRUE]
<1>1. r \in AgentState
    BY AgentType DEF TypeInv
<1>2. /\ x.pc = r.pc /\ x.task = r.task /\ x.at = r.at
      /\ x.fell = r.fell /\ x.seen = r.seen
    <2> HIDE DEF r
    <2> QED
        BY <1>1 DEF AgentState
<1>3. agent'[b] = r \/ agent'[b] = x
    BY LapseAgent
<1> HIDE DEF r, x
<1>4. /\ agent'[b].pc = r.pc /\ agent'[b].task = r.task /\ agent'[b].at = r.at
      /\ agent'[b].fell = r.fell /\ agent'[b].seen = r.seen
    BY <1>2, <1>3
<1> QED
    BY <1>4 DEF r

LEMMA LapseType ==
    ASSUME TypeInv, NEW h \in Host, NEW t \in Task, Lapse(h, t)
    PROVE  TypeInv'
<1>1. lease' \in [Host -> [Task -> Agent \cup {Nobody}]]
    BY LeaseType DEF Lapse, TypeInv
<1>2. agent' \in [Agent -> AgentState]
    BY LapseAgent
<1>3. Settled'
    BY LapseVerb DEF TypeInv, Settled, Holds
<1> QED
    BY <1>1, <1>2, <1>3, VerbType DEF Lapse

LEMMA DieType ==
    ASSUME TypeInv, NEW a \in Agent, Die(a)
    PROVE  TypeInv'
<1> DEFINE s == [Idle EXCEPT !.pc = "dead"]
<1>1. s \in AgentState /\ s.pc = "dead"
    BY DEF Idle, AgentState, Pc
<1>2. Put(a, s) /\ UNCHANGED <<board, lease, knows, cut, posts>>
    BY DEF Die
<1> HIDE DEF s
<1>3. agent' \in [Agent -> AgentState] /\ Settled'
    BY <1>1, <1>2, PutType
<1> QED
    BY <1>2, <1>3, VerbType DEF TypeInv, TypeOK

LEMMA LinkType ==
    ASSUME TypeInv, NEW p \in Host, NEW q \in Host, Cut(p, q) \/ Heal(p, q)
    PROVE  TypeInv'
BY DEF Cut, Heal, TypeInv, TypeOK, Settled, Holds

LEMMA InitType == Init => TypeInv
<1> SUFFICES ASSUME Init PROVE TypeInv
    OBVIOUS
<1>1. agent \in [Agent -> AgentState] /\ \A a \in Agent : agent[a].pc = "idle"
    BY IdleType DEF Init, Idle
<1>2. IsFiniteSet(posts)
    BY FS_EmptySet DEF Init
<1>3. knows \in [Host -> SUBSET Host]
    BY DEF Init
<1> QED
    BY <1>1, <1>2, <1>3 DEF Init, TypeInv, TypeOK, Settled, Holds, AgentState, Pc

LEMMA NextType == TypeInv /\ [Next]_vars => TypeInv'
<1> SUFFICES ASSUME TypeInv, [Next]_vars PROVE TypeInv'
    OBVIOUS
<1>1. ASSUME NEW h \in Host, NEW t \in Task, Announce(h, t) \/ Lapse(h, t) PROVE TypeInv'
    BY <1>1, AnnounceType, LapseType
<1>2. ASSUME NEW p \in Host, NEW q \in Host, Gossip(p, q) \/ Cut(p, q) \/ Heal(p, q)
      PROVE TypeInv'
    BY <1>2, GossipType, LinkType
<1>3. ASSUME NEW a \in Agent, Verb(a) \/ Die(a) PROVE TypeInv'
    BY <1>3, TakeType, FallBackType, AwardType, ReleaseType, ClaimType, UnansweredType,
       DoneType, DieType DEF Verb
<1>4. CASE UNCHANGED vars
    BY <1>4 DEF vars, TypeInv, TypeOK, Settled, Holds
<1> QED
    BY <1>1, <1>2, <1>3, <1>4 DEF Next

LEMMA TypeHolds == Spec => []TypeInv
BY InitType, NextType, PTL DEF Spec

\* The state keeps its type, in particular boards hold posted entries only.
THEOREM TypeCorrect == Spec => []TypeOK
<1>1. TypeInv => TypeOK
    BY DEF TypeInv
<1> QED
    BY <1>1, TypeHolds, PTL

----------------------------------------------------------------------------
(* An agent at work holds its lease.                                       *)

\* A verb of a leaves the other workers' leases alone, and has one itself
\* if it is at work.
LEMMA LeasedStep ==
    ASSUME TypeInv, WorkIsLeased, NEW a \in Agent, NEW s, Put(a, s),
           \A b \in Agent \ {a} : InTime(b) => lease'[agent[b].at][agent[b].task] = b,
           s.pc \in {"granted", "working"} /\ ~s.late => lease'[s.at][s.task] = a
    PROVE  WorkIsLeased'
<1>1. agent' = [agent EXCEPT ![a] = s] /\ agent \in [Agent -> AgentState]
    BY AgentType DEF Put, TypeInv
<1> QED
    BY <1>1 DEF WorkIsLeased, InTime, Holds

\* POST /claims says yes to an agent only where no other one is at work.
LEMMA GrantLeased ==
    ASSUME TypeInv, WorkIsLeased, NEW a \in Agent, NEW h \in Host, NEW t \in Task,
           Free(h, t, a), Grant(a, h, t)
    PROVE  /\ lease'[h][t] = a
           /\ \A b \in Agent \ {a} : InTime(b) => lease'[agent[b].at][agent[b].task] = b
<1>1. lease' = [lease EXCEPT ![h][t] = a] /\ lease \in [Host -> [Task -> Agent \cup {Nobody}]]
    BY DEF Grant, TypeInv, TypeOK
<1>2. ASSUME NEW b \in Agent \ {a}, InTime(b)
      PROVE  lease'[agent[b].at][agent[b].task] = b
    <2>1. agent[b].at \in Host /\ agent[b].task \in Task
        BY <1>2 DEF TypeInv, Settled, InTime, Holds
    <2>2. lease[agent[b].at][agent[b].task] = b
        BY <1>2 DEF WorkIsLeased
    <2>3. ~(agent[b].at = h /\ agent[b].task = t)
        BY <2>2, NobodyAssumption DEF Free
    <2> QED
        BY <1>1, <2>1, <2>2, <2>3
<1> QED
    BY <1>1, <1>2

LEMMA SkipLeased ==
    ASSUME TypeInv, WorkIsLeased, NEW a \in Agent, NEW o, Skip(a, o), UNCHANGED lease
    PROVE  WorkIsLeased'
<1> DEFINE rest == agent[a].seen \ {o}
           s == IF rest = {} THEN Idle ELSE [Idle EXCEPT !.pc = "taking", !.seen = rest]
<1>1. s.pc \in {"idle", "taking"} /\ Put(a, s)
    BY DEF Skip, Idle
<1> HIDE DEF s
<1> QED
    BY <1>1, LeasedStep DEF WorkIsLeased

LEMMA ClaimLeased ==
    ASSUME TypeInv, WorkIsLeased, NEW a \in Agent, NEW o \in Offer, Claim(a, o)
    PROVE  WorkIsLeased'
<1> DEFINE h == ClaimAt(HostOf[a], o.home)
           s == [Idle EXCEPT !.pc = "granted", !.task = o.task, !.at = h]
<1>1. h \in Host /\ o.task \in Task
    BY PlaceAssumption, ClaimAtType DEF TypeInv, Offer
<1>2. CASE Free(h, o.task, a) /\ Grant(a, h, o.task) /\ Put(a, s)
    <2>1. s.at = h /\ s.task = o.task
        BY DEF Idle
    <2> HIDE DEF s, h
    <2> QED
        BY <1>1, <1>2, <2>1, GrantLeased, LeasedStep
<1>3. CASE Skip(a, o) /\ UNCHANGED lease
    BY <1>3, SkipLeased
<1> QED
    BY <1>2, <1>3 DEF Claim

LEMMA UnansweredLeased ==
    ASSUME TypeInv, WorkIsLeased, NEW a \in Agent, NEW o \in Offer, Unanswered(a, o)
    PROVE  WorkIsLeased'
<1> DEFINE h == ClaimAt(HostOf[a], o.home)
           s == [agent[a] EXCEPT !.pc = "away", !.task = o.task]
<1>1. h \in Host /\ o.task \in Task
    BY PlaceAssumption, ClaimAtType DEF TypeInv, Offer
<1>2. s.pc = "away" /\ Put(a, s)
    BY AgentType DEF Unanswered, TypeInv, AgentState
<1>3. UNCHANGED lease \/ (Free(h, o.task, a) /\ Grant(a, h, o.task))
    BY DEF Unanswered
<1> HIDE DEF s, h
<1>4. \A b \in Agent \ {a} : InTime(b) => lease'[agent[b].at][agent[b].task] = b
    <2>1. CASE UNCHANGED lease
        BY <2>1 DEF WorkIsLeased
    <2>2. CASE Free(h, o.task, a) /\ Grant(a, h, o.task)
        BY <1>1, <2>2, GrantLeased
    <2> QED
        BY <1>3, <2>1, <2>2
<1> QED
    BY <1>2, <1>4, LeasedStep

LEMMA FallBackLeased ==
    ASSUME TypeInv, WorkIsLeased, NEW a \in Agent, FallBack(a)
    PROVE  WorkIsLeased'
<1> DEFINE h == HostOf[a]
           t == agent[a].task
           s == [Idle EXCEPT !.pc = "working", !.task = t, !.at = h, !.fell = TRUE]
<1>1. h \in Host /\ t \in Task
    BY PlaceAssumption DEF FallBack, TypeInv, Settled
<1>2. CASE Free(h, t, a) /\ Grant(a, h, t) /\ Put(a, s)
    <2>1. s.at = h /\ s.task = t
        BY DEF Idle
    <2> HIDE DEF s, h, t
    <2> QED
        BY <1>1, <1>2, <2>1, GrantLeased, LeasedStep
<1>3. ASSUME NEW o \in agent[a].seen, Skip(a, o), UNCHANGED lease
      PROVE  WorkIsLeased'
    BY <1>3, SkipLeased
<1> QED
    BY <1>2, <1>3 DEF FallBack

\* A step after which a stands elsewhere in its verb, with the same lease.
LEMMA SameLeaseLeased ==
    ASSUME TypeInv, WorkIsLeased, NEW a \in Agent, NEW pc \in Pc,
           Holds(a), Put(a, [agent[a] EXCEPT !.pc = pc]), UNCHANGED lease
    PROVE  WorkIsLeased'
<1> DEFINE s == [agent[a] EXCEPT !.pc = pc]
<1>1. s.at = agent[a].at /\ s.task = agent[a].task /\ s.late = agent[a].late
    BY AgentType DEF TypeInv, AgentState
<1> HIDE DEF s
<1> QED
    BY <1>1, LeasedStep DEF WorkIsLeased, InTime, s

\* done takes nobody's lease but the agent's own.
LEMMA ReleaseLeased ==
    ASSUME TypeInv, WorkIsLeased, NEW a \in Agent, Release(a)
    PROVE  WorkIsLeased'
<1> DEFINE h == ReleaseAt(a)
           t == agent[a].task
<1>1. h \in Host /\ t \in Task
    BY PlaceAssumption, ClaimAtType DEF ReleaseAt, Release, TypeInv, Settled
<1>2. \/ lease[h][t] = a /\ lease' = [lease EXCEPT ![h][t] = Nobody]
      \/ lease' = lease
    BY DEF Release, Released
<1>3. Put(a, Idle) /\ Idle.pc = "idle"
    BY DEF Release, Idle
<1> HIDE DEF h, t
<1>4. ASSUME NEW b \in Agent \ {a}, InTime(b)
      PROVE  lease'[agent[b].at][agent[b].task] = b
    <2>1. agent[b].at \in Host /\ agent[b].task \in Task
        BY <1>4 DEF TypeInv, Settled, InTime, Holds
    <2>2. lease[agent[b].at][agent[b].task] = b
        BY <1>4 DEF WorkIsLeased
    <2> QED
        BY <1>1, <1>2, <2>1, <2>2 DEF TypeInv, TypeOK
<1> QED
    BY <1>3, <1>4, LeasedStep

\* A lease that runs out was nobody's, or its worker is late from then on.
LEMMA LapseLeased ==
    ASSUME TypeInv, WorkIsLeased, NEW h \in Host, NEW t \in Task, Lapse(h, t)
    PROVE  WorkIsLeased'
<1>1. ASSUME NEW b \in Agent, InTime(b)'
      PROVE  lease'[agent'[b].at][agent'[b].task] = b
    <2>1. /\ InTime(b) /\ agent'[b] = agent[b]
          /\ ~(lease[h][t] = b /\ WorksUnder(b, h, t))
        <3>1. ~agent'[b].late
            BY <1>1 DEF InTime
        <3>2. agent'[b] = agent[b] /\ ~(lease[h][t] = b /\ WorksUnder(b, h, t))
            BY <3>1, LapseAgent
        <3> QED
            BY <1>1, <3>2 DEF InTime, Holds
    <2>2. agent[b].at \in Host /\ agent[b].task \in Task
        BY <2>1 DEF TypeInv, Settled, InTime, Holds
    <2>3. lease[agent[b].at][agent[b].task] = b
        BY <2>1 DEF WorkIsLeased
    <2>4. ~(agent[b].at = h /\ agent[b].task = t)
        BY <2>1, <2>3 DEF InTime, WorksUnder
    <2>5. lease' = [lease EXCEPT ![h][t] = Nobody] /\ lease \in [Host -> [Task -> Agent \cup {Nobody}]]
        BY DEF Lapse, TypeInv, TypeOK
    <2> QED
        BY <2>1, <2>2, <2>3, <2>4, <2>5
<1> QED
    BY <1>1 DEF WorkIsLeased

LEMMA NextLeased == TypeInv /\ WorkIsLeased /\ [Next]_vars => WorkIsLeased'
<1> SUFFICES ASSUME TypeInv, WorkIsLeased, [Next]_vars PROVE WorkIsLeased'
    OBVIOUS
<1>1. ASSUME NEW h \in Host, NEW t \in Task, Announce(h, t) PROVE WorkIsLeased'
    BY <1>1 DEF Announce, WorkIsLeased, InTime, Holds
<1>2. ASSUME NEW p \in Host, NEW q \in Host, Gossip(p, q) \/ Cut(p, q) \/ Heal(p, q)
      PROVE WorkIsLeased'
    BY <1>2 DEF Gossip, Cut, Heal, WorkIsLeased, InTime, Holds
<1>3. ASSUME NEW a \in Agent, Verb(a) PROVE WorkIsLeased'
    <2>1. CASE Take(a)
        <3> DEFINE s == [Idle EXCEPT !.pc = "taking", !.seen = Ranked(HostOf[a], a)]
        <3>1. s.pc = "taking" /\ Put(a, s) /\ UNCHANGED lease
            BY <2>1 DEF Take, Idle
        <3> HIDE DEF s
        <3> QED
            BY <3>1, LeasedStep DEF WorkIsLeased
    <2>2. CASE Award(a)
        BY <2>2, SameLeaseLeased DEF Award, Holds, Pc
    <2>3. ASSUME NEW ok \in BOOLEAN, Done(a, ok) PROVE WorkIsLeased'
        BY <2>3, SameLeaseLeased DEF Done, Holds, Pc
    <2> QED
        BY <1>3, <2>1, <2>2, <2>3, FallBackLeased, ReleaseLeased, ClaimLeased, UnansweredLeased
        DEF Verb
<1>4. ASSUME NEW a \in Agent, Die(a) PROVE WorkIsLeased'
    <2> DEFINE s == [Idle EXCEPT !.pc = "dead"]
    <2>1. s.pc = "dead" /\ Put(a, s) /\ UNCHANGED lease
        BY <1>4 DEF Die, Idle
    <2> HIDE DEF s
    <2> QED
        BY <2>1, LeasedStep DEF WorkIsLeased
<1>5. CASE UNCHANGED vars
    BY <1>5 DEF vars, WorkIsLeased, InTime, Holds
<1> QED
    BY <1>1, <1>2, <1>3, <1>4, <1>5, LapseLeased DEF Next

LEMMA InitLeased == Init => WorkIsLeased
BY DEF Init, Idle, WorkIsLeased, InTime, Holds

\* An agent at work holds the lease it was granted until its ttl is over: no
\* other agent's take, late done or death takes it away, whatever endpoints
\* and answers do.
THEOREM LeaseKept == Spec => []WorkIsLeased
BY InitLeased, NextLeased, TypeHolds, PTL DEF Spec

----------------------------------------------------------------------------
(* Two agents that work on one task.                                       *)

\* One host sweeps, and all others have an endpoint for it from the start.
OneHome(s) ==
    /\ s \in Host /\ Sweeper = {s}
    /\ \A h \in Host \ {s} : <<h, s>> \in Learned

\* Then every announcement, offer and undisturbed lease is at that host.
SentHome(s) ==
    /\ \A e \in posts : e.kind = "announce" => e.origin = s
    /\ \A h \in Host \ {s} : s \in knows[h]
    /\ \A a \in Agent : \A o \in agent[a].seen : o.home = s
    /\ \A a \in Agent : Holds(a) /\ ~agent[a].fell => agent[a].at = s

\* Of entries, one is the earliest: Winner has something to choose.
LEMMA EarliestExists ==
    ASSUME NEW S \in SUBSET Entry, S # {}
    PROVE  Winner(Earlier, S) \in S
<1> DEFINE T == {e.ts : e \in S}
           R == OpToRel(<, Nat)
<1>1. T \subseteq Nat /\ T # {}
    BY BoundAssumption DEF Entry
<1>2. \E m \in T : \A n \in T : ~ (<<n, m>> \in R)
    BY <1>1, NatLessThanWellFounded, WFMin
<1>3. PICK m \in T : \A n \in T : ~ (<<n, m>> \in R)
    BY <1>2
<1>4. \A n \in T : ~(n < m)
    BY <1>1, <1>3 DEF OpToRel
<1>5. \E e \in S : \A d \in S : ~Earlier(d, e)
    BY <1>4 DEF Earlier
<1> QED
    BY <1>5 DEF Winner

\* The view of a task names the sweeping host as its home, or nobody.
LEMMA ViewHome ==
    ASSUME TypeInv, NEW s, SentHome(s), NEW h \in Host, NEW t \in Task,
           View(h, t).home \in Host
    PROVE  View(h, t).home = s
<1> DEFINE S == Saying(board[h], t, "announce")
           w == Winner(Earlier, S)
<1>1. S \in SUBSET Entry /\ \A e \in S : e.origin = s
    BY DEF TypeInv, TypeOK, SentHome, Saying
<1>2. View(h, t).home = IF w = Nobody THEN Nobody ELSE w.origin
    BY DEF View, ViewOf, TaskView
<1>3. w # Nobody
    BY <1>2, NobodyAssumption
<1>4. S # {}
    BY <1>3 DEF Winner
<1>5. w \in S
    BY <1>1, <1>4, EarliestExists
<1> QED
    BY <1>1, <1>2, <1>3, <1>5

\* An agent with an endpoint for the host that sweeps claims there.
LEMMA ClaimAtHome ==
    ASSUME TypeInv, NEW s \in Host, SentHome(s), NEW h \in Host
    PROVE  ClaimAt(h, s) = s
BY DEF ClaimAt, SentHome

\* A verb keeps SentHome if what it puts down for its agent does.
LEMMA SentStep ==
    ASSUME TypeInv, NEW s, SentHome(s), NEW a \in Agent, NEW x, Put(a, x), UNCHANGED knows,
           \A e \in posts' : e.kind = "announce" => e.origin = s,
           \A o \in x.seen : o.home = s,
           x.pc \in {"granted", "working"} /\ ~x.fell => x.at = s
    PROVE  SentHome(s)'
<1>1. agent' = [agent EXCEPT ![a] = x] /\ agent \in [Agent -> AgentState]
    BY AgentType DEF Put, TypeInv
<1> QED
    BY <1>1 DEF SentHome, Holds

LEMMA SkipSent ==
    ASSUME TypeInv, NEW s, SentHome(s), NEW a \in Agent, NEW o, Skip(a, o), UNCHANGED <<posts, knows>>
    PROVE  SentHome(s)'
<1> DEFINE rest == agent[a].seen \ {o}
           x == IF rest = {} THEN Idle ELSE [Idle EXCEPT !.pc = "taking", !.seen = rest]
<1>1. Put(a, x) /\ x.seen \subseteq agent[a].seen /\ x.pc \in {"idle", "taking"}
    BY DEF Skip, Idle
<1> HIDE DEF x
<1> QED
    BY <1>1, SentStep DEF SentHome

LEMMA VerbSent ==
    ASSUME TypeInv, NEW s \in Host, SentHome(s), NEW a \in Agent, Verb(a)
    PROVE  SentHome(s)'
<1>1. HostOf[a] \in Host /\ agent[a] \in AgentState
    BY PlaceAssumption, AgentType DEF TypeInv
<1>2. CASE Take(a)
    <2> DEFINE x == [Idle EXCEPT !.pc = "taking", !.seen = Ranked(HostOf[a], a)]
    <2>1. Put(a, x) /\ x.seen = Ranked(HostOf[a], a) /\ x.pc = "taking" /\ UNCHANGED <<posts, knows>>
        BY <1>2 DEF Take, Idle
    <2> HIDE DEF x
    <2>2. \A o \in Ranked(HostOf[a], a) : o.home = s
        <3> SUFFICES ASSUME NEW o \in Ranked(HostOf[a], a) PROVE o.home = s
            OBVIOUS
        <3>1. o.task \in Task /\ o.home \in Host /\ View(HostOf[a], o.task).home = o.home
            BY DEF Ranked, Offer
        <3> QED
            BY <1>1, <3>1, ViewHome
    <2> QED
        <3>1. \A o \in x.seen : o.home = s
            BY <2>1, <2>2
        <3>2. \A e \in posts' : e.kind = "announce" => e.origin = s
            BY <2>1 DEF SentHome
        <3>3. ~(x.pc \in {"granted", "working"})
            BY <2>1
        <3> QED
            BY <2>1, <3>1, <3>2, <3>3, SentStep
<1>3. ASSUME NEW o \in Offer, Claim(a, o) PROVE SentHome(s)'
    <2> DEFINE h == ClaimAt(HostOf[a], o.home)
               x == [Idle EXCEPT !.pc = "granted", !.task = o.task, !.at = h]
    <2>1. UNCHANGED <<posts, knows>> /\ o.home = s
        BY <1>3 DEF Claim, SentHome
    <2>2. h = s
        BY <1>1, <2>1, ClaimAtHome
    <2>3. x.at = h /\ x.seen = {}
        BY DEF Idle
    <2>4. CASE Put(a, x)
        <3> HIDE DEF x
        <3> QED
            BY <2>1, <2>2, <2>3, <2>4, SentStep DEF SentHome
    <2>5. CASE Skip(a, o)
        BY <2>1, <2>5, SkipSent
    <2> QED
        BY <1>3, <2>4, <2>5 DEF Claim
<1>4. ASSUME NEW o \in Offer, Unanswered(a, o) PROVE SentHome(s)'
    <2> DEFINE x == [agent[a] EXCEPT !.pc = "away", !.task = o.task]
    <2>1. UNCHANGED <<posts, knows>> /\ Put(a, x)
        BY <1>4 DEF Unanswered
    <2>2. x.seen = agent[a].seen /\ x.pc = "away"
        BY <1>1 DEF AgentState
    <2> HIDE DEF x
    <2> QED
        BY <2>1, <2>2, SentStep DEF SentHome
<1>5. CASE FallBack(a)
    <2> DEFINE x == [Idle EXCEPT !.pc = "working", !.task = agent[a].task, !.at = HostOf[a], !.fell = TRUE]
    <2>1. UNCHANGED <<posts, knows>>
        BY <1>5 DEF FallBack
    <2>2. x.seen = {} /\ x.fell
        BY DEF Idle
    <2>3. CASE Put(a, x)
        <3> HIDE DEF x
        <3> QED
            BY <2>1, <2>2, <2>3, SentStep DEF SentHome
    <2>4. ASSUME NEW o \in agent[a].seen, Skip(a, o) PROVE SentHome(s)'
        BY <2>1, <2>4, SkipSent
    <2> QED
        BY <1>5, <2>3, <2>4 DEF FallBack
<1>6. ASSUME NEW pc \in {"working", "reported"}, NEW kind \in {"award", "done"}, NEW to, NEW ok,
             Holds(a), Put(a, [agent[a] EXCEPT !.pc = pc]), UNCHANGED knows,
             Post(HostOf[a], kind, agent[a].task, a, to, ok)
      PROVE  SentHome(s)'
    <2> DEFINE x == [agent[a] EXCEPT !.pc = pc]
    <2>1. x.seen = agent[a].seen /\ x.at = agent[a].at /\ x.fell = agent[a].fell
        BY <1>1 DEF AgentState
    <2>2. \A e \in posts' : e.kind = "announce" => e.origin = s
        BY <1>6 DEF Post, SentHome
    <2>3. Put(a, x)
        BY <1>6
    <2> HIDE DEF x
    <2> QED
        BY <1>6, <2>1, <2>2, <2>3, SentStep DEF SentHome
<1>7. CASE Award(a)
    <2>1. /\ Holds(a) /\ Put(a, [agent[a] EXCEPT !.pc = "working"]) /\ UNCHANGED knows
          /\ Post(HostOf[a], "award", agent[a].task, a, a, TRUE)
        BY <1>7 DEF Award, Holds
    <2> QED
        BY <1>6, <2>1
<1>8. ASSUME NEW ok \in BOOLEAN, Done(a, ok) PROVE SentHome(s)'
    BY <1>6, <1>8 DEF Done, Holds
<1>9. CASE Release(a)
    <2>1. Put(a, Idle) /\ UNCHANGED <<posts, knows>> /\ Idle.seen = {} /\ Idle.pc = "idle"
        BY <1>9 DEF Release, Idle
    <2> QED
        BY <2>1, SentStep DEF SentHome
<1> QED
    BY <1>2, <1>3, <1>4, <1>5, <1>7, <1>8, <1>9 DEF Verb

LEMMA NextSent ==
    ASSUME NEW s, OneHome(s)
    PROVE  TypeInv /\ SentHome(s) /\ [Next]_vars => SentHome(s)'
<1> SUFFICES ASSUME TypeInv, SentHome(s), [Next]_vars PROVE SentHome(s)'
    OBVIOUS
<1> USE DEF OneHome
<1>1. ASSUME NEW h \in Host, NEW t \in Task, Announce(h, t) PROVE SentHome(s)'
    <2>1. \A e \in posts' : e.kind = "announce" => e.origin = s
        BY <1>1 DEF Announce, Post, SentHome
    <2> QED
        BY <1>1, <2>1 DEF Announce, SentHome, Holds
<1>2. ASSUME NEW p \in Host, NEW q \in Host, Gossip(p, q) PROVE SentHome(s)'
    BY <1>2 DEF Gossip, SentHome, Holds, TypeInv, TypeOK
<1>3. ASSUME NEW h \in Host, NEW t \in Task, Lapse(h, t) PROVE SentHome(s)'
    BY <1>3, LapseVerb DEF Lapse, SentHome, Holds
<1>4. ASSUME NEW p \in Host, NEW q \in Host, Cut(p, q) \/ Heal(p, q) PROVE SentHome(s)'
    BY <1>4 DEF Cut, Heal, SentHome, Holds
<1>5. ASSUME NEW a \in Agent, Die(a) PROVE SentHome(s)'
    <2> DEFINE x == [Idle EXCEPT !.pc = "dead"]
    <2>1. Put(a, x) /\ UNCHANGED <<posts, knows>> /\ x.seen = {} /\ x.pc = "dead"
        BY <1>5 DEF Die, Idle
    <2> HIDE DEF x
    <2> QED
        BY <2>1, SentStep DEF SentHome
<1>6. CASE UNCHANGED vars
    BY <1>6 DEF vars, SentHome, Holds
<1> QED
    BY <1>1, <1>2, <1>3, <1>4, <1>5, <1>6, VerbSent DEF Next

LEMMA InitSent ==
    ASSUME NEW s, OneHome(s)
    PROVE  Init => SentHome(s)
BY DEF Init, OneHome, SentHome, Idle, Holds

\* Of two agents that work on one task, one has outlived its lease or has
\* fallen back to its own host's table, however endpoints fail and answers
\* get lost.
THEOREM DuplicatesExplained ==
    ASSUME NEW s, OneHome(s)
    PROVE  Spec => []DuplicatesAreExplained
<1>1. WorkIsLeased /\ SentHome(s) => DuplicatesAreExplained
    BY DEF WorkIsLeased, SentHome, DuplicatesAreExplained, Clash, InTime
<1> QED
    BY <1>1, InitSent, NextSent, TypeHolds, LeaseKept, PTL DEF Spec

\* Nobody falls back while every endpoint answers.
NoneFell ==
    /\ cut = {}
    /\ \A a \in Agent : agent[a].pc # "away" /\ ~agent[a].fell

\* Where endpoints answer, two agents work on one task only after one of
\* them has outlived its lease.
THEOREM OneWorkerPerTask ==
    ASSUME NEW s, OneHome(s), ~LinksFail, ~RepliesFail
    PROVE  Spec => []OneWorker
<1>1. Init => NoneFell
    BY DEF Init, NoneFell, Idle
<1>2. TypeInv /\ NoneFell /\ [Next]_vars => NoneFell'
    <2> SUFFICES ASSUME TypeInv, NoneFell, [Next]_vars PROVE NoneFell'
        OBVIOUS
    <2>1. agent \in [Agent -> AgentState]
        BY AgentType DEF TypeInv
    <2>2. ASSUME NEW a \in Agent, NEW x, Put(a, x), x.pc # "away", ~x.fell, UNCHANGED cut
          PROVE  NoneFell'
        BY <2>1, <2>2 DEF Put, NoneFell
    <2>3. ASSUME NEW a \in Agent, Verb(a) PROVE NoneFell'
        <3>1. CASE Take(a)
            <4> DEFINE x == [Idle EXCEPT !.pc = "taking", !.seen = Ranked(HostOf[a], a)]
            <4>1. Put(a, x) /\ x.pc = "taking" /\ ~x.fell /\ UNCHANGED cut
                BY <3>1 DEF Take, Idle
            <4> HIDE DEF x
            <4> QED
                BY <2>2, <4>1
        <3>2. ASSUME NEW o \in Offer, Claim(a, o) PROVE NoneFell'
            <4> DEFINE rest == agent[a].seen \ {o}
                       x == [Idle EXCEPT !.pc = "granted", !.task = o.task,
                                         !.at = ClaimAt(HostOf[a], o.home)]
                       y == IF rest = {} THEN Idle ELSE [Idle EXCEPT !.pc = "taking", !.seen = rest]
            <4>1. (Put(a, x) \/ Put(a, y)) /\ UNCHANGED cut
                BY <3>2 DEF Claim, Skip
            <4>2. x.pc # "away" /\ ~x.fell /\ y.pc # "away" /\ ~y.fell
                BY DEF Idle
            <4> HIDE DEF x, y
            <4> QED
                BY <2>2, <4>1, <4>2
        <3>3. ASSUME NEW o \in Offer, Unanswered(a, o) PROVE NoneFell'
            BY <3>3 DEF Unanswered, Reachable, NoneFell
        <3>4. CASE FallBack(a)
            BY <3>4 DEF FallBack, NoneFell
        <3>5. ASSUME NEW pc \in {"working", "reported"}, Put(a, [agent[a] EXCEPT !.pc = pc]), UNCHANGED cut
              PROVE  NoneFell'
            <4> DEFINE x == [agent[a] EXCEPT !.pc = pc]
            <4>1. x.pc # "away" /\ ~x.fell
                BY <2>1 DEF NoneFell, AgentState
            <4> HIDE DEF x
            <4> QED
                BY <2>2, <3>5, <4>1 DEF x
        <3>6. ASSUME Award(a) \/ \E ok \in BOOLEAN : Done(a, ok) PROVE NoneFell'
            BY <3>5, <3>6 DEF Award, Done
        <3>7. CASE Release(a)
            BY <2>2, <3>7 DEF Release, Idle
        <3> QED
            BY <2>3, <3>1, <3>2, <3>3, <3>4, <3>6, <3>7 DEF Verb
    <2>4. ASSUME NEW a \in Agent, Die(a) PROVE NoneFell'
        BY <2>2, <2>4 DEF Die, Idle
    <2>5. ASSUME NEW p, NEW q, Gossip(p, q) \/ Cut(p, q) \/ Heal(p, q) PROVE NoneFell'
        BY <2>5 DEF Gossip, Cut, Heal, NoneFell
    <2>6. ASSUME NEW h \in Host, NEW t \in Task, Announce(h, t) \/ Lapse(h, t) PROVE NoneFell'
        <3>1. CASE Announce(h, t)
            BY <3>1 DEF Announce, NoneFell
        <3>2. CASE Lapse(h, t)
            BY <3>2, LapseVerb DEF Lapse, NoneFell
        <3> QED
            BY <2>6, <3>1, <3>2
    <2>7. CASE UNCHANGED vars
        BY <2>7 DEF vars, NoneFell
    <2> QED
        BY <2>3, <2>4, <2>5, <2>6, <2>7 DEF Next
<1>3. DuplicatesAreExplained /\ NoneFell => OneWorker
    BY DEF DuplicatesAreExplained, NoneFell, OneWorker, Clash
<1> QED
    BY <1>1, <1>2, <1>3, TypeHolds, DuplicatesExplained, PTL DEF Spec

----------------------------------------------------------------------------
(* Agent: sequences, and what the API takes.                              *)

\* What is asked of sequences here.
LEMMA Appended ==
    ASSUME NEW V, NEW s \in Seq(V), NEW e \in V
    PROVE  /\ Append(s, e) \in Seq(V) /\ Len(Append(s, e)) = Len(s) + 1
           /\ DOMAIN s = 1..Len(s) /\ DOMAIN Append(s, e) = 1..(Len(s) + 1)
           /\ \A i \in 1..Len(s) : Append(s, e)[i] = s[i]
           /\ Append(s, e)[Len(s) + 1] = e
           /\ Len(s) \in Nat
BY AppendProperties, LenProperties

LEMMA Members ==
    ASSUME NEW V, NEW s \in Seq(V)
    PROVE  Len(s) \in Nat /\ DOMAIN s = 1..Len(s) /\ \A i \in 1..Len(s) : s[i] \in V
BY LenProperties, ElementOfSeq

LEMMA ResultsType ==
    ASSUME NEW m \in Msg
    PROVE  ResultsOf(m) \in Msg /\ ResultsOf(m).kind = "results" /\ ResultsOf(m).id = m.id /\ ResultsOf(m).of = m.of
BY DEF ResultsOf, Msg

\* A message is told by its fields.
LEMMA SameMessage ==
    ASSUME NEW m \in Msg, NEW n \in Msg, m.kind = n.kind, m.id = n.id, m.of = n.of
    PROVE  m = n
BY DEF Msg

----------------------------------------------------------------------------
(* What a request may carry.                                               *)

\* No message among h's that is anything else than calls or results changes
\* what comes after calls.
LEMMA AnswerableMore ==
    ASSUME NEW h \in Seq(Msg), NEW m \in Msg, Answerable(h), m.kind \notin {"calls", "results"}
    PROVE  Answerable(Append(h, m))
<1> DEFINE g == Append(h, m)
<1>1. /\ Len(g) = Len(h) + 1 /\ DOMAIN h = 1..Len(h) /\ DOMAIN g = 1..(Len(h) + 1)
      /\ \A i \in 1..Len(h) : g[i] = h[i]
      /\ g[Len(h) + 1] = m /\ Len(h) \in Nat
  BY Appended
<1> HIDE DEF g
<1>2. ASSUME NEW i \in DOMAIN g, g[i].kind = "calls" PROVE i < Len(g) /\ g[i + 1] = ResultsOf(g[i])
  <2>1. i \in 1..Len(h) /\ g[i] = h[i]
    BY <1>1, <1>2
  <2>2. i < Len(h) /\ h[i + 1] = ResultsOf(h[i])
    BY <1>1, <1>2, <2>1 DEF Answerable, Orphans
  <2>3. i + 1 \in 1..Len(h)
    BY <1>1, <2>1, <2>2
  <2> QED
    BY <1>1, <2>1, <2>2, <2>3
<1>3. ASSUME NEW i \in DOMAIN g, g[i].kind = "results" PROVE i > 1 /\ g[i] = ResultsOf(g[i - 1])
  <2>1. i \in 1..Len(h) /\ g[i] = h[i]
    BY <1>1, <1>3
  <2>2. i > 1 /\ h[i] = ResultsOf(h[i - 1])
    BY <1>1, <1>3, <2>1 DEF Answerable
  <2>3. i - 1 \in 1..Len(h)
    BY <1>1, <2>1, <2>2
  <2> QED
    BY <1>1, <2>1, <2>2, <2>3
<1>4. Answerable(g)
  BY <1>2, <1>3 DEF Answerable, Orphans
<1> QED
  BY <1>4 DEF g

\* Calls with their results behind them are answered.
LEMMA AnswerableRound ==
    ASSUME NEW h \in Seq(Msg), NEW c \in Msg, Answerable(h), c.kind = "calls"
    PROVE  Answerable(Append(Append(h, c), ResultsOf(c)))
<1> DEFINE f == Append(h, c)
           g == Append(f, ResultsOf(c))
<1>1. ResultsOf(c) \in Msg /\ ResultsOf(c).kind = "results"
  BY ResultsType
<1>2. /\ f \in Seq(Msg) /\ Len(f) = Len(h) + 1 /\ DOMAIN h = 1..Len(h)
      /\ \A i \in 1..Len(h) : f[i] = h[i]
      /\ f[Len(h) + 1] = c /\ Len(h) \in Nat
  BY Appended
<1> HIDE DEF f
<1>3. /\ Len(g) = Len(f) + 1 /\ DOMAIN g = 1..(Len(f) + 1)
      /\ \A i \in 1..Len(f) : g[i] = f[i]
      /\ g[Len(f) + 1] = ResultsOf(c)
  BY <1>1, <1>2, Appended
<1> HIDE DEF g
<1>4. /\ Len(g) = Len(h) + 2 /\ DOMAIN g = 1..(Len(h) + 2)
      /\ \A i \in 1..Len(h) : g[i] = h[i]
      /\ g[Len(h) + 1] = c /\ g[Len(h) + 2] = ResultsOf(c)
  BY <1>2, <1>3
<1>5. ASSUME NEW i \in DOMAIN g, g[i].kind = "calls" PROVE i < Len(g) /\ g[i + 1] = ResultsOf(g[i])
  <2>1. CASE i \in 1..Len(h)
    <3>1. i < Len(h) /\ h[i + 1] = ResultsOf(h[i])
      BY <1>2, <1>4, <1>5, <2>1 DEF Answerable, Orphans
    <3>2. i + 1 \in 1..Len(h)
      BY <1>2, <2>1, <3>1
    <3> QED
      BY <1>2, <1>4, <2>1, <3>1, <3>2
  <2>2. CASE i = Len(h) + 1
    BY <1>2, <1>4, <2>2
  <2>3. i # Len(h) + 2
    BY <1>1, <1>4, <1>5
  <2> QED
    BY <1>2, <1>4, <2>1, <2>2, <2>3
<1>6. ASSUME NEW i \in DOMAIN g, g[i].kind = "results" PROVE i > 1 /\ g[i] = ResultsOf(g[i - 1])
  <2>1. CASE i \in 1..Len(h)
    <3>1. i > 1 /\ h[i] = ResultsOf(h[i - 1])
      BY <1>2, <1>4, <1>6, <2>1 DEF Answerable
    <3>2. i - 1 \in 1..Len(h)
      BY <1>2, <2>1, <3>1
    <3> QED
      BY <1>2, <1>4, <2>1, <3>1, <3>2
  <2>2. i # Len(h) + 1
    BY <1>4, <1>6
  <2>3. CASE i = Len(h) + 2
    BY <1>2, <1>4, <2>3
  <2> QED
    BY <1>2, <1>4, <2>1, <2>2, <2>3
<1>7. Answerable(g)
  BY <1>5, <1>6 DEF Answerable, Orphans
<1> QED
  BY <1>7 DEF f, g

LEMMA AnswerableNothing == Answerable(<<>>)
<1>1. DOMAIN <<>> = {}
  BY EmptySeq
<1> QED
  BY <1>1 DEF Answerable, Orphans

\* What is not empty has a least element.
LEMMA Earliest ==
    ASSUME NEW S \in SUBSET Nat, S # {}
    PROVE  \E m \in S : \A n \in S : m <= n
<1> DEFINE R == OpToRel(<, Nat)
<1>1. \E m \in S : \A n \in S : ~ (<<n, m>> \in R)
  BY NatLessThanWellFounded, WFMin
<1>2. PICK m \in S : \A n \in S : ~ (<<n, m>> \in R)
  BY <1>1
<1>3. \A n \in S : ~(n < m)
  BY <1>2 DEF OpToRel
<1> QED
  BY <1>3

\* What is rebuilt is the transcript, up to its first calls without results.
LEMMA RebuiltUpTo ==
    ASSUME NEW t \in Seq(Msg)
    PROVE  \E n \in 0..Len(t) :
             /\ Rebuild(t) = SubSeq(t, 1, n)
             /\ \A i \in 1..n : t[i].kind = "calls" => i < Len(t) /\ t[i + 1] = ResultsOf(t[i])
             /\ n < Len(t) => t[n + 1].kind = "calls"
<1>1. Len(t) \in Nat /\ DOMAIN t = 1..Len(t)
  BY Members
<1>2. CASE Orphans(t) = {}
  <2>1. Rebuild(t) = t /\ t = SubSeq(t, 1, Len(t))
    BY <1>2, SubSeqFull DEF Rebuild
  <2>2. \A i \in 1..Len(t) : t[i].kind = "calls" => i < Len(t) /\ t[i + 1] = ResultsOf(t[i])
    BY <1>1, <1>2 DEF Orphans
  <2>3. Len(t) \in 0..Len(t) /\ ~(Len(t) < Len(t))
    BY <1>1
  <2> QED
    BY <2>1, <2>2, <2>3
<1>3. CASE Orphans(t) # {}
  <2> DEFINE m == CHOOSE i \in Orphans(t) : \A j \in Orphans(t) : i <= j
  <2>1. Orphans(t) \in SUBSET Nat /\ Orphans(t) \subseteq 1..Len(t)
    BY <1>1 DEF Orphans
  <2>2. \E i \in Orphans(t) : \A j \in Orphans(t) : i <= j
    BY <1>3, <2>1, Earliest
  <2>3. m \in Orphans(t) /\ \A j \in Orphans(t) : m <= j
    BY <2>2
  <2>4. Rebuild(t) = SubSeq(t, 1, m - 1)
    BY <1>3 DEF Rebuild
  <2> HIDE DEF m
  <2>5. m \in 1..Len(t) /\ t[m].kind = "calls"
    BY <2>1, <2>3 DEF Orphans
  <2>6. ASSUME NEW i \in 1..(m - 1), t[i].kind = "calls" PROVE i < Len(t) /\ t[i + 1] = ResultsOf(t[i])
    <3>1. i \in DOMAIN t /\ ~(m <= i)
      BY <1>1, <2>5
    <3> QED
      BY <2>3, <2>6, <3>1 DEF Orphans
  <2>7. m - 1 \in 0..Len(t) /\ (m - 1) + 1 = m
    BY <1>1, <2>5
  <2> QED
    BY <2>4, <2>5, <2>6, <2>7
<1> QED
  BY <1>2, <1>3

\* What the transcript knows of calls: each is there once, each results once
\* and after its calls.
Ordered(t) ==
    /\ \A i \in DOMAIN t : t[i].kind # "cue"
    /\ \A i, j \in DOMAIN t : t[i] = t[j] /\ t[i].kind \in {"calls", "results"} => i = j
    /\ \A i \in DOMAIN t : t[i].kind = "results" => \E j \in 1..(i - 1) : t[j].kind = "calls" /\ t[i] = ResultsOf(t[j])

LEMMA RebuiltIsAnswerable ==
    ASSUME NEW t \in Seq(Msg), Ordered(t)
    PROVE  Rebuild(t) \in Seq(Msg) /\ Answerable(Rebuild(t))
<1>1. PICK n \in 0..Len(t) :
        /\ Rebuild(t) = SubSeq(t, 1, n)
        /\ \A i \in 1..n : t[i].kind = "calls" => i < Len(t) /\ t[i + 1] = ResultsOf(t[i])
        /\ n < Len(t) => t[n + 1].kind = "calls"
  BY RebuiltUpTo
<1>2. Len(t) \in Nat /\ DOMAIN t = 1..Len(t) /\ \A i \in 1..Len(t) : t[i] \in Msg
  BY Members
<1>3. n \in Nat /\ n <= Len(t)
  BY <1>1, <1>2
<1> DEFINE g == SubSeq(t, 1, n)
<1>4. g \in Seq(Msg) /\ Len(g) = n /\ \A i \in 1..n : g[i] = t[i]
  <2>1. \A i \in 1..n : t[i] \in Msg
    BY <1>2, <1>3
  <2> QED
    BY <1>3, <2>1, SubSeqProperties
<1>5. DOMAIN g = 1..n
  BY <1>4, LenProperties
<1> HIDE DEF g
<1>6. ASSUME NEW i \in DOMAIN g, g[i].kind = "calls" PROVE i < Len(g) /\ g[i + 1] = ResultsOf(g[i])
  <2>1. i \in 1..n /\ g[i] = t[i] /\ t[i] \in Msg
    BY <1>2, <1>3, <1>4, <1>5, <1>6
  <2>2. i < Len(t) /\ t[i + 1] = ResultsOf(t[i])
    BY <1>1, <1>6, <2>1
  <2>3. t[i + 1].kind = "results"
    BY <2>1, <2>2, ResultsType
  <2>4. i # n
    BY <1>1, <2>2, <2>3
  <2>5. i + 1 \in 1..n /\ i < n
    BY <1>3, <2>1, <2>4
  <2> QED
    BY <1>4, <2>1, <2>2, <2>5
<1>7. ASSUME NEW i \in DOMAIN g, g[i].kind = "results" PROVE i > 1 /\ g[i] = ResultsOf(g[i - 1])
  <2>1. i \in 1..n /\ i \in DOMAIN t /\ g[i] = t[i]
    BY <1>2, <1>3, <1>4, <1>5, <1>7
  <2>2. PICK j \in 1..(i - 1) : t[j].kind = "calls" /\ t[i] = ResultsOf(t[j])
    BY <1>7, <2>1 DEF Ordered
  <2>3. j \in 1..n /\ j < Len(t) /\ t[j + 1] = ResultsOf(t[j])
    BY <1>1, <1>3, <2>1, <2>2
  <2>4. j + 1 \in DOMAIN t /\ t[j + 1] = t[i]
    BY <1>2, <2>2, <2>3
  <2>5. t[i].kind = "results"
    BY <1>7, <2>1
  <2>6. j + 1 = i
    BY <2>1, <2>4, <2>5 DEF Ordered
  <2>7. g[j] = t[j] /\ i - 1 = j /\ i > 1
    BY <1>4, <2>1, <2>2, <2>3, <2>6
  <2> QED
    BY <2>1, <2>2, <2>7
<1>8. Answerable(g)
  BY <1>6, <1>7 DEF Answerable, Orphans
<1> QED
  BY <1>1, <1>4, <1>8 DEF g

----------------------------------------------------------------------------
(* What a transcript tells.                                                *)

\* What holds of 0, and of a number's successor with it, holds of all.
LEMMA ByNumber ==
    ASSUME NEW P \in SUBSET Nat, 0 \in P, \A n \in P : n + 1 \in P
    PROVE  P = Nat
<1> DEFINE Q == Nat \ P
<1> SUFFICES ASSUME Q # {} PROVE FALSE
  OBVIOUS
<1>1. PICK m \in Q : \A n \in Q : m <= n
  <2>1. Q \in SUBSET Nat
    OBVIOUS
  <2> HIDE DEF Q
  <2> QED
    BY <2>1, Earliest
<1>2. m \in Nat /\ m # 0 /\ m - 1 \in Nat /\ ~(m <= m - 1)
  BY <1>1
<1>3. m - 1 \in P
  BY <1>1, <1>2
<1>4. (m - 1) + 1 \in P
  BY <1>3, Zenon
<1>5. (m - 1) + 1 = m
  BY <1>2
<1> QED
  BY <1>1, <1>4, <1>5

\* f chooses from s, position by position.
Chooses(f, s, keep, n) ==
    /\ f[0] = <<>>
    /\ \A k \in 1..n : f[k] = IF k \in keep THEN Append(f[k - 1], s[k]) ELSE f[k - 1]

LEMMA ChoiceExists ==
    ASSUME NEW s \in Seq(Msg), NEW keep
    PROVE  \E f \in [0..Len(s) -> Seq(Msg)] : Chooses(f, s, keep, Len(s))
<1>1. Len(s) \in Nat /\ \A i \in 1..Len(s) : s[i] \in Msg
  BY Members
<1> DEFINE P == {n \in Nat : n <= Len(s) => \E f \in [0..n -> Seq(Msg)] : Chooses(f, s, keep, n)}
<1>2. 0 \in P
  <2> DEFINE f == [k \in 0..0 |-> <<>>]
  <2>1. <<>> \in Seq(Msg)
    BY EmptySeq
  <2>2. f \in [0..0 -> Seq(Msg)] /\ Chooses(f, s, keep, 0)
    BY <2>1 DEF Chooses
  <2> QED
    BY <2>2
<1>3. ASSUME NEW n \in P PROVE n + 1 \in P
  <2> SUFFICES ASSUME n + 1 <= Len(s)
               PROVE  \E g \in [0..(n + 1) -> Seq(Msg)] : Chooses(g, s, keep, n + 1)
    OBVIOUS
  <2>1. n \in Nat /\ n <= Len(s) /\ n + 1 \in 1..Len(s)
    BY <1>1
  <2>2. PICK f \in [0..n -> Seq(Msg)] : Chooses(f, s, keep, n)
    BY <2>1
  <2> DEFINE last == IF n + 1 \in keep THEN Append(f[n], s[n + 1]) ELSE f[n]
             g == [k \in 0..(n + 1) |-> IF k = n + 1 THEN last ELSE f[k]]
  <2>3. last \in Seq(Msg)
    <3>1. f[n] \in Seq(Msg) /\ s[n + 1] \in Msg
      BY <1>1, <2>1
    <3> QED
      BY <3>1, AppendProperties
  <2>4. g[n + 1] = last /\ \A k \in 0..n : g[k] = f[k]
    BY <2>1
  <2>5. \A k \in 0..(n + 1) : g[k] \in Seq(Msg)
    BY <2>1, <2>3
  <2>6. g \in [0..(n + 1) -> Seq(Msg)]
    <3> HIDE DEF last
    <3> QED
      BY <2>5
  <2> HIDE DEF g
  <2>7. g[0] = <<>>
    <3>1. f[0] = <<>>
      BY <2>2 DEF Chooses
    <3>2. 0 \in 0..n
      BY <2>1
    <3> HIDE DEF last
    <3> QED
      BY <2>4, <3>1, <3>2
  <2>8. ASSUME NEW k \in 1..(n + 1)
        PROVE  g[k] = IF k \in keep THEN Append(g[k - 1], s[k]) ELSE g[k - 1]
    <3>1. CASE k = n + 1
      <4>1. k - 1 = n /\ g[k - 1] = f[n]
        BY <2>1, <2>4, <3>1
      <4> QED
        BY <2>4, <3>1, <4>1
    <3>2. CASE k # n + 1
      <4>1. k \in 1..n /\ k - 1 \in 0..n
        BY <2>1, <3>2
      <4>2. g[k] = f[k] /\ g[k - 1] = f[k - 1]
        BY <2>4, <4>1
      <4> QED
        BY <2>2, <4>1, <4>2 DEF Chooses
    <3> QED
      BY <3>1, <3>2
  <2> QED
    BY <2>6, <2>7, <2>8 DEF Chooses
<1>4. P \in SUBSET Nat
  OBVIOUS
<1> HIDE DEF P
<1>5. P = Nat
  BY <1>2, <1>3, <1>4, ByNumber
<1> QED
  BY <1>1, <1>5 DEF P

\* What Chosen gives is the end of such a choice.
LEMMA ChosenIs ==
    ASSUME NEW s \in Seq(Msg), NEW keep
    PROVE  \E f \in [0..Len(s) -> Seq(Msg)] : Chooses(f, s, keep, Len(s)) /\ Chosen(s, keep) = f[Len(s)]
<1> DEFINE Value(f, n) == IF n = 0 THEN <<>> ELSE IF n \in keep THEN Append(f[n - 1], s[n]) ELSE f[n - 1]
           Steps(f) == [n \in 0..Len(s) |-> Value(f, n)]
           taken == CHOOSE f : f = Steps(f)
<1>1. Len(s) \in Nat
  BY Members
<1>2. PICK f \in [0..Len(s) -> Seq(Msg)] : Chooses(f, s, keep, Len(s))
  BY ChoiceExists
<1>3. f = Steps(f)
  <2>1. ASSUME NEW k \in 0..Len(s) PROVE f[k] = Value(f, k)
    <3>1. CASE k = 0
      BY <1>2, <3>1 DEF Chooses
    <3>2. CASE k # 0
      <4>1. k \in 1..Len(s)
        BY <1>1, <3>2
      <4> QED
        BY <1>2, <3>2, <4>1 DEF Chooses
    <3> QED
      BY <3>1, <3>2
  <2> HIDE DEF Value
  <2> QED
    BY <2>1
<1>4. taken = Steps(taken)
  <2> HIDE DEF Steps
  <2> QED
    BY <1>3
<1>5. Chosen(s, keep) = taken[Len(s)]
  BY DEF Chosen
<1> HIDE DEF taken
<1>6. taken[0] = <<>> /\ \A k \in 1..Len(s) : taken[k] = IF k \in keep THEN Append(taken[k - 1], s[k]) ELSE taken[k - 1]
  <2> DEFINE g == Steps(taken)
  <2>1. \A k \in 0..Len(s) : g[k] = Value(taken, k)
    <3> HIDE DEF Value
    <3> QED
      OBVIOUS
  <2> HIDE DEF g
  <2>2. taken = g
    BY <1>4 DEF g
  <2>3. \A k \in 0..Len(s) : taken[k] = Value(taken, k)
    BY <2>1, <2>2
  <2>4. 0 \in 0..Len(s) /\ \A k \in 1..Len(s) : k \in 0..Len(s) /\ k # 0
    BY <1>1
  <2> QED
    BY <2>3, <2>4
<1> DEFINE P == {n \in Nat : n <= Len(s) => taken[n] = f[n]}
<1>7. 0 \in P
  BY <1>2, <1>6 DEF Chooses
<1>8. ASSUME NEW n \in P PROVE n + 1 \in P
  <2> SUFFICES ASSUME n + 1 <= Len(s) PROVE taken[n + 1] = f[n + 1]
    OBVIOUS
  <2>1. n + 1 \in 1..Len(s) /\ (n + 1) - 1 = n /\ taken[n] = f[n]
    BY <1>1
  <2> QED
    BY <1>2, <1>6, <2>1 DEF Chooses
<1>9. P \in SUBSET Nat
  OBVIOUS
<1> HIDE DEF P
<1>10. P = Nat
  BY <1>7, <1>8, <1>9, ByNumber
<1> QED
  BY <1>1, <1>2, <1>5, <1>10 DEF P

\* A choice of the same positions ends the same.
LEMMA SameChoice ==
    ASSUME NEW s \in Seq(Msg), NEW keep, NEW g, NEW r, NEW other, Chooses(g, r, other, Len(s)),
           \A i \in 1..Len(s) : r[i] = s[i] /\ (i \in other <=> i \in keep)
    PROVE  g[Len(s)] = Chosen(s, keep)
<1>1. PICK f \in [0..Len(s) -> Seq(Msg)] : Chooses(f, s, keep, Len(s)) /\ Chosen(s, keep) = f[Len(s)]
  BY ChosenIs
<1>2. Len(s) \in Nat
  BY Members
<1> DEFINE P == {n \in Nat : n <= Len(s) => g[n] = f[n]}
<1>3. 0 \in P
  BY <1>1 DEF Chooses
<1>4. ASSUME NEW n \in P PROVE n + 1 \in P
  <2> SUFFICES ASSUME n + 1 <= Len(s) PROVE g[n + 1] = f[n + 1]
    OBVIOUS
  <2>1. n + 1 \in 1..Len(s) /\ (n + 1) - 1 = n /\ g[n] = f[n]
    BY <1>2
  <2>2. g[n + 1] = IF n + 1 \in other THEN Append(g[n], r[n + 1]) ELSE g[n]
    BY <2>1 DEF Chooses
  <2>3. f[n + 1] = IF n + 1 \in keep THEN Append(f[n], s[n + 1]) ELSE f[n]
    BY <1>1, <2>1 DEF Chooses
  <2> QED
    BY <2>1, <2>2, <2>3
<1>5. P \in SUBSET Nat
  OBVIOUS
<1> HIDE DEF P
<1>6. P = Nat
  BY <1>3, <1>4, <1>5, ByNumber
<1> QED
  BY <1>1, <1>2, <1>6 DEF P

LEMMA ChosenType ==
    ASSUME NEW s \in Seq(Msg), NEW keep
    PROVE  Chosen(s, keep) \in Seq(Msg)
<1>1. PICK f \in [0..Len(s) -> Seq(Msg)] : Chosen(s, keep) = f[Len(s)]
  BY ChosenIs
<1>2. Len(s) \in 0..Len(s)
  BY Members
<1> QED
  BY <1>1, <1>2

LEMMA ChosenNone ==
    ASSUME NEW keep
    PROVE  Chosen(<<>>, keep) = <<>>
<1>1. <<>> \in Seq(Msg) /\ Len(<<>>) = 0
  BY EmptySeq
<1>2. PICK f \in [0..Len(<<>>) -> Seq(Msg)] : Chooses(f, <<>>, keep, Len(<<>>)) /\ Chosen(<<>>, keep) = f[Len(<<>>)]
  BY <1>1, ChosenIs
<1> QED
  BY <1>1, <1>2 DEF Chooses

LEMMA ChosenAlike ==
    ASSUME NEW s \in Seq(Msg), NEW keep, NEW other, \A i \in 1..Len(s) : i \in other <=> i \in keep
    PROVE  Chosen(s, keep) = Chosen(s, other)
<1>1. PICK f \in [0..Len(s) -> Seq(Msg)] : Chooses(f, s, other, Len(s)) /\ Chosen(s, other) = f[Len(s)]
  BY ChosenIs
<1>2. f[Len(s)] = Chosen(s, keep)
  BY <1>1, SameChoice
<1> QED
  BY <1>1, <1>2

LEMMA ChosenMore ==
    ASSUME NEW s \in Seq(Msg), NEW m \in Msg, NEW keep
    PROVE  Chosen(Append(s, m), keep) = IF Len(s) + 1 \in keep THEN Append(Chosen(s, keep), m) ELSE Chosen(s, keep)
<1> DEFINE r == Append(s, m)
           n == Len(s)
<1>1. r \in Seq(Msg) /\ Len(r) = n + 1 /\ n \in Nat /\ r[n + 1] = m /\ \A i \in 1..n : r[i] = s[i]
  BY Appended
<1> HIDE DEF r
<1>2. PICK f \in [0..Len(r) -> Seq(Msg)] : Chooses(f, r, keep, Len(r)) /\ Chosen(r, keep) = f[Len(r)]
  BY <1>1, ChosenIs
<1>3. Chooses(f, r, keep, n)
  <2>1. \A k \in 1..n : k \in 1..(n + 1)
    BY <1>1
  <2> QED
    BY <1>1, <1>2, <2>1 DEF Chooses
<1>4. f[n] = Chosen(s, keep)
  BY <1>1, <1>3, SameChoice
<1>5. n + 1 \in 1..Len(r) /\ (n + 1) - 1 = n
  BY <1>1
<1>6. f[n + 1] = IF n + 1 \in keep THEN Append(f[n], r[n + 1]) ELSE f[n]
  BY <1>2, <1>5 DEF Chooses
<1>7. Chosen(r, keep) = IF n + 1 \in keep THEN Append(Chosen(s, keep), m) ELSE Chosen(s, keep)
  BY <1>1, <1>2, <1>4, <1>6
<1> QED
  BY <1>7 DEF r

\* A sequence up to a position and what is there make it up to there.
LEMMA NextUp ==
    ASSUME NEW s \in Seq(Msg), NEW k \in 1..Len(s)
    PROVE  Append(SubSeq(s, 1, k - 1), s[k]) = SubSeq(s, 1, k)
<1>1. Len(s) \in Nat /\ \A i \in 1..Len(s) : s[i] \in Msg
  BY Members
<1> DEFINE a == SubSeq(s, 1, k - 1)
           b == SubSeq(s, 1, k)
           c == Append(a, s[k])
<1>2. a \in Seq(Msg) /\ Len(a) = k - 1 /\ \A i \in 1..(k - 1) : a[i] = s[i]
  <2>1. \A i \in 1..(k - 1) : s[i] \in Msg
    BY <1>1
  <2>2. k - 1 \in Int /\ 1 \in Int /\ k - 1 >= 0
    BY <1>1
  <2> QED
    BY <2>1, <2>2, SubSeqProperties
<1>3. b \in Seq(Msg) /\ Len(b) = k /\ \A i \in 1..k : b[i] = s[i]
  <2>1. \A i \in 1..k : s[i] \in Msg
    BY <1>1
  <2>2. k \in Int /\ 1 \in Int /\ k >= 1
    BY <1>1
  <2> QED
    BY <2>1, <2>2, SubSeqProperties
<1> HIDE DEF a, b
<1>4. s[k] \in Msg
  BY <1>1
<1>5. c \in Seq(Msg) /\ Len(c) = (k - 1) + 1 /\ (\A i \in 1..(k - 1) : c[i] = a[i]) /\ c[(k - 1) + 1] = s[k]
  BY <1>2, <1>4, Appended
<1> HIDE DEF c
<1>6. \A i \in 1..k : c[i] = b[i]
  BY <1>1, <1>2, <1>3, <1>5
<1>7. Len(c) = Len(b) /\ Len(c) = k
  BY <1>1, <1>3, <1>5
<1>8. c = b
  BY <1>3, <1>5, <1>6, <1>7, SeqEqual
<1> QED
  BY <1>8 DEF a, b, c

LEMMA ChosenAll ==
    ASSUME NEW s \in Seq(Msg), NEW keep, 1..Len(s) \subseteq keep
    PROVE  Chosen(s, keep) = s
<1> DEFINE g == [k \in 0..Len(s) |-> SubSeq(s, 1, k)]
<1>1. Len(s) \in Nat
  BY Members
<1>2. \A k \in 0..Len(s) : g[k] = SubSeq(s, 1, k)
  OBVIOUS
<1> HIDE DEF g
<1>3. g[0] = <<>>
  <2>1. SubSeq(s, 1, 0) = <<>>
    BY SubSeqEmpty
  <2> QED
    BY <1>1, <1>2, <2>1
<1>4. ASSUME NEW k \in 1..Len(s) PROVE g[k] = IF k \in keep THEN Append(g[k - 1], s[k]) ELSE g[k - 1]
  <2>1. k \in 0..Len(s) /\ k - 1 \in 0..Len(s) /\ k \in keep
    BY <1>1
  <2> QED
    BY <1>2, <2>1, NextUp
<1>5. Chooses(g, s, keep, Len(s))
  BY <1>3, <1>4 DEF Chooses
<1>6. g[Len(s)] = Chosen(s, keep)
  BY <1>5, SameChoice
<1>7. g[Len(s)] = s
  BY <1>1, <1>2, SubSeqFull
<1> QED
  BY <1>6, <1>7

LEMMA Slice ==
    ASSUME NEW t \in Seq(Msg), NEW i \in Nat \ {0}, NEW j \in 0..Len(t), i <= j + 1
    PROVE  /\ SubSeq(t, i, j) \in Seq(Msg) /\ Len(SubSeq(t, i, j)) = j - i + 1
           /\ \A k \in 1..(j - i + 1) : SubSeq(t, i, j)[k] = t[i + k - 1]
<1>1. Len(t) \in Nat /\ \A k \in 1..Len(t) : t[k] \in Msg
  BY Members
<1>2. \A k \in i..j : t[k] \in Msg
  BY <1>1
<1>3. i \in Int /\ j \in Int
  BY <1>1
<1>4. /\ SubSeq(t, i, j) \in Seq(Msg) /\ Len(SubSeq(t, i, j)) = IF i <= j THEN j - i + 1 ELSE 0
      /\ \A k \in 1..(j - i + 1) : SubSeq(t, i, j)[k] = t[i + k - 1]
  BY <1>2, <1>3, SubSeqProperties
<1> QED
  BY <1>3, <1>4

LEMMA RebuildType ==
    ASSUME NEW t \in Seq(Msg)
    PROVE  Rebuild(t) \in Seq(Msg)
<1>1. PICK n \in 0..Len(t) : Rebuild(t) = SubSeq(t, 1, n)
  BY RebuiltUpTo
<1>2. 1 \in Nat \ {0} /\ 1 <= n + 1
  BY Members
<1> QED
  BY <1>1, <1>2, Slice

\* A line more is one after what came before.
LEMMA SliceMore ==
    ASSUME NEW t \in Seq(Msg), NEW m \in Msg, NEW n \in 0..Len(t)
    PROVE  /\ SubSeq(Append(t, m), 1, n) = SubSeq(t, 1, n)
           /\ SubSeq(Append(t, m), n + 1, Len(t) + 1) = Append(SubSeq(t, n + 1, Len(t)), m)
<1> DEFINE r == Append(t, m)
           l == Len(t)
<1>1. r \in Seq(Msg) /\ Len(r) = l + 1 /\ l \in Nat /\ r[l + 1] = m /\ \A i \in 1..l : r[i] = t[i]
  BY Appended
<1>2. n \in Nat /\ n <= l /\ n \in 0..l /\ n \in 0..(l + 1) /\ l + 1 \in 0..(l + 1) /\ l \in 0..l
  BY <1>1
<1> HIDE DEF r, l
<1>3. SubSeq(r, 1, n) = SubSeq(t, 1, n)
  <2>1. 1 \in Nat \ {0} /\ 1 <= n + 1 /\ n - 1 + 1 = n
    BY <1>2
  <2>2. SubSeq(t, 1, n) \in Seq(Msg) /\ Len(SubSeq(t, 1, n)) = n /\ \A k \in 1..n : SubSeq(t, 1, n)[k] = t[1 + k - 1]
    BY <1>2, <2>1, Slice DEF l
  <2>3. SubSeq(r, 1, n) \in Seq(Msg) /\ Len(SubSeq(r, 1, n)) = n /\ \A k \in 1..n : SubSeq(r, 1, n)[k] = r[1 + k - 1]
    BY <1>1, <1>2, <2>1, Slice
  <2>4. \A k \in 1..n : 1 + k - 1 = k /\ k \in 1..l
    BY <1>2
  <2>5. \A k \in 1..n : SubSeq(r, 1, n)[k] = SubSeq(t, 1, n)[k]
    BY <1>1, <2>2, <2>3, <2>4
  <2> QED
    BY <2>2, <2>3, <2>5, SeqEqual
<1>4. SubSeq(r, n + 1, l + 1) = Append(SubSeq(t, n + 1, l), m)
  <2> DEFINE a == SubSeq(t, n + 1, l)
             b == SubSeq(r, n + 1, l + 1)
             c == Append(a, m)
             k == l - n
  <2>1. n + 1 \in Nat \ {0} /\ n + 1 <= l + 1 /\ n + 1 <= (l + 1) + 1 /\ k \in Nat
    BY <1>1, <1>2
  <2>2. l - (n + 1) + 1 = k /\ (l + 1) - (n + 1) + 1 = k + 1
    BY <1>1, <1>2
  <2>3. a \in Seq(Msg) /\ Len(a) = k /\ \A i \in 1..k : a[i] = t[(n + 1) + i - 1]
    <3>1. /\ a \in Seq(Msg) /\ Len(a) = l - (n + 1) + 1
          /\ \A i \in 1..(l - (n + 1) + 1) : a[i] = t[(n + 1) + i - 1]
      BY <1>2, <2>1, Slice DEF l
    <3> HIDE DEF a, k
    <3> QED
      BY <2>2, <3>1
  <2>4. b \in Seq(Msg) /\ Len(b) = k + 1 /\ \A i \in 1..(k + 1) : b[i] = r[(n + 1) + i - 1]
    <3>1. /\ b \in Seq(Msg) /\ Len(b) = (l + 1) - (n + 1) + 1
          /\ \A i \in 1..((l + 1) - (n + 1) + 1) : b[i] = r[(n + 1) + i - 1]
      <4>1. l + 1 \in 0..Len(r)
        BY <1>1, <1>2
      <4> QED
        BY <1>1, <2>1, <4>1, Slice
    <3> HIDE DEF b, k
    <3> QED
      BY <2>2, <3>1
  <2> HIDE DEF a, b
  <2>5. c \in Seq(Msg) /\ Len(c) = k + 1 /\ (\A i \in 1..k : c[i] = a[i]) /\ c[k + 1] = m
    <3> HIDE DEF k
    <3>1. a \in Seq(Msg) /\ Len(a) = k
      BY <2>3
    <3>2. /\ Append(a, m) \in Seq(Msg) /\ Len(Append(a, m)) = Len(a) + 1
          /\ (\A i \in 1..Len(a) : Append(a, m)[i] = a[i]) /\ Append(a, m)[Len(a) + 1] = m
      BY <3>1, Appended
    <3> QED
      BY <3>1, <3>2
  <2> HIDE DEF c
  <2>6. ASSUME NEW i \in 1..(k + 1) PROVE b[i] = c[i]
    <3>1. CASE i = k + 1
      <4>1. (n + 1) + i - 1 = l + 1
        BY <1>1, <1>2, <3>1
      <4> QED
        BY <1>1, <2>4, <2>5, <2>6, <3>1, <4>1
    <3>2. CASE i # k + 1
      <4>1. i \in 1..k /\ (n + 1) + i - 1 \in 1..l
        BY <1>1, <1>2, <2>6, <3>2
      <4> QED
        BY <1>1, <2>3, <2>4, <2>5, <2>6, <4>1
    <3> QED
      BY <3>1, <3>2
  <2> HIDE DEF k
  <2>7. b = c
    BY <2>4, <2>5, <2>6, SeqEqual
  <2> QED
    BY <2>7 DEF a, b, c
<1> QED
  BY <1>3, <1>4 DEF r, l

\* A cue is not told, anything else is.
LEMMA SpokenMore ==
    ASSUME NEW h \in Seq(Msg), NEW m \in Msg
    PROVE  Spoken(Append(h, m)) = IF m.kind = "cue" THEN Spoken(h) ELSE Append(Spoken(h), m)
<1> DEFINE g == Append(h, m)
           keep == {i \in DOMAIN h : h[i].kind # "cue"}
           more == {i \in DOMAIN g : g[i].kind # "cue"}
<1>1. /\ Len(h) \in Nat /\ DOMAIN h = 1..Len(h) /\ DOMAIN g = 1..(Len(h) + 1)
      /\ g[Len(h) + 1] = m /\ \A i \in 1..Len(h) : g[i] = h[i]
  BY Appended
<1>2. Spoken(g) = IF Len(h) + 1 \in more THEN Append(Chosen(h, more), m) ELSE Chosen(h, more)
  BY ChosenMore DEF Spoken
<1> HIDE DEF g
<1>3. \A i \in 1..Len(h) : i \in more <=> i \in keep
  BY <1>1
<1>4. Len(h) + 1 \in more <=> m.kind # "cue"
  BY <1>1
<1> HIDE DEF more
<1>5. Chosen(h, more) = Spoken(h)
  BY <1>3, ChosenAlike DEF Spoken
<1>6. Spoken(g) = IF m.kind = "cue" THEN Spoken(h) ELSE Append(Spoken(h), m)
  BY <1>2, <1>4, <1>5
<1> QED
  BY <1>6 DEF g

LEMMA SpokenWhole ==
    ASSUME NEW h \in Seq(Msg), \A i \in 1..Len(h) : h[i].kind # "cue"
    PROVE  Spoken(h) = h
<1>1. 1..Len(h) \subseteq {i \in DOMAIN h : h[i].kind # "cue"}
  BY Members
<1> QED
  BY <1>1, ChosenAll DEF Spoken

\* Positions of what is told: all but calls whose results are not there.
Answered(t) == {i \in DOMAIN t : t[i].kind = "calls" => ResultsOf(t[i]) \in ToSet(t)}

\* What is no results leaves of what came before what was told.
LEMMA AnsweredBefore ==
    ASSUME NEW t \in Seq(Msg), NEW m \in Msg,
           \A i \in 1..Len(t) : t[i].kind = "calls" => ResultsOf(t[i]) # m
    PROVE  Chosen(t, Answered(Append(t, m))) = WithoutOrphans(t)
<1> DEFINE r == Append(t, m)
<1>1. /\ Len(t) \in Nat /\ DOMAIN t = 1..Len(t) /\ DOMAIN r = 1..(Len(t) + 1)
      /\ r[Len(t) + 1] = m /\ \A i \in 1..Len(t) : r[i] = t[i]
  BY Appended
<1> HIDE DEF r
<1>2. ToSet(r) = ToSet(t) \cup {m}
  BY <1>1 DEF ToSet
<1>3. \A i \in 1..Len(t) : i \in Answered(r) <=> i \in Answered(t)
  BY <1>1, <1>2 DEF Answered
<1>4. Chosen(t, Answered(r)) = Chosen(t, Answered(t))
  BY <1>3, ChosenAlike
<1>5. Chosen(t, Answered(t)) = WithoutOrphans(t)
  BY DEF WithoutOrphans, Answered
<1> QED
  BY <1>4, <1>5 DEF r

LEMMA WithoutMore ==
    ASSUME NEW t \in Seq(Msg), NEW m \in Msg, m.kind \notin {"calls", "results"}
    PROVE  WithoutOrphans(Append(t, m)) = Append(WithoutOrphans(t), m)
<1> DEFINE r == Append(t, m)
<1>1. Len(t) \in Nat /\ DOMAIN r = 1..(Len(t) + 1) /\ r[Len(t) + 1] = m
  BY Appended
<1>2. \A i \in 1..Len(t) : t[i].kind = "calls" => ResultsOf(t[i]) # m
  BY Members, ResultsType
<1>3. Chosen(t, Answered(r)) = WithoutOrphans(t)
  BY <1>2, AnsweredBefore
<1>4. WithoutOrphans(r) = IF Len(t) + 1 \in Answered(r) THEN Append(Chosen(t, Answered(r)), m) ELSE Chosen(t, Answered(r))
  BY ChosenMore DEF WithoutOrphans, Answered
<1> HIDE DEF r
<1>5. Len(t) + 1 \in Answered(r)
  BY <1>1 DEF Answered
<1>6. WithoutOrphans(r) = Append(WithoutOrphans(t), m)
  BY <1>3, <1>4, <1>5
<1> QED
  BY <1>6 DEF r

LEMMA WithoutCalls ==
    ASSUME NEW t \in Seq(Msg), NEW m \in Msg, m.kind = "calls", \A i \in 1..Len(t) : t[i] # ResultsOf(m)
    PROVE  WithoutOrphans(Append(t, m)) = WithoutOrphans(t)
<1> DEFINE r == Append(t, m)
<1>1. /\ Len(t) \in Nat /\ DOMAIN t = 1..Len(t) /\ DOMAIN r = 1..(Len(t) + 1)
      /\ r[Len(t) + 1] = m /\ \A i \in 1..Len(t) : r[i] = t[i]
  BY Appended
<1>2. \A i \in 1..Len(t) : t[i].kind = "calls" => ResultsOf(t[i]) # m
  BY Members, ResultsType
<1>3. Chosen(t, Answered(r)) = WithoutOrphans(t)
  BY <1>2, AnsweredBefore
<1>4. WithoutOrphans(r) = IF Len(t) + 1 \in Answered(r) THEN Append(Chosen(t, Answered(r)), m) ELSE Chosen(t, Answered(r))
  BY ChosenMore DEF WithoutOrphans, Answered
<1> HIDE DEF r
<1>5. ResultsOf(m) \notin ToSet(r)
  <2>1. ResultsOf(m) # m
    BY ResultsType
  <2>2. \A i \in DOMAIN r : r[i] # ResultsOf(m)
    BY <1>1, <2>1
  <2> QED
    BY <2>2 DEF ToSet
<1>6. Len(t) + 1 \notin Answered(r)
  BY <1>1, <1>5 DEF Answered
<1>7. WithoutOrphans(r) = WithoutOrphans(t)
  BY <1>3, <1>4, <1>6
<1> QED
  BY <1>7 DEF r

LEMMA WithoutRound ==
    ASSUME NEW t \in Seq(Msg), NEW c \in Msg, c.kind = "calls", \A i \in 1..Len(t) : t[i] # c
    PROVE  WithoutOrphans(Append(Append(t, c), ResultsOf(c))) = Append(Append(WithoutOrphans(t), c), ResultsOf(c))
<1> DEFINE m == ResultsOf(c)
           s == Append(t, c)
           r == Append(s, m)
           n == Len(t)
<1>1. m \in Msg /\ m.kind = "results" /\ m.id = c.id /\ m.of = c.of
  BY ResultsType
<1>2. s \in Seq(Msg) /\ Len(s) = n + 1 /\ n \in Nat /\ s[n + 1] = c /\ \A i \in 1..n : s[i] = t[i] /\ t[i] \in Msg
  BY Appended, Members
<1> HIDE DEF m, s, n
<1>3. DOMAIN r = 1..(n + 2) /\ r[n + 2] = m /\ \A i \in 1..(n + 1) : r[i] = s[i]
  <2>1. /\ DOMAIN r = 1..(Len(s) + 1) /\ r[Len(s) + 1] = m /\ \A i \in 1..Len(s) : r[i] = s[i]
    BY <1>1, <1>2, Appended
  <2> HIDE DEF r
  <2> QED
    BY <1>2, <2>1
<1>4. n + 1 \in Answered(r) /\ n + 2 \in Answered(r)
  <2> HIDE DEF r
  <2>1. n + 1 \in DOMAIN r /\ n + 2 \in DOMAIN r /\ r[n + 1] = c
    BY <1>2, <1>3
  <2>2. m \in ToSet(r)
    BY <1>3, <2>1 DEF ToSet
  <2> QED
    BY <1>1, <1>3, <2>1, <2>2 DEF Answered, m
<1>5. Chosen(r, Answered(r)) = Append(Append(Chosen(t, Answered(r)), c), m)
  <2> DEFINE keep == Answered(r)
  <2> HIDE DEF keep
  <2>1. Chosen(r, keep) = IF n + 2 \in keep THEN Append(Chosen(s, keep), m) ELSE Chosen(s, keep)
    <3>1. Len(s) + 1 = n + 2
      BY <1>2
    <3> QED
      BY <1>1, <1>2, <3>1, ChosenMore
  <2>2. Chosen(s, keep) = IF n + 1 \in keep THEN Append(Chosen(t, keep), c) ELSE Chosen(t, keep)
    BY ChosenMore DEF s, n
  <2> QED
    BY <1>4, <2>1, <2>2 DEF keep
<1>6. \A i \in 1..n : i \in Answered(r) <=> i \in Answered(t)
  <2> HIDE DEF r
  <2>1. DOMAIN t = 1..n
    BY Members DEF n
  <2>2. \A i \in 1..n : i \in DOMAIN r /\ r[i] = t[i]
    BY <1>2, <1>3
  <2>3. ASSUME NEW i \in 1..n, t[i].kind = "calls"
        PROVE  ResultsOf(t[i]) \in ToSet(r) <=> ResultsOf(t[i]) \in ToSet(t)
    <3>1. t[i] \in Msg /\ t[i] # c
      BY <1>2 DEF n
    <3>2. ResultsOf(t[i]) # m
      BY <1>1, <2>3, <3>1, ResultsType, SameMessage
    <3>3. ResultsOf(t[i]) # c
      BY <3>1, ResultsType
    <3>4. \A k \in DOMAIN r : k \in 1..n \/ r[k] \in {c, m}
      BY <1>2, <1>3
    <3>5. ToSet(r) \subseteq ToSet(t) \cup {c, m}
      BY <2>1, <2>2, <3>4 DEF ToSet
    <3>6. ToSet(t) \subseteq ToSet(r)
      BY <2>1, <2>2 DEF ToSet
    <3> QED
      BY <3>2, <3>3, <3>5, <3>6
  <2> QED
    BY <2>1, <2>2, <2>3 DEF Answered
<1>7. Chosen(t, Answered(r)) = WithoutOrphans(t)
  <2>1. Chosen(t, Answered(r)) = Chosen(t, Answered(t))
    BY <1>6, ChosenAlike DEF n
  <2> QED
    BY <2>1 DEF WithoutOrphans, Answered
<1>8. WithoutOrphans(r) = Append(Append(WithoutOrphans(t), c), m)
  BY <1>5, <1>7 DEF WithoutOrphans, Answered
<1> QED
  BY <1>8 DEF r, s, m

\* The parts of what is told.
LEMMA Parts ==
    ASSUME NEW t \in Seq(Msg), NEW n \in 0..Len(t)
    PROVE  /\ Rebuild(SubSeq(t, 1, n)) \in Seq(Msg) /\ SubSeq(t, n + 1, Len(t)) \in Seq(Msg)
           /\ WithoutOrphans(SubSeq(t, n + 1, Len(t))) \in Seq(Msg)
<1>1. Len(t) \in Nat /\ Len(t) \in 0..Len(t) /\ n + 1 \in Nat \ {0} /\ n + 1 <= Len(t) + 1 /\ 1 \in Nat \ {0} /\ 1 <= n + 1
  BY Members
<1>2. SubSeq(t, 1, n) \in Seq(Msg) /\ SubSeq(t, n + 1, Len(t)) \in Seq(Msg)
  BY <1>1, Slice
<1> QED
  BY <1>2, RebuildType, ChosenType DEF WithoutOrphans

\* What came since is in the transcript.
LEMMA RestIn ==
    ASSUME NEW t \in Seq(Msg), NEW n \in 0..Len(t), NEW m, \A i \in 1..Len(t) : t[i] # m
    PROVE  \A i \in 1..Len(SubSeq(t, n + 1, Len(t))) : SubSeq(t, n + 1, Len(t))[i] # m
<1> DEFINE b == SubSeq(t, n + 1, Len(t))
<1>1. Len(t) \in Nat /\ n \in Nat /\ n <= Len(t)
  BY Members
<1>2. n + 1 \in Nat \ {0} /\ n + 1 <= Len(t) + 1 /\ Len(t) \in 0..Len(t) /\ Len(t) - (n + 1) + 1 = Len(t) - n
  BY <1>1
<1>3. Len(b) = Len(t) - (n + 1) + 1 /\ \A k \in 1..(Len(t) - (n + 1) + 1) : b[k] = t[(n + 1) + k - 1]
  BY <1>2, Slice
<1> HIDE DEF b
<1>4. \A k \in 1..Len(b) : b[k] = t[(n + 1) + k - 1] /\ (n + 1) + k - 1 \in 1..Len(t)
  BY <1>1, <1>3
<1>5. \A k \in 1..Len(b) : b[k] # m
  BY <1>4
<1> QED
  BY <1>5 DEF b

LEMMA AppendLast ==
    ASSUME NEW a \in Seq(Msg), NEW b \in Seq(Msg), NEW m \in Msg
    PROVE  a \o Append(b, m) = Append(a \o b, m)
<1>1. <<m>> \in Seq(Msg) /\ a \o b \in Seq(Msg)
  BY ConcatProperties
<1>2. Append(b, m) = b \o <<m>> /\ Append(a \o b, m) = (a \o b) \o <<m>>
  BY <1>1, AppendIsConcat
<1> QED
  BY <1>1, <1>2, ConcatAssociative

\* What is told at a length of a transcript one line longer.
LEMMA ToldNext ==
    ASSUME NEW t \in Seq(Msg), NEW n \in 0..Len(t), NEW m \in Msg
    PROVE  Told(Append(t, m), n) = Rebuild(SubSeq(t, 1, n)) \o WithoutOrphans(Append(SubSeq(t, n + 1, Len(t)), m))
<1>1. Len(Append(t, m)) = Len(t) + 1
  BY Appended
<1>2. SubSeq(Append(t, m), 1, n) = SubSeq(t, 1, n)
      /\ SubSeq(Append(t, m), n + 1, Len(t) + 1) = Append(SubSeq(t, n + 1, Len(t)), m)
  BY SliceMore
<1> QED
  BY <1>1, <1>2, Zenon DEF Told

LEMMA ToldMore ==
    ASSUME NEW t \in Seq(Msg), NEW n \in 0..Len(t), NEW m \in Msg, m.kind \notin {"calls", "results"}
    PROVE  Told(Append(t, m), n) = Append(Told(t, n), m)
<1> DEFINE a == Rebuild(SubSeq(t, 1, n))
           b == SubSeq(t, n + 1, Len(t))
<1>1. a \in Seq(Msg) /\ b \in Seq(Msg) /\ WithoutOrphans(b) \in Seq(Msg)
  BY Parts
<1>2. Told(Append(t, m), n) = a \o WithoutOrphans(Append(b, m))
  BY ToldNext
<1>3. Told(t, n) = a \o WithoutOrphans(b)
  BY DEF Told
<1> HIDE DEF a, b
<1>4. WithoutOrphans(Append(b, m)) = Append(WithoutOrphans(b), m)
  BY <1>1, WithoutMore
<1> QED
  BY <1>1, <1>2, <1>3, <1>4, AppendLast

LEMMA ToldCalls ==
    ASSUME NEW t \in Seq(Msg), NEW n \in 0..Len(t), NEW m \in Msg, m.kind = "calls",
           \A i \in 1..Len(t) : t[i] # ResultsOf(m)
    PROVE  Told(Append(t, m), n) = Told(t, n)
<1> DEFINE a == Rebuild(SubSeq(t, 1, n))
           b == SubSeq(t, n + 1, Len(t))
<1>1. a \in Seq(Msg) /\ b \in Seq(Msg)
  BY Parts
<1>2. Told(Append(t, m), n) = a \o WithoutOrphans(Append(b, m))
  BY ToldNext
<1>3. Told(t, n) = a \o WithoutOrphans(b)
  BY DEF Told
<1>4. \A i \in 1..Len(b) : b[i] # ResultsOf(m)
  BY RestIn
<1> HIDE DEF a, b
<1>5. WithoutOrphans(Append(b, m)) = WithoutOrphans(b)
  BY <1>1, <1>4, WithoutCalls
<1> QED
  BY <1>2, <1>3, <1>5

LEMMA ToldRound ==
    ASSUME NEW t \in Seq(Msg), NEW n \in 0..Len(t), NEW c \in Msg, c.kind = "calls",
           \A i \in 1..Len(t) : t[i] # c
    PROVE  Told(Append(Append(t, c), ResultsOf(c)), n) = Append(Append(Told(t, n), c), ResultsOf(c))
<1> DEFINE a == Rebuild(SubSeq(t, 1, n))
           b == SubSeq(t, n + 1, Len(t))
           m == ResultsOf(c)
<1>1. a \in Seq(Msg) /\ b \in Seq(Msg) /\ WithoutOrphans(b) \in Seq(Msg) /\ m \in Msg
  BY Parts, ResultsType
<1>2. Told(Append(Append(t, c), m), n) = a \o WithoutOrphans(Append(Append(b, c), m))
  <2> DEFINE s == Append(t, c)
  <2>1. s \in Seq(Msg) /\ Len(s) = Len(t) + 1 /\ Len(t) \in Nat
    BY Appended
  <2>2. n \in 0..Len(s)
    BY <2>1
  <2>3. SubSeq(s, 1, n) = SubSeq(t, 1, n) /\ SubSeq(s, n + 1, Len(t) + 1) = Append(b, c)
    BY SliceMore
  <2>4. Told(Append(s, m), n) = Rebuild(SubSeq(s, 1, n)) \o WithoutOrphans(Append(SubSeq(s, n + 1, Len(s)), m))
    BY <1>1, <2>1, <2>2, ToldNext
  <2> HIDE DEF s, b, m
  <2>5. SubSeq(s, n + 1, Len(s)) = Append(b, c)
    BY <2>1, <2>3
  <2>6. Told(Append(s, m), n) = a \o WithoutOrphans(Append(Append(b, c), m))
    BY <2>3, <2>4, <2>5
  <2> QED
    BY <2>6 DEF s
<1>3. Told(t, n) = a \o WithoutOrphans(b)
  BY DEF Told
<1>4. \A i \in 1..Len(b) : b[i] # c
  BY RestIn
<1> HIDE DEF a, b
<1>5. WithoutOrphans(Append(Append(b, c), m)) = Append(Append(WithoutOrphans(b), c), m)
  BY <1>1, <1>4, WithoutRound
<1> HIDE DEF m
<1>6. a \o Append(Append(WithoutOrphans(b), c), m) = Append(a \o Append(WithoutOrphans(b), c), m)
  BY <1>1, AppendProperties, AppendLast
<1>7. a \o Append(WithoutOrphans(b), c) = Append(a \o WithoutOrphans(b), c)
  BY <1>1, AppendLast
<1>8. Told(Append(Append(t, c), m), n) = Append(Append(Told(t, n), c), m)
  BY <1>2, <1>3, <1>5, <1>6, <1>7
<1> QED
  BY <1>8 DEF m

\* What has just been rebuilt tells all.
LEMMA ToldWhole ==
    ASSUME NEW t \in Seq(Msg)
    PROVE  Told(t, Len(t)) = Rebuild(t)
<1>1. Len(t) \in Nat
  BY Members
<1>2. SubSeq(t, 1, Len(t)) = t
  BY SubSeqFull
<1>3. SubSeq(t, Len(t) + 1, Len(t)) = <<>>
  BY <1>1, SubSeqEmpty
<1>4. WithoutOrphans(<<>>) = <<>>
  BY ChosenNone DEF WithoutOrphans
<1>5. Told(t, Len(t)) = Rebuild(t) \o <<>>
  BY <1>2, <1>3, <1>4, Zenon DEF Told
<1> QED
  BY <1>5, RebuildType, ConcatEmptySeq

\* A transcript has no cues, so what is rebuilt has none.
LEMMA SpokenRebuilt ==
    ASSUME NEW t \in Seq(Msg), \A i \in DOMAIN t : t[i].kind # "cue"
    PROVE  Spoken(Rebuild(t)) = Told(t, Len(t))
<1>1. PICK n \in 0..Len(t) : Rebuild(t) = SubSeq(t, 1, n)
  BY RebuiltUpTo
<1>2. Len(t) \in Nat /\ DOMAIN t = 1..Len(t)
  BY Members
<1> DEFINE g == SubSeq(t, 1, n)
<1>3. g \in Seq(Msg) /\ Len(g) = n /\ \A i \in 1..n : g[i] = t[i]
  <2>1. n \in Nat /\ 1 \in Nat \ {0} /\ 1 <= n + 1 /\ n - 1 + 1 = n
    BY <1>2
  <2>2. g \in Seq(Msg) /\ Len(g) = n /\ \A i \in 1..n : g[i] = t[1 + i - 1]
    BY <2>1, Slice
  <2>3. \A i \in 1..n : 1 + i - 1 = i
    BY <2>1
  <2> HIDE DEF g
  <2> QED
    BY <2>2, <2>3
<1> HIDE DEF g
<1>4. \A i \in 1..Len(g) : g[i].kind # "cue"
  BY <1>2, <1>3
<1>5. Spoken(g) = g
  BY <1>3, <1>4, SpokenWhole
<1> QED
  BY <1>1, <1>5, ToldWhole DEF g

----------------------------------------------------------------------------
(* Types, and what the place of a turn says of it.                         *)

Phase(x, d) ==
    /\ x.pc \notin {"idle", "spawned", "over", "remember", "ask"} => x.rounds < MaxRounds
    /\ x.pc = "cue" => x.continued < MaxContinuations
    /\ x.pc = "said" => x.reply.kind \in {"text", "cut"}
    /\ x.pc \in {"tool", "running", "record", "results"} => x.reply.kind = "calls" /\ x.reply.of = d
    /\ x.pc = "running" => x.calls = 1

Phases == \A d \in Driver : Phase(turn[d], d)

TurnsInv == AgentTypeOK /\ Phases

Moved(d, x) == turn' = [turn EXCEPT ![d] = x]

LEMMA ReplDrives == Repl \in Driver /\ Socket \subseteq Driver
BY DEF Driver

LEMMA MessageType ==
    ASSUME NEW kind \in {"none", "prompt", "text", "cut", "calls", "results", "cue"}, NEW id \in Nat, NEW d \in Driver
    PROVE  /\ Message(kind, id, d) \in Msg /\ Message(kind, id, d).kind = kind
           /\ Message(kind, id, d).id = id /\ Message(kind, id, d).of = d
BY DEF Message, Msg

LEMMA NoTurnType ==
    /\ NoTurn \in Turn /\ \A d : Phase(NoTurn, d)
    /\ \A pc \in {"over", "idle", "spawned"}, id \in Nat :
        \A x : x \in {[NoTurn EXCEPT !.pc = pc], [NoTurn EXCEPT !.pc = pc, !.prompt = id]} =>
            x \in Turn /\ x.pc = pc /\ (\A d : Phase(x, d))
<1>1. NoReply \in Msg
  BY ReplDrives, MessageType DEF NoReply
<1>2. (CHOOSE s \in Session : TRUE) \in Session
  BY AgentAssumption
<1>3. NoTurn \in Turn
  BY <1>1, <1>2, AgentAssumption DEF NoTurn, Turn
<1>4. \A d : Phase(NoTurn, d)
  BY DEF NoTurn, Phase
<1>5. ASSUME NEW pc \in {"over", "idle", "spawned"}, NEW id \in Nat,
             NEW x, x \in {[NoTurn EXCEPT !.pc = pc], [NoTurn EXCEPT !.pc = pc, !.prompt = id]}
      PROVE  x \in Turn /\ x.pc = pc /\ (\A d : Phase(x, d))
  <2>1. x.pc = pc
    BY <1>3, <1>5 DEF Turn
  <2>2. x \in Turn
    BY <1>3, <1>5 DEF Turn
  <2> QED
    BY <2>1, <2>2 DEF Phase
<1> QED
  BY <1>3, <1>4, <1>5, Zenon

LEMMA Moves ==
    ASSUME TurnsInv, NEW d \in Driver, NEW x \in Turn, Moved(d, x)
    PROVE  turn' \in [Driver -> Turn] /\ turn'[d] = x /\ \A e \in Driver \ {d} : turn'[e] = turn[e]
BY DEF TurnsInv, AgentTypeOK, Moved

LEMMA PhasesMove ==
    ASSUME TurnsInv, NEW d \in Driver, NEW x \in Turn, Phase(x, d), Moved(d, x)
    PROVE  turn' \in [Driver -> Turn] /\ Phases'
BY Moves DEF Phases, TurnsInv

\* What opens a session, or swaps to it.
LEMMA OpenType ==
    ASSUME TurnsInv, NEW s \in Session
    PROVE  /\ Open(s) \in [session : Session, history : Seq(Msg), from : Nat]
           /\ Open(s).session = s /\ Open(s).from = Len(transcript[s]) /\ Open(s).history = Rebuild(transcript[s])
<1>1. transcript[s] \in Seq(Msg) /\ Len(transcript[s]) \in Nat
  BY Members DEF TurnsInv, AgentTypeOK
<1> QED
  BY <1>1, RebuildType DEF Open

\* The history and the transcripts grow by messages.
LEMMA HistoryGrows ==
    ASSUME TurnsInv, NEW m \in Msg, Remembered(m)
    PROVE  /\ active' \in [session : Session, history : Seq(Msg), from : Nat]
           /\ active'.session = active.session /\ active'.from = active.from
           /\ active'.history = Append(active.history, m)
           /\ active.history \in Seq(Msg)
<1>1. active \in [session : Session, history : Seq(Msg), from : Nat]
  BY DEF TurnsInv, AgentTypeOK
<1>2. Append(active.history, m) \in Seq(Msg)
  BY <1>1, AppendProperties
<1> QED
  BY <1>1, <1>2 DEF Remembered

LEMMA TranscriptGrows ==
    ASSUME TurnsInv, NEW s \in Session, NEW m \in Msg, transcript' = [transcript EXCEPT ![s] = Append(@, m)]
    PROVE  /\ transcript' \in [Session -> Seq(Msg)] /\ transcript'[s] = Append(transcript[s], m)
           /\ \A r \in Session \ {s} : transcript'[r] = transcript[r]
           /\ active.from <= Len(transcript'[active.session])
<1>1. transcript \in [Session -> Seq(Msg)] /\ active.session \in Session /\ active.from \in Nat
      /\ active.from <= Len(transcript[active.session])
  BY DEF TurnsInv, AgentTypeOK
<1>2. Append(transcript[s], m) \in Seq(Msg) /\ Len(Append(transcript[s], m)) = Len(transcript[s]) + 1
      /\ Len(transcript[s]) \in Nat
  BY <1>1, AppendProperties, LenProperties
<1>3. transcript' \in [Session -> Seq(Msg)] /\ transcript'[s] = Append(transcript[s], m)
      /\ \A r \in Session \ {s} : transcript'[r] = transcript[r]
  BY <1>1, <1>2
<1>4. CASE active.session = s
  BY <1>1, <1>2, <1>3, <1>4
<1>5. CASE active.session # s
  BY <1>1, <1>3, <1>5
<1> QED
  BY <1>3, <1>4, <1>5

\* What is spent was left.
LEMMA Spent ==
    ASSUME TurnsInv, NEW o \in {"typed", "prompts", "clears", "hangups", "cancels", "errors", "faults", "restarts"}, Spend(o)
    PROVE  left' \in Bounds /\ left'.lines = left.lines /\ left'.replies = left.replies
<1>1. left \in Bounds
  BY DEF TurnsInv, AgentTypeOK
<1>2. CASE o = "typed"
  BY <1>1, <1>2 DEF Bounds, Spend
<1>3. CASE o = "prompts"
  BY <1>1, <1>3 DEF Bounds, Spend
<1>4. CASE o = "clears"
  BY <1>1, <1>4 DEF Bounds, Spend
<1>5. CASE o = "hangups"
  BY <1>1, <1>5 DEF Bounds, Spend
<1>6. CASE o = "cancels"
  BY <1>1, <1>6 DEF Bounds, Spend
<1>7. CASE o = "errors"
  BY <1>1, <1>7 DEF Bounds, Spend
<1>8. CASE o = "faults"
  BY <1>1, <1>8 DEF Bounds, Spend
<1>9. CASE o = "restarts"
  BY <1>1, <1>9 DEF Bounds, Spend
<1> QED
  BY <1>2, <1>3, <1>4, <1>5, <1>6, <1>7, <1>8, <1>9

\* The end of a turn.
LEMMA EndMoves ==
    ASSUME TurnsInv, NEW d \in Driver, End(d)
    PROVE  \E x \in Turn : Moved(d, x) /\ Phase(x, d) /\ x.pc = (IF d = Repl THEN "over" ELSE "idle")
<1> DEFINE x == [NoTurn EXCEPT !.pc = IF d = Repl THEN "over" ELSE "idle"]
<1>1. x \in Turn /\ Phase(x, d) /\ x.pc = (IF d = Repl THEN "over" ELSE "idle")
  BY NoTurnType
<1>2. Moved(d, x)
  BY DEF End, Moved
<1> QED
  BY <1>1, <1>2

\* What becomes of a turn with a reply, and what the replies are.
Heard(x, reply, stop) ==
    [x EXCEPT !.pc = IF reply.kind = "calls" THEN "tool" ELSE "said", !.reply = reply, !.stop = stop,
              !.calls = IF reply.kind = "calls" THEN 1 ELSE 0]

LEMMA HeardType ==
    ASSUME NEW x \in Turn, NEW d, NEW reply \in Msg, NEW stop \in BOOLEAN, reply.of = d, x.rounds < MaxRounds,
           reply.kind \in {"text", "cut", "calls"}
    PROVE  /\ Heard(x, reply, stop) \in Turn /\ Phase(Heard(x, reply, stop), d)
           /\ Heard(x, reply, stop).pc = (IF reply.kind = "calls" THEN "tool" ELSE "said")
           /\ Heard(x, reply, stop).reply = reply
           /\ Heard(x, reply, stop).session = x.session /\ Heard(x, reply, stop).prompt = x.prompt
<1> DEFINE pc == IF reply.kind = "calls" THEN "tool" ELSE "said"
           calls == IF reply.kind = "calls" THEN 1 ELSE 0
           y == [x EXCEPT !.pc = pc, !.reply = reply, !.stop = stop, !.calls = calls]
<1>1. Heard(x, reply, stop) = y
  BY DEF Heard
<1>2. pc \in {"tool", "said"} /\ calls \in 0..1
  OBVIOUS
<1> HIDE DEF pc, calls
<1>3. y \in Turn
  BY <1>2 DEF Turn
<1>4. y.pc = pc /\ y.reply = reply /\ y.session = x.session /\ y.prompt = x.prompt /\ y.rounds = x.rounds
  BY DEF Turn
<1> HIDE DEF y
<1>5. Phase(y, d)
  BY <1>4 DEF Phase, pc
<1> QED
  BY <1>1, <1>3, <1>4, <1>5 DEF pc

LEMMA ReplyTyped ==
    ASSUME TurnsInv, NEW d \in Driver, Reply(d)
    PROVE  \E reply \in Msg, stop \in BOOLEAN :
             /\ reply.id = serial + 1 /\ reply.of = d /\ reply.kind \in {"text", "cut", "calls"}
             /\ Recorded(d, reply) /\ Moved(d, Heard(turn[d], reply, stop))
<1>1. left.replies \subseteq {"text", "cut", "calls", "loop"} /\ serial + 1 \in Nat
  BY DEF TurnsInv, AgentTypeOK, Bounds
<1>2. PICK says \in left.replies :
        LET reply == Message(IF says = "loop" THEN "calls" ELSE says, serial + 1, d)
        IN  /\ Recorded(d, reply)
            /\ turn' = [turn EXCEPT ![d].pc = IF reply.kind = "calls" THEN "tool" ELSE "said",
                                    ![d].reply = reply, ![d].stop = (says = "loop"),
                                    ![d].calls = IF reply.kind = "calls" THEN 1 ELSE 0]
  BY DEF Reply
<1> DEFINE kind == IF says = "loop" THEN "calls" ELSE says
           reply == Message(kind, serial + 1, d)
           stop == (says = "loop")
<1>3. kind \in {"text", "cut", "calls"}
  BY <1>1
<1>4. reply \in Msg /\ reply.id = serial + 1 /\ reply.of = d /\ reply.kind = kind
  BY <1>1, <1>3, MessageType
<1>5. Recorded(d, reply)
  BY <1>2
<1>6. Moved(d, Heard(turn[d], reply, stop))
  <2>1. turn \in [Driver -> Turn]
    BY DEF TurnsInv, AgentTypeOK
  <2>2. turn' = [turn EXCEPT ![d].pc = IF reply.kind = "calls" THEN "tool" ELSE "said",
                             ![d].reply = reply, ![d].stop = (says = "loop"),
                             ![d].calls = IF reply.kind = "calls" THEN 1 ELSE 0]
    BY <1>2
  <2> HIDE DEF reply
  <2> QED
    BY <2>1, <2>2 DEF Moved, Heard
<1> HIDE DEF reply
<1>7. stop \in BOOLEAN
  OBVIOUS
<1> HIDE DEF stop
<1> QED
  BY <1>3, <1>4, <1>5, <1>6, <1>7

\* A turn's own steps: where they go.
Goes(d, pc) == Moved(d, [turn[d] EXCEPT !.pc = pc])

LEMMA AtGoes ==
    ASSUME TurnsInv, NEW d \in Driver, NEW pc, At(d, pc)
    PROVE  Goes(d, pc)
BY DEF At, Goes, Moved, TurnsInv, AgentTypeOK

LEMMA GoesTyped ==
    ASSUME TurnsInv, NEW d \in Driver,
           NEW pc \in {"remember", "ask", "waiting", "refused", "cue", "running", "record", "results", "idle"}, Goes(d, pc),
           pc \in {"waiting", "refused", "cue", "running", "record", "results"} => turn[d].rounds < MaxRounds,
           pc = "cue" => turn[d].continued < MaxContinuations,
           pc \in {"running", "record", "results"} => turn[d].reply.kind = "calls" /\ turn[d].reply.of = d,
           pc = "running" => turn[d].calls = 1
    PROVE  \E x \in Turn : Moved(d, x) /\ Phase(x, d) /\ x.pc = pc
<1> DEFINE x == [turn[d] EXCEPT !.pc = pc]
<1>1. turn[d] \in Turn
  BY DEF TurnsInv, AgentTypeOK
<1>2. x \in Turn /\ x.pc = pc /\ Phase(x, d)
  BY <1>1 DEF Turn, Phase
<1> QED
  BY <1>2 DEF Goes

LEMMA StepMoves ==
    ASSUME TurnsInv, NEW d \in Driver, Step(d) \/ Trouble(d)
    PROVE  \E x \in Turn : Moved(d, x) /\ Phase(x, d)
<1>1. turn[d] \in Turn /\ Phase(turn[d], d) /\ turn \in [Driver -> Turn]
  BY DEF TurnsInv, AgentTypeOK, Phases
<1>2. active.session \in Session
  BY DEF TurnsInv, AgentTypeOK
<1>3. CASE End(d)
  BY <1>3, EndMoves
<1>4. CASE Begin(d)
  <2> DEFINE x == [turn[d] EXCEPT !.pc = "remember", !.session = active.session]
  <2>1. x \in Turn /\ Phase(x, d)
    BY <1>1, <1>2 DEF Turn, Phase
  <2>2. Moved(d, x)
    BY <1>1, <1>4 DEF Begin, Moved
  <2> QED
    BY <2>1, <2>2
<1>5. CASE Remember(d)
  <2>1. Goes(d, "ask")
    BY <1>5, AtGoes DEF Remember
  <2> QED
    BY <2>1, GoesTyped
<1>6. CASE Ask(d) /\ ~End(d)
  <2> DEFINE pc == IF Answerable(active.history) THEN "waiting" ELSE "refused"
  <2>1. turn[d].rounds # MaxRounds /\ At(d, pc)
    BY <1>6 DEF Ask
  <2>2. turn[d].rounds < MaxRounds
    BY <1>1, <2>1, AgentAssumption DEF Turn
  <2>3. pc \in {"waiting", "refused"}
    OBVIOUS
  <2> HIDE DEF pc
  <2>4. Goes(d, pc)
    BY <2>1, AtGoes
  <2> QED
    BY <2>2, <2>3, <2>4, GoesTyped
<1>7. CASE Reply(d)
  <2>1. PICK reply \in Msg, stop \in BOOLEAN :
          reply.of = d /\ reply.kind \in {"text", "cut", "calls"} /\ Moved(d, Heard(turn[d], reply, stop))
    BY <1>7, ReplyTyped
  <2>2. turn[d].rounds < MaxRounds
    BY <1>1, <1>7 DEF Reply, Phase
  <2> QED
    BY <1>1, <2>1, <2>2, HeardType
<1>8. CASE Said(d) /\ ~End(d)
  <2>1. turn[d].pc = "said" /\ turn[d].continued < MaxContinuations /\ At(d, "cue")
    BY <1>8 DEF Said
  <2>2. Goes(d, "cue") /\ turn[d].rounds < MaxRounds
    BY <1>1, <2>1, AtGoes DEF Phase
  <2> QED
    BY <2>1, <2>2, GoesTyped
<1>9. CASE Cue(d)
  <2> DEFINE x == [turn[d] EXCEPT !.pc = "ask", !.continued = @ + 1, !.rounds = @ + 1, !.reply = NoReply]
  <2>1. turn[d].pc = "cue" /\ turn[d].rounds < MaxRounds /\ turn[d].continued < MaxContinuations
    BY <1>1, <1>9 DEF Cue, Phase
  <2>2. turn[d].rounds + 1 \in 0..MaxRounds /\ turn[d].continued + 1 \in 0..MaxContinuations /\ NoReply \in Msg
    BY <1>1, <2>1, AgentAssumption, ReplDrives, MessageType DEF Turn, NoReply
  <2>3. x \in Turn /\ Phase(x, d)
    BY <1>1, <2>2 DEF Turn, Phase
  <2>4. Moved(d, x)
    BY <1>1, <1>9 DEF Cue, Moved
  <2> QED
    BY <2>3, <2>4
<1>10. CASE StartTool(d) /\ ~End(d)
  <2>1. turn[d].pc = "tool" /\ turn[d].calls > 0 /\ turn[d].rounds < MaxRounds
        /\ turn[d].reply.kind = "calls" /\ turn[d].reply.of = d
    BY <1>1, <1>10 DEF StartTool, Phase
  <2>2. turn[d].calls = 1
    BY <1>1, <2>1 DEF Turn
  <2>3. CASE turn[d].stop
    <3> DEFINE x == [turn[d] EXCEPT !.calls = @ - 1]
    <3>1. turn[d].calls - 1 \in 0..1
      BY <2>2
    <3>2. x \in Turn /\ Phase(x, d)
      BY <1>1, <2>1, <3>1 DEF Turn, Phase
    <3>3. Moved(d, x)
      BY <1>1, <1>10, <2>3 DEF StartTool, Moved
    <3> QED
      BY <3>2, <3>3
  <2>4. CASE ~turn[d].stop
    <3>1. Goes(d, "running")
      BY <1>10, <2>4, AtGoes DEF StartTool
    <3> QED
      BY <2>1, <2>2, <3>1, GoesTyped
  <2> QED
    BY <2>3, <2>4
<1>11. CASE FinishTool(d)
  <2> DEFINE x == [turn[d] EXCEPT !.pc = "tool", !.calls = @ - 1]
  <2>1. turn[d].calls = 1 /\ turn[d].rounds < MaxRounds /\ turn[d].reply.kind = "calls" /\ turn[d].reply.of = d
    BY <1>1, <1>11 DEF FinishTool, Phase
  <2>2. turn[d].calls - 1 \in 0..1
    BY <2>1
  <2>3. x \in Turn /\ Phase(x, d)
    BY <1>1, <2>1, <2>2 DEF Turn, Phase
  <2>4. Moved(d, x)
    BY <1>1, <1>11 DEF FinishTool, Moved
  <2> QED
    BY <2>3, <2>4
<1>12. CASE Called(d)
  <2>1. turn[d].rounds < MaxRounds /\ turn[d].reply.kind = "calls" /\ turn[d].reply.of = d /\ Goes(d, "record")
    BY <1>1, <1>12, AtGoes DEF Called, Phase
  <2> QED
    BY <2>1, GoesTyped
<1>13. CASE Record(d)
  <2>1. turn[d].rounds < MaxRounds /\ turn[d].reply.kind = "calls" /\ turn[d].reply.of = d /\ Goes(d, "results")
    BY <1>1, <1>13, AtGoes DEF Record, Phase
  <2> QED
    BY <2>1, GoesTyped
<1>14. CASE Results(d) /\ ~End(d)
  <2> DEFINE x == [turn[d] EXCEPT !.pc = "ask", !.rounds = @ + 1, !.reply = NoReply]
  <2>1. turn[d].pc = "results" /\ turn[d].rounds < MaxRounds
    BY <1>1, <1>14 DEF Results, Phase
  <2>2. turn[d].rounds + 1 \in 0..MaxRounds /\ NoReply \in Msg
    BY <1>1, <2>1, AgentAssumption, ReplDrives, MessageType DEF Turn, NoReply
  <2>3. x \in Turn /\ Phase(x, d)
    BY <1>1, <2>2 DEF Turn, Phase
  <2>4. Moved(d, x)
    BY <1>1, <1>14 DEF Results, Moved
  <2> QED
    BY <2>3, <2>4
<1>15. Refused(d) \/ HearCancel(d) \/ Trouble(d) => End(d)
  BY DEF Refused, HearCancel, Trouble, BeginFails, ReplyFails, RecordFails, ProviderFails
<1> QED
  BY <1>3, <1>4, <1>5, <1>6, <1>7, <1>8, <1>9, <1>10, <1>11, <1>12, <1>13, <1>14, <1>15 DEF Step

Conversing == /\ active \in [session : Session, history : Seq(Msg), from : Nat]
              /\ active.from <= Len(transcript[active.session])

LEMMA SwapTyped ==
    ASSUME TurnsInv, NEW s \in Session, SwapTo(s), UNCHANGED transcript
    PROVE  Conversing' /\ torn' \subseteq {"short", "broken"}
<1>1. active' = Open(s) /\ Len(transcript[s]) \in Nat
  BY Members DEF SwapTo, TurnsInv, AgentTypeOK
<1> QED
  BY <1>1, OpenType DEF SwapTo, Conversing

LEMMA FreshType == Fresh \subseteq Session
BY DEF Fresh

LEMMA RunLineTyped ==
    ASSUME TurnsInv, NEW line \in Line, RunLine(line), UNCHANGED transcript
    PROVE  turn' \in [Driver -> Turn] /\ Phases' /\ Conversing' /\ torn' \subseteq {"short", "broken"}
<1>1. CASE Spawned(Repl, line.id) /\ UNCHANGED <<active, torn>>
  <2> DEFINE x == [NoTurn EXCEPT !.pc = "spawned", !.prompt = line.id]
  <2>1. x \in Turn /\ Phase(x, Repl)
    BY NoTurnType DEF Line
  <2>2. Moved(Repl, x)
    BY <1>1 DEF Spawned, Moved
  <2> HIDE DEF x
  <2> QED
    BY <1>1, <2>1, <2>2, PhasesMove, ReplDrives DEF Conversing, TurnsInv, AgentTypeOK
<1>2. CASE At(Repl, "idle") /\ \E s \in Session : SwapTo(s)
  <2>1. \E x \in Turn : Moved(Repl, x) /\ Phase(x, Repl)
    BY <1>2, AtGoes, GoesTyped, ReplDrives
  <2> QED
    BY <1>2, <2>1, PhasesMove, SwapTyped, ReplDrives
<1> QED
  BY <1>1, <1>2, FreshType DEF RunLine

LEMMA Growth ==
    ASSUME TurnsInv, NEW d \in Driver, Step(d) \/ Trouble(d)
    PROVE  \/ UNCHANGED <<transcript, active>>
           \/ UNCHANGED transcript /\ \E m \in Msg : Remembered(m)
           \/ UNCHANGED active /\ \E s \in Session, m \in Msg : transcript' = [transcript EXCEPT ![s] = Append(@, m)]
<1>1. turn[d] \in Turn /\ turn[d].session \in Session /\ turn[d].reply \in Msg /\ turn[d].reply.id \in Nat
      /\ turn[d].prompt \in Nat /\ ResultsOf(turn[d].reply) \in Msg
  BY ResultsType DEF TurnsInv, AgentTypeOK, Turn, Msg
<1>2. active.session \in Session
  BY DEF TurnsInv, AgentTypeOK
<1>3. CASE Remember(d)
  BY <1>1, <1>3, MessageType DEF Remember
<1>4. CASE Said(d) \/ Called(d)
  BY <1>1, <1>4 DEF Said, Called
<1>5. CASE Results(d)
  BY <1>1, <1>5 DEF Results
<1>6. CASE Cue(d)
  BY <1>1, <1>6, MessageType DEF Cue
<1>7. CASE Begin(d)
  <2>1. Message("prompt", turn[d].prompt, d) \in Msg
    BY <1>1, MessageType
  <2> QED
    BY <1>2, <1>7, <2>1 DEF Begin
<1>8. CASE Reply(d)
  <2>1. \E m \in Msg : Recorded(d, m)
    BY <1>8, ReplyTyped
  <2> QED
    BY <1>1, <1>8, <2>1 DEF Reply, Recorded
<1>9. CASE Record(d)
  BY <1>1, <1>9 DEF Record, Recorded
<1>10. Ask(d) \/ Refused(d) \/ HearCancel(d) \/ StartTool(d) \/ FinishTool(d) \/ Trouble(d) => UNCHANGED <<transcript, active>>
  BY DEF Ask, Refused, HearCancel, StartTool, FinishTool, Trouble, BeginFails, ReplyFails, RecordFails, ProviderFails
<1> QED
  BY <1>3, <1>4, <1>5, <1>6, <1>7, <1>8, <1>9, <1>10 DEF Step

LEMMA Counts ==
    ASSUME NEW d, Step(d) \/ Trouble(d)
    PROVE  UNCHANGED queue /\ serial' \in {serial, serial + 1}
<1>1. UNCHANGED queue
  BY DEF Step, Trouble, Begin, BeginFails, Remember, Ask, Refused, Reply, HearCancel, Said, Cue, StartTool, FinishTool,
         Called, Record, Results, ReplyFails, RecordFails, ProviderFails
<1>2. serial' = serial \/ serial' = serial + 1
  BY DEF Step, Trouble, Begin, BeginFails, Remember, Ask, Refused, Reply, HearCancel, Said, Cue, StartTool, FinishTool,
         Called, Record, Results, ReplyFails, RecordFails, ProviderFails
<1> QED
  BY <1>1, <1>2

LEMMA StepTyped ==
    ASSUME TurnsInv, NEW d \in Driver, Step(d) \/ Trouble(d)
    PROVE  TurnsInv'
<1>1. turn' \in [Driver -> Turn] /\ Phases'
  BY StepMoves, PhasesMove
<1>2. transcript' \in [Session -> Seq(Msg)] /\ Conversing'
  <2>1. transcript \in [Session -> Seq(Msg)] /\ Conversing
    BY DEF TurnsInv, AgentTypeOK, Conversing
  <2>2. CASE UNCHANGED <<transcript, active>>
    BY <2>1, <2>2 DEF Conversing
  <2>3. CASE UNCHANGED transcript /\ \E m \in Msg : Remembered(m)
    BY <2>1, <2>3, HistoryGrows DEF Conversing
  <2>4. CASE UNCHANGED active /\ \E s \in Session, m \in Msg : transcript' = [transcript EXCEPT ![s] = Append(@, m)]
    <3>1. PICK s \in Session, m \in Msg : transcript' = [transcript EXCEPT ![s] = Append(@, m)]
      BY <2>4
    <3>2. transcript' \in [Session -> Seq(Msg)] /\ active.from <= Len(transcript'[active.session])
      BY <3>1, TranscriptGrows
    <3> QED
      BY <2>1, <2>4, <3>2 DEF Conversing
  <2> QED
    BY <2>2, <2>3, <2>4, Growth
<1>3. slot' \in Driver
  BY DEF Step, Trouble, Begin, BeginFails, Remember, Ask, Refused, Reply, HearCancel, Said, Cue, StartTool, FinishTool,
         Called, Record, Results, ReplyFails, RecordFails, ProviderFails, TurnsInv, AgentTypeOK
<1>4. torn' \subseteq {"short", "broken"}
  BY DEF Step, Trouble, Begin, BeginFails, Remember, Ask, Refused, Reply, HearCancel, Said, Cue, StartTool, FinishTool,
         Called, Record, Results, ReplyFails, RecordFails, ProviderFails, TurnsInv, AgentTypeOK
<1>5. serial' \in Nat /\ UNCHANGED queue
  <2>1. UNCHANGED queue /\ serial' \in {serial, serial + 1}
    BY Counts
  <2> QED
    BY <2>1 DEF TurnsInv, AgentTypeOK
<1>6. left' \in Bounds
  <2>1. UNCHANGED left \/ Spend("faults") \/ Spend("errors")
    BY DEF Step, Trouble, Begin, BeginFails, Remember, Ask, Refused, Reply, HearCancel, Said, Cue, StartTool, FinishTool,
           Called, Record, Results, ReplyFails, RecordFails, ProviderFails
  <2> QED
    BY <2>1, Spent DEF TurnsInv, AgentTypeOK
<1> QED
  BY <1>1, <1>2, <1>3, <1>4, <1>5, <1>6 DEF TurnsInv, AgentTypeOK, Conversing

\* What else a socket client does.
LEMMA ClientTyped ==
    ASSUME TurnsInv, NEW c \in Socket, Prompt(c) \/ Clear(c) \/ HangUp(c)
    PROVE  TurnsInv'
<1>1. c \in Driver /\ serial + 1 \in Nat
  BY ReplDrives DEF TurnsInv, AgentTypeOK
<1>2. CASE Prompt(c)
  <2> DEFINE x == [NoTurn EXCEPT !.pc = "spawned", !.prompt = serial + 1]
  <2>1. x \in Turn /\ Phase(x, c)
    BY <1>1, NoTurnType
  <2>2. Moved(c, x)
    BY <1>2 DEF Prompt, Spawned, Moved
  <2> HIDE DEF x
  <2>3. turn' \in [Driver -> Turn] /\ Phases'
    BY <1>1, <2>1, <2>2, PhasesMove
  <2>4. left' \in Bounds
    BY <1>2, Spent DEF Prompt
  <2> QED
    BY <1>1, <1>2, <2>3, <2>4 DEF Prompt, TurnsInv, AgentTypeOK
<1>3. CASE Clear(c)
  <2>1. Conversing' /\ torn' \subseteq {"short", "broken"}
    BY <1>3, SwapTyped, FreshType DEF Clear
  <2>2. left' \in Bounds
    BY <1>3, Spent DEF Clear
  <2> QED
    BY <1>3, <2>1, <2>2 DEF Clear, TurnsInv, AgentTypeOK, Phases, Conversing
<1>4. CASE HangUp(c)
  <2>1. turn' \in [Driver -> Turn] /\ Phases'
    BY <1>1, <1>4, EndMoves, PhasesMove DEF HangUp
  <2>2. left' \in Bounds
    BY <1>4, Spent DEF HangUp
  <2> QED
    BY <1>4, <2>1, <2>2 DEF HangUp, TurnsInv, AgentTypeOK
<1> QED
  BY <1>2, <1>3, <1>4

\* The queue grows by a line, while it is not full.
LEMMA QueueGrows ==
    ASSUME TurnsInv, NEW line \in Line, queue' = Waiting(line)
    PROVE  queue' \in Seq(Line) /\ Len(queue') <= QueueLimit
<1>1. queue \in Seq(Line) /\ Len(queue) <= QueueLimit /\ Len(queue) \in Nat
  BY LenProperties DEF TurnsInv, AgentTypeOK
<1>2. CASE Len(queue) < QueueLimit
  <2>1. queue' = Append(queue, line)
    BY <1>2 DEF Waiting
  <2> QED
    BY <1>1, <1>2, <2>1, AppendProperties, AgentAssumption
<1>3. CASE ~(Len(queue) < QueueLimit)
  BY <1>1, <1>3 DEF Waiting
<1> QED
  BY <1>2, <1>3

LEMMA TerminalTyped ==
    ASSUME TurnsInv, (\E cmd \in {"prompt", "clear", "resume"} : Submit(cmd)) \/ Finished \/ Cancel
    PROVE  TurnsInv'
<1>1. CASE \E cmd \in {"prompt", "clear", "resume"} : Submit(cmd)
  <2>1. PICK cmd \in {"prompt", "clear", "resume"} : Submit(cmd)
    BY <1>1
  <2> DEFINE line == [cmd |-> cmd, id |-> serial + 1]
  <2>2. line \in Line /\ serial' \in Nat /\ left' \in Bounds
    BY <2>1, Spent DEF Submit, Line, TurnsInv, AgentTypeOK
  <2>3. UNCHANGED <<transcript, slot>> /\ \/ RunLine(line) /\ UNCHANGED queue
                                          \/ queue' = Waiting(line) /\ UNCHANGED <<active, turn, torn>>
    BY <2>1 DEF Submit
  <2> HIDE DEF line
  <2>4. CASE RunLine(line) /\ UNCHANGED queue
    <3>1. turn' \in [Driver -> Turn] /\ Phases' /\ Conversing' /\ torn' \subseteq {"short", "broken"}
      BY <2>2, <2>3, <2>4, RunLineTyped
    <3> QED
      BY <2>2, <2>3, <2>4, <3>1 DEF TurnsInv, AgentTypeOK, Conversing
  <2>5. CASE queue' = Waiting(line) /\ UNCHANGED <<active, turn, torn>>
    <3>1. queue' \in Seq(Line) /\ Len(queue') <= QueueLimit
      BY <2>2, <2>5, QueueGrows
    <3> QED
      BY <2>2, <2>3, <2>5, <3>1 DEF TurnsInv, AgentTypeOK, Phases
  <2> QED
    BY <2>3, <2>4, <2>5
<1>2. CASE Finished
  <2>1. CASE queue = <<>>
    <3>1. At(Repl, "idle") /\ UNCHANGED <<transcript, active, slot, queue, serial, torn, left>>
      BY <1>2, <2>1 DEF Finished
    <3>2. turn' \in [Driver -> Turn] /\ Phases'
      BY <3>1, AtGoes, GoesTyped, PhasesMove, ReplDrives
    <3> QED
      BY <3>1, <3>2 DEF TurnsInv, AgentTypeOK
  <2>2. CASE queue # <<>>
    <3>1. RunLine(Head(queue)) /\ queue' = Tail(queue) /\ UNCHANGED <<transcript, slot, serial, left>>
      BY <1>2, <2>2 DEF Finished
    <3>2. queue \in Seq(Line) /\ Len(queue) \in Nat /\ Len(queue) <= QueueLimit /\ QueueLimit \in Nat
      BY LenProperties, AgentAssumption DEF TurnsInv, AgentTypeOK
    <3>3. Head(queue) \in Line /\ Tail(queue) \in Seq(Line) /\ Len(Tail(queue)) <= QueueLimit
      BY <2>2, <3>2, HeadTailProperties
    <3>4. turn' \in [Driver -> Turn] /\ Phases' /\ Conversing' /\ torn' \subseteq {"short", "broken"}
      BY <3>1, <3>3, RunLineTyped
    <3> QED
      BY <3>1, <3>3, <3>4 DEF TurnsInv, AgentTypeOK, Conversing
  <2> QED
    BY <2>1, <2>2
<1>3. CASE Cancel
  <2>1. left' \in Bounds /\ UNCHANGED <<transcript, active, slot, queue, serial, torn>>
    BY <1>3, Spent DEF Cancel
  <2>2. turn' \in [Driver -> Turn] /\ Phases'
    <3>1. slot \in Driver /\ turn[slot] \in Turn /\ Phase(turn[slot], slot) /\ turn \in [Driver -> Turn]
      BY DEF TurnsInv, AgentTypeOK, Phases
    <3>2. CASE turn' = [turn EXCEPT ![slot].tripped = TRUE]
      <4> DEFINE x == [turn[slot] EXCEPT !.tripped = TRUE]
      <4>1. x \in Turn /\ Phase(x, slot)
        BY <3>1 DEF Turn, Phase
      <4>2. Moved(slot, x)
        BY <3>1, <3>2 DEF Moved
      <4> QED
        BY <3>1, <4>1, <4>2, PhasesMove
    <3>3. CASE turn' = turn
      BY <3>3 DEF TurnsInv, AgentTypeOK, Phases
    <3> QED
      BY <1>3, <3>2, <3>3 DEF Cancel
  <2> QED
    BY <2>1, <2>2 DEF TurnsInv, AgentTypeOK
<1> QED
  BY <1>1, <1>2, <1>3

LEMMA RestartTyped ==
    ASSUME TurnsInv, Restart
    PROVE  TurnsInv'
<1>1. active' = Open(active.session) /\ UNCHANGED <<transcript, serial>> /\ slot' = Repl /\ queue' = <<>> /\ torn' = {}
      /\ turn' = [d \in Driver |-> NoTurn]
  BY DEF Restart
<1>2. active.session \in Session /\ transcript \in [Session -> Seq(Msg)] /\ serial \in Nat
  BY DEF TurnsInv, AgentTypeOK
<1>3. Conversing'
  <2>1. Len(transcript[active.session]) \in Nat
    BY <1>2, LenProperties
  <2> QED
    BY <1>1, <1>2, <2>1, OpenType DEF Conversing
<1>4. turn' \in [Driver -> Turn] /\ Phases'
  BY <1>1, NoTurnType DEF Phases
<1>5. queue' \in Seq(Line) /\ Len(queue') <= QueueLimit
  BY <1>1, EmptySeq, AgentAssumption
<1>6. left' \in Bounds
  BY Spent DEF Restart
<1> QED
  BY <1>1, <1>2, <1>3, <1>4, <1>5, <1>6, ReplDrives DEF TurnsInv, AgentTypeOK, Conversing

LEMMA AgentInitTyped == AgentInit => TurnsInv
<1> SUFFICES ASSUME AgentInit PROVE TurnsInv
  OBVIOUS
<1>1. <<>> \in Seq(Msg) /\ <<>> \in Seq(Line) /\ Len(<<>>) = 0
  BY EmptySeq
<1>2. (CHOOSE s \in Session : TRUE) \in Session
  BY AgentAssumption
<1>3. transcript \in [Session -> Seq(Msg)] /\ Conversing
  BY <1>1, <1>2 DEF AgentInit, Conversing
<1>4. turn \in [Driver -> Turn] /\ Phases
  BY NoTurnType DEF AgentInit, Phases
<1>5. slot \in Driver /\ serial \in Nat /\ torn \subseteq {"short", "broken"} /\ left \in Bounds
  BY ReplDrives, AgentAssumption DEF AgentInit
<1>6. queue \in Seq(Line) /\ Len(queue) <= QueueLimit
  BY <1>1, AgentAssumption DEF AgentInit
<1> QED
  BY <1>3, <1>4, <1>5, <1>6 DEF TurnsInv, AgentTypeOK, Conversing

LEMMA AgentNextTyped == TurnsInv /\ [AgentNext]_conversation => TurnsInv'
<1> SUFFICES ASSUME TurnsInv, [AgentNext]_conversation PROVE TurnsInv'
  OBVIOUS
<1>1. CASE UNCHANGED conversation
  BY <1>1 DEF conversation, TurnsInv, AgentTypeOK, Phases
<1>2. CASE AgentNext
  BY <1>2, StepTyped, ClientTyped, TerminalTyped, RestartTyped DEF AgentNext
<1> QED
  BY <1>1, <1>2

\* Transcripts, histories and the queue have their types, the queue is not
\* longer than it may be, and no turn has more rounds or cues than it may.
THEOREM AgentTypeCorrect == AgentSpec => []AgentTypeOK
<1>1. TurnsInv => AgentTypeOK
  BY DEF TurnsInv
<1> QED
  BY <1>1, AgentInitTyped, AgentNextTyped, PTL DEF AgentSpec

----------------------------------------------------------------------------
(* What each step of a turn does to the turn.                              *)

Kept(d) == /\ turn'[d].session = turn[d].session /\ turn'[d].prompt = turn[d].prompt
           /\ turn'[d].reply = turn[d].reply

Over(d) == turn'[d].pc = (IF d = Repl THEN "over" ELSE "idle") /\ turn'[d].prompt = 0

Course(d) ==
    \/ Over(d)
    \/ Begin(d) /\ turn'[d].pc = "remember" /\ turn'[d].session = active.session /\ turn'[d].prompt = turn[d].prompt
    \/ Remember(d) /\ Kept(d) /\ turn'[d].pc = "ask"
    \/ Ask(d) /\ Kept(d) /\ turn'[d].pc \in {"waiting", "refused"}
    \/ Reply(d) /\ turn'[d].session = turn[d].session /\ turn'[d].prompt = turn[d].prompt /\ turn'[d].pc \in {"said", "tool"}
    \/ Said(d) /\ Kept(d) /\ turn'[d].pc = "cue" /\ turn[d].reply.kind = "cut"
    \/ Cue(d) /\ turn'[d].session = turn[d].session /\ turn'[d].prompt = turn[d].prompt /\ turn'[d].pc = "ask"
    \/ StartTool(d) /\ Kept(d) /\ turn'[d].pc \in {"tool", "running"}
    \/ FinishTool(d) /\ Kept(d) /\ turn'[d].pc = "tool"
    \/ Called(d) /\ Kept(d) /\ turn'[d].pc = "record"
    \/ Record(d) /\ Kept(d) /\ turn'[d].pc = "results"
    \/ Results(d) /\ turn'[d].session = turn[d].session /\ turn'[d].prompt = turn[d].prompt /\ turn'[d].pc = "ask"

Others(d) == \A e \in Driver \ {d} : turn'[e] = turn[e]

LEMMA AtKeeps ==
    ASSUME TurnsInv, NEW d \in Driver, NEW pc, At(d, pc)
    PROVE  Others(d) /\ Kept(d) /\ turn'[d].pc = pc
<1>1. turn \in [Driver -> Turn]
  BY DEF TurnsInv, AgentTypeOK
<1> QED
  BY <1>1 DEF At, Others, Kept, Turn

LEMMA EndIsOver ==
    ASSUME TurnsInv, NEW d \in Driver, End(d)
    PROVE  Others(d) /\ Over(d)
<1>1. turn \in [Driver -> Turn]
  BY DEF TurnsInv, AgentTypeOK
<1>2. turn'[d] = [NoTurn EXCEPT !.pc = IF d = Repl THEN "over" ELSE "idle"]
  BY <1>1 DEF End
<1>3. Others(d)
  BY <1>1 DEF End, Others
<1> QED
  BY <1>2, <1>3 DEF Over, NoTurn

LEMMA Courses ==
    ASSUME TurnsInv, NEW d \in Driver, Step(d) \/ Trouble(d)
    PROVE  Others(d) /\ Course(d)
<1>1. turn \in [Driver -> Turn] /\ turn[d] \in Turn
  BY DEF TurnsInv, AgentTypeOK
<1>2. CASE End(d)
  BY <1>2, EndIsOver DEF Course
<1>3. CASE Begin(d)
  BY <1>1, <1>3 DEF Begin, Others, Course, Turn
<1>4. CASE Remember(d)
  BY <1>4, AtKeeps DEF Remember, Course
<1>5. CASE Ask(d) /\ ~End(d)
  BY <1>5, AtKeeps DEF Ask, Course
<1>6. CASE Reply(d)
  <2>1. PICK reply \in Msg, stop \in BOOLEAN : Moved(d, Heard(turn[d], reply, stop))
    BY <1>6, ReplyTyped
  <2>2. turn'[d] = Heard(turn[d], reply, stop) /\ Others(d)
    BY <1>1, <2>1 DEF Moved, Others
  <2>3. turn'[d].session = turn[d].session /\ turn'[d].prompt = turn[d].prompt
    BY <1>1, <2>2 DEF Heard, Turn
  <2>4. turn'[d].pc \in {"said", "tool"}
    BY <1>1, <2>2 DEF Heard, Turn
  <2> QED
    BY <1>6, <2>2, <2>3, <2>4 DEF Course
<1>7. CASE Said(d) /\ ~End(d)
  BY <1>7, AtKeeps DEF Said, Course
<1>8. CASE Cue(d)
  BY <1>1, <1>8 DEF Cue, Others, Course, Turn
<1>9. CASE StartTool(d) /\ ~End(d)
  <2>1. CASE turn[d].stop
    <3>1. turn' = [turn EXCEPT ![d].calls = @ - 1] /\ turn[d].pc = "tool"
      BY <1>9, <2>1 DEF StartTool
    <3>2. Others(d) /\ Kept(d) /\ turn'[d].pc = "tool"
      BY <1>1, <3>1 DEF Others, Kept, Turn
    <3> QED
      BY <1>9, <3>2 DEF Course
  <2>2. CASE ~turn[d].stop
    <3>1. At(d, "running")
      BY <1>9, <2>2 DEF StartTool
    <3> QED
      BY <1>9, <3>1, AtKeeps DEF Course
  <2> QED
    BY <2>1, <2>2
<1>10. CASE FinishTool(d)
  BY <1>1, <1>10 DEF FinishTool, Others, Kept, Course, Turn
<1>11. CASE Called(d)
  BY <1>11, AtKeeps DEF Called, Course
<1>12. CASE Record(d)
  BY <1>12, AtKeeps DEF Record, Course
<1>13. CASE Results(d) /\ ~End(d)
  BY <1>1, <1>13 DEF Results, Others, Course, Turn
<1>14. Refused(d) \/ HearCancel(d) \/ Trouble(d) => End(d)
  BY DEF Refused, HearCancel, Trouble, BeginFails, ReplyFails, RecordFails, ProviderFails
<1> QED
  BY <1>2, <1>3, <1>4, <1>5, <1>6, <1>7, <1>8, <1>9, <1>10, <1>11, <1>12, <1>13, <1>14 DEF Step

----------------------------------------------------------------------------
(* Transcripts.                                                            *)

\* Tool calls whose results are to come.
Awaiting(d) == turn[d].pc \in {"tool", "running", "record"}

Written(t, n) == Ordered(t) /\ \A i \in DOMAIN t : t[i].id <= n

Due(d) ==
    LET t == transcript[turn[d].session]
    IN  (\E i \in DOMAIN t : t[i] = turn[d].reply) /\ \A i \in DOMAIN t : t[i] # ResultsOf(turn[d].reply)

TranscriptsInv ==
    /\ \A s \in Session : Written(transcript[s], serial)
    /\ \A d \in Driver : turn[d].prompt <= serial
    /\ \A d \in Driver : Awaiting(d) => Due(d)

LEMMA Identified ==
    ASSUME NEW t \in Seq(Msg)
    PROVE  Len(t) \in Nat /\ DOMAIN t = 1..Len(t) /\ \A i \in 1..Len(t) : t[i] \in Msg /\ t[i].id \in Nat
<1>1. Len(t) \in Nat /\ DOMAIN t = 1..Len(t) /\ \A i \in 1..Len(t) : t[i] \in Msg
  BY Members
<1>2. \A m \in Msg : m.id \in Nat
  BY DEF Msg
<1> QED
  BY <1>1, <1>2

LEMMA OrderedNext ==
    ASSUME NEW t \in Seq(Msg), NEW m \in Msg, Ordered(t), m.kind # "cue",
           m.kind \in {"calls", "results"} => \A i \in DOMAIN t : t[i] # m,
           m.kind = "results" => \E j \in DOMAIN t : t[j].kind = "calls" /\ m = ResultsOf(t[j])
    PROVE  Ordered(Append(t, m))
<1> DEFINE r == Append(t, m)
<1>1. /\ Len(t) \in Nat /\ DOMAIN t = 1..Len(t) /\ DOMAIN r = 1..(Len(t) + 1)
      /\ r[Len(t) + 1] = m /\ \A i \in 1..Len(t) : r[i] = t[i]
  BY Appended
<1> HIDE DEF r
<1>2. \A i \in DOMAIN r : r[i].kind # "cue"
  BY <1>1 DEF Ordered
<1>3. ASSUME NEW i \in DOMAIN r, NEW j \in DOMAIN r, r[i] = r[j], r[i].kind \in {"calls", "results"} PROVE i = j
  <2>1. CASE i \in 1..Len(t) /\ j \in 1..Len(t)
    BY <1>1, <1>3, <2>1 DEF Ordered
  <2>2. CASE i = Len(t) + 1 /\ j = Len(t) + 1
    BY <2>2
  <2>3. CASE i = Len(t) + 1 /\ j \in 1..Len(t)
    BY <1>1, <1>3, <2>3
  <2>4. CASE j = Len(t) + 1 /\ i \in 1..Len(t)
    BY <1>1, <1>3, <2>4
  <2> QED
    BY <1>1, <2>1, <2>2, <2>3, <2>4
<1>4. ASSUME NEW i \in DOMAIN r, r[i].kind = "results"
      PROVE  \E j \in 1..(i - 1) : r[j].kind = "calls" /\ r[i] = ResultsOf(r[j])
  <2>1. CASE i \in 1..Len(t)
    <3>1. PICK j \in 1..(i - 1) : t[j].kind = "calls" /\ t[i] = ResultsOf(t[j])
      BY <1>1, <1>4, <2>1 DEF Ordered
    <3>2. j \in 1..Len(t)
      BY <1>1, <2>1
    <3> QED
      BY <1>1, <2>1, <3>1, <3>2
  <2>2. CASE i = Len(t) + 1
    <3>1. PICK j \in DOMAIN t : t[j].kind = "calls" /\ m = ResultsOf(t[j])
      BY <1>1, <1>4, <2>2
    <3>2. j \in 1..(i - 1) /\ r[j] = t[j] /\ r[i] = m
      BY <1>1, <2>2
    <3> QED
      BY <3>1, <3>2
  <2> QED
    BY <1>1, <2>1, <2>2
<1>5. Ordered(r)
  BY <1>2, <1>3, <1>4 DEF Ordered
<1> QED
  BY <1>5 DEF r

\* A line that is added in order leaves all transcripts so.
LEMMA WrittenNext ==
    ASSUME TurnsInv, TranscriptsInv, NEW s \in Session, NEW m \in Msg,
           transcript' = [transcript EXCEPT ![s] = Append(@, m)], serial' \in Nat, serial <= serial', m.id <= serial',
           m.kind # "cue",
           m.kind \in {"calls", "results"} => \A i \in DOMAIN transcript[s] : transcript[s][i] # m,
           m.kind = "results" => \E j \in DOMAIN transcript[s] : transcript[s][j].kind = "calls" /\ m = ResultsOf(transcript[s][j])
    PROVE  \A r \in Session : Written(transcript'[r], serial')
<1> SUFFICES ASSUME NEW r \in Session PROVE Written(transcript'[r], serial')
  OBVIOUS
<1>1. transcript[r] \in Seq(Msg) /\ transcript[s] \in Seq(Msg) /\ serial \in Nat
  BY DEF TurnsInv, AgentTypeOK
<1>2. /\ Len(transcript[r]) \in Nat /\ DOMAIN transcript[r] = 1..Len(transcript[r])
      /\ \A i \in 1..Len(transcript[r]) : transcript[r][i].id \in Nat
  BY <1>1, Identified
<1>3. Written(transcript[r], serial) /\ Written(transcript[s], serial)
  BY DEF TranscriptsInv
<1>4. transcript'[r] = IF r = s THEN Append(transcript[r], m) ELSE transcript[r]
  BY DEF TurnsInv, AgentTypeOK
<1>5. CASE r # s
  <2>1. \A i \in DOMAIN transcript[r] : transcript[r][i].id <= serial'
    BY <1>1, <1>2, <1>3 DEF Written
  <2> QED
    BY <1>3, <1>4, <1>5, <2>1 DEF Written
<1>6. CASE r = s
  <2> DEFINE t == Append(transcript[r], m)
  <2>1. Ordered(t)
    BY <1>1, <1>3, <1>6, OrderedNext DEF Written
  <2>2. /\ DOMAIN t = 1..(Len(transcript[r]) + 1) /\ t[Len(transcript[r]) + 1] = m
        /\ \A i \in 1..Len(transcript[r]) : t[i] = transcript[r][i]
    BY <1>1, Appended
  <2>3. transcript'[r] = t
    BY <1>4, <1>6
  <2> HIDE DEF t
  <2>4. ASSUME NEW i \in DOMAIN t PROVE t[i].id <= serial'
    <3>1. CASE i = Len(transcript[r]) + 1
      BY <2>2, <3>1
    <3>2. CASE i \in 1..Len(transcript[r])
      <4>1. transcript[r][i].id <= serial
        BY <1>2, <1>3, <3>2 DEF Written
      <4> QED
        BY <1>1, <1>2, <2>2, <3>2, <4>1
    <3> QED
      BY <1>2, <2>2, <3>1, <3>2
  <2> QED
    BY <2>1, <2>3, <2>4 DEF Written
<1> QED
  BY <1>5, <1>6

LEMMA WrittenStays ==
    ASSUME TurnsInv, TranscriptsInv, UNCHANGED transcript, serial' \in Nat, serial <= serial'
    PROVE  \A r \in Session : Written(transcript'[r], serial')
<1> SUFFICES ASSUME NEW r \in Session PROVE Written(transcript'[r], serial')
  OBVIOUS
<1>1. transcript[r] \in Seq(Msg) /\ serial \in Nat
  BY DEF TurnsInv, AgentTypeOK
<1>2. DOMAIN transcript[r] = 1..Len(transcript[r]) /\ \A i \in 1..Len(transcript[r]) : transcript[r][i].id \in Nat
  BY <1>1, Identified
<1>3. Written(transcript[r], serial)
  BY DEF TranscriptsInv
<1>4. \A i \in DOMAIN transcript[r] : transcript[r][i].id <= serial'
  BY <1>1, <1>2, <1>3 DEF Written
<1> QED
  BY <1>3, <1>4 DEF Written

\* Results that are to come are still to come after other lines.
LEMMA DueStays ==
    ASSUME TurnsInv, NEW e \in Driver, Due(e), turn'[e].session = turn[e].session, turn'[e].reply = turn[e].reply,
           \/ UNCHANGED transcript
           \/ \E s \in Session, m \in Msg :
                transcript' = [transcript EXCEPT ![s] = Append(@, m)] /\ m # ResultsOf(turn[e].reply)
    PROVE  Due(e)'
<1> DEFINE r == turn[e].session
           t == transcript[r]
<1>1. r \in Session /\ t \in Seq(Msg)
  BY DEF TurnsInv, AgentTypeOK, Turn
<1>2. CASE UNCHANGED transcript
  BY <1>2 DEF Due
<1>3. CASE \E s \in Session, m \in Msg :
             transcript' = [transcript EXCEPT ![s] = Append(@, m)] /\ m # ResultsOf(turn[e].reply)
  <2>1. PICK s \in Session, m \in Msg :
          transcript' = [transcript EXCEPT ![s] = Append(@, m)] /\ m # ResultsOf(turn[e].reply)
    BY <1>3
  <2>2. transcript'[r] = IF r = s THEN Append(t, m) ELSE t
    BY <1>1, <2>1, TranscriptGrows
  <2>3. /\ Len(t) \in Nat /\ DOMAIN t = 1..Len(t) /\ DOMAIN Append(t, m) = 1..(Len(t) + 1)
        /\ Append(t, m)[Len(t) + 1] = m /\ \A i \in 1..Len(t) : Append(t, m)[i] = t[i]
    BY <1>1, Appended
  <2>4. (\E i \in DOMAIN t : t[i] = turn[e].reply) /\ \A i \in DOMAIN t : t[i] # ResultsOf(turn[e].reply)
    BY DEF Due
  <2> DEFINE u == transcript'[r]
  <2>5. (\E i \in DOMAIN u : u[i] = turn[e].reply) /\ \A i \in DOMAIN u : u[i] # ResultsOf(turn[e].reply)
    <3> HIDE DEF t, r
    <3>1. CASE u = t
      BY <2>4, <3>1
    <3>2. CASE u = Append(t, m)
      <4>1. /\ DOMAIN u = 1..(Len(t) + 1) /\ Len(t) \in Nat /\ DOMAIN t = 1..Len(t)
            /\ u[Len(t) + 1] = m /\ \A i \in 1..Len(t) : u[i] = t[i]
        BY <2>3, <3>2
      <4> HIDE DEF u
      <4>2. \E i \in DOMAIN u : u[i] = turn[e].reply
        BY <2>4, <4>1
      <4>3. ASSUME NEW i \in DOMAIN u PROVE u[i] # ResultsOf(turn[e].reply)
        BY <2>1, <2>4, <4>1
      <4> QED
        BY <4>2, <4>3
    <3> QED
      BY <2>2, <3>1, <3>2
  <2> HIDE DEF u
  <2>6. transcript'[turn'[e].session] = u /\ turn'[e].reply = turn[e].reply
    BY DEF u
  <2> QED
    BY <2>5, <2>6 DEF Due
<1> QED
  BY <1>2, <1>3

\* Which turns have results to come after a step, other than a reply.
LEMMA UnansweredBefore ==
    ASSUME TurnsInv, NEW d \in Driver, Step(d) \/ Trouble(d), ~Reply(d), NEW e \in Driver, Awaiting(e)'
    PROVE  Awaiting(e) /\ turn'[e].session = turn[e].session /\ turn'[e].reply = turn[e].reply
           /\ ~(e = d /\ Record(d))
<1>1. Others(d) /\ Course(d)
  BY Courses
<1>2. CASE e # d
  BY <1>1, <1>2 DEF Others, Awaiting
<1>3. CASE e = d
  <2>1. turn'[d].pc \in {"tool", "running", "record"}
    BY <1>3 DEF Awaiting
  <2>2. ~Over(d)
    BY <2>1 DEF Over
  <2>3. (StartTool(d) \/ FinishTool(d) \/ Called(d)) /\ Kept(d)
    BY <1>1, <2>1, <2>2 DEF Course
  <2>4. turn[d].pc \in {"tool", "running"}
    BY <2>3 DEF StartTool, FinishTool, Called
  <2> QED
    BY <1>3, <2>3, <2>4 DEF Kept, Awaiting, Record
<1> QED
  BY <1>2, <1>3

LEMMA PromptsNumbered ==
    ASSUME TurnsInv, TranscriptsInv, NEW d \in Driver, Step(d) \/ Trouble(d), serial' \in Nat, serial <= serial'
    PROVE  \A e \in Driver : turn'[e].prompt <= serial'
<1> SUFFICES ASSUME NEW e \in Driver PROVE turn'[e].prompt <= serial'
  OBVIOUS
<1>1. Others(d) /\ Course(d)
  BY Courses
<1>2. turn[e].prompt \in Nat /\ turn[e].prompt <= serial /\ serial \in Nat
  BY DEF TurnsInv, AgentTypeOK, Turn, TranscriptsInv
<1>3. turn'[e].prompt \in {turn[e].prompt, 0}
  BY <1>1 DEF Others, Course, Over, Kept
<1> QED
  BY <1>2, <1>3

LEMMA TranscriptsStep ==
    ASSUME TurnsInv, TranscriptsInv, NEW d \in Driver, Step(d) \/ Trouble(d)
    PROVE  TranscriptsInv'
<1>1. serial' \in Nat /\ serial <= serial' /\ serial \in Nat
  <2>1. serial \in Nat
    BY DEF TurnsInv, AgentTypeOK
  <2>2. serial' \in {serial, serial + 1}
    BY Counts
  <2> QED
    BY <2>1, <2>2
<1>2. \A e \in Driver : turn'[e].prompt <= serial'
  BY <1>1, PromptsNumbered
<1>3. turn[d] \in Turn /\ turn[d].session \in Session /\ turn[d].reply \in Msg /\ turn[d].prompt \in Nat
      /\ turn[d].prompt <= serial /\ transcript \in [Session -> Seq(Msg)] /\ active.session \in Session
      /\ turn \in [Driver -> Turn] /\ Phase(turn[d], d)
  BY DEF TurnsInv, AgentTypeOK, Turn, TranscriptsInv, Phases
<1> DEFINE WrittenAll == \A r \in Session : Written(transcript'[r], serial')
           DueAll == \A e \in Driver : Awaiting(e)' => Due(e)'
<1>4. CASE UNCHANGED transcript /\ ~Reply(d)
  <2>1. WrittenAll
    BY <1>1, <1>4, WrittenStays
  <2>2. DueAll
    BY <1>4, UnansweredBefore, DueStays DEF TranscriptsInv
  <2> QED
    BY <1>2, <2>1, <2>2 DEF TranscriptsInv
<1>5. CASE Begin(d)
  <2> DEFINE m == Message("prompt", turn[d].prompt, d)
  <2>1. m \in Msg /\ m.kind = "prompt" /\ m.id = turn[d].prompt
    BY <1>3, MessageType
  <2>2. transcript' = [transcript EXCEPT ![active.session] = Append(@, m)] /\ serial' = serial /\ ~Reply(d)
    BY <1>5 DEF Begin, Reply
  <2> HIDE DEF m
  <2>3. WrittenAll
    BY <1>1, <1>3, <2>1, <2>2, WrittenNext
  <2>4. \A e \in Driver : m # ResultsOf(turn[e].reply)
    BY <1>3, <2>1, ResultsType DEF Turn
  <2>5. DueAll
    BY <1>3, <2>1, <2>2, <2>4, UnansweredBefore, DueStays DEF TranscriptsInv
  <2> QED
    BY <1>2, <2>3, <2>5 DEF TranscriptsInv
<1>6. CASE Record(d)
  <2> DEFINE m == ResultsOf(turn[d].reply)
             s == turn[d].session
  <2>1. m \in Msg /\ m.kind = "results" /\ m.id = turn[d].reply.id /\ m.of = turn[d].reply.of
    BY <1>3, ResultsType
  <2>2. transcript' = [transcript EXCEPT ![s] = Append(@, m)] /\ serial' = serial /\ ~Reply(d)
    BY <1>6 DEF Record, Recorded, Reply
  <2>3. turn[d].pc = "record" /\ turn[d].reply.kind = "calls" /\ turn[d].reply.of = d
    BY <1>3, <1>6 DEF Record, Phase
  <2>4. (\E i \in DOMAIN transcript[s] : transcript[s][i] = turn[d].reply) /\ \A i \in DOMAIN transcript[s] : transcript[s][i] # m
    BY <2>3 DEF TranscriptsInv, Awaiting, Due
  <2>5. turn[d].reply.id <= serial
    BY <1>3, <2>4 DEF TranscriptsInv, Written
  <2>6. WrittenAll
    <3> HIDE DEF m
    <3>1. \E j \in DOMAIN transcript[s] : transcript[s][j].kind = "calls" /\ m = ResultsOf(transcript[s][j])
      BY <2>3, <2>4 DEF m
    <3> QED
      BY <1>1, <1>3, <2>1, <2>2, <2>4, <2>5, <3>1, WrittenNext
  <2>7. ASSUME NEW e \in Driver, Awaiting(e)' PROVE Due(e)'
    <3>1. Awaiting(e) /\ turn'[e].session = turn[e].session /\ turn'[e].reply = turn[e].reply /\ e # d
      BY <1>6, <2>2, <2>7, UnansweredBefore
    <3>2. turn[e].reply.of = e /\ turn[e].reply \in Msg
      BY <1>3, <3>1 DEF Awaiting, TurnsInv, Phases, Phase, Turn
    <3>3. m # ResultsOf(turn[e].reply)
      BY <2>1, <2>3, <3>1, <3>2, ResultsType
    <3> QED
      BY <1>3, <2>1, <2>2, <3>1, <3>3, DueStays DEF TranscriptsInv
  <2> QED
    BY <1>2, <2>6, <2>7 DEF TranscriptsInv
<1>7. CASE Reply(d)
  <2> DEFINE s == turn[d].session
             t == transcript[s]
  <2>1. PICK reply \in Msg, stop \in BOOLEAN :
          /\ reply.id = serial + 1 /\ reply.of = d /\ reply.kind \in {"text", "cut", "calls"}
          /\ Recorded(d, reply) /\ Moved(d, Heard(turn[d], reply, stop))
    BY <1>7, ReplyTyped
  <2>2. transcript' = [transcript EXCEPT ![s] = Append(@, reply)] /\ serial' = serial + 1
    BY <1>7, <2>1 DEF Recorded, Reply
  <2>3. t \in Seq(Msg)
    BY <1>3
  <2>4. \A i \in DOMAIN t : t[i].id # serial + 1
    <3>1. \A i \in DOMAIN t : t[i].id \in Nat /\ t[i].id <= serial
      BY <1>3, <2>3, Identified DEF TranscriptsInv, Written
    <3> QED
      BY <1>1, <3>1
  <2>5. WrittenAll
    <3>1. reply.id <= serial' /\ reply.kind # "cue" /\ reply.kind # "results"
      BY <1>1, <2>1, <2>2
    <3>2. \A i \in DOMAIN transcript[s] : transcript[s][i] # reply
      BY <2>1, <2>4
    <3>3. s \in Session
      BY <1>3
    <3> HIDE DEF s
    <3> QED
      BY <1>1, <2>2, <3>1, <3>2, <3>3, WrittenNext
  <2>6. ASSUME NEW e \in Driver, Awaiting(e)' PROVE Due(e)'
    <3>1. CASE e # d
      <4>1. turn'[e] = turn[e] /\ turn[e].reply \in Msg
        BY <1>3, <2>1, <3>1 DEF Moved, Turn
      <4>2. Awaiting(e) /\ reply # ResultsOf(turn[e].reply)
        BY <2>1, <2>6, <4>1, ResultsType DEF Awaiting
      <4> QED
        BY <1>3, <2>1, <2>2, <4>1, <4>2, DueStays DEF TranscriptsInv
    <3>2. CASE e = d
      <4>1. turn'[d] = Heard(turn[d], reply, stop) /\ turn[d].rounds < MaxRounds
        BY <1>3, <1>7, <2>1 DEF Moved, Reply, Phase
      <4>2. turn'[d].reply = reply /\ turn'[d].session = s
        <5>1. turn[d] \in Turn /\ reply.of = d /\ turn[d].rounds < MaxRounds /\ reply.kind \in {"text", "cut", "calls"}
          BY <1>3, <2>1, <4>1
        <5>2. Heard(turn[d], reply, stop).reply = reply /\ Heard(turn[d], reply, stop).session = turn[d].session
          BY <5>1, HeardType
        <5> QED
          BY <4>1, <5>2
      <4> DEFINE u == Append(t, reply)
      <4>3. transcript'[s] = u
        BY <1>3, <2>1, <2>2, TranscriptGrows
      <4>4. /\ Len(t) \in Nat /\ DOMAIN t = 1..Len(t) /\ DOMAIN u = 1..(Len(t) + 1)
            /\ u[Len(t) + 1] = reply /\ \A i \in 1..Len(t) : u[i] = t[i]
        BY <2>1, <2>3, Appended
      <4> HIDE DEF u
      <4>5. ResultsOf(reply).id = serial + 1 /\ ResultsOf(reply) # reply
        BY <2>1, ResultsType
      <4>6. \E i \in DOMAIN u : u[i] = reply
        BY <4>4
      <4>7. ASSUME NEW i \in DOMAIN u PROVE u[i] # ResultsOf(reply)
        <5>1. CASE i = Len(t) + 1
          BY <4>4, <4>5, <5>1
        <5>2. CASE i \in 1..Len(t)
          BY <2>4, <4>4, <4>5, <5>2
        <5> QED
          BY <4>4, <5>1, <5>2
      <4> QED
        BY <3>2, <4>2, <4>3, <4>6, <4>7 DEF Due
    <3> QED
      BY <3>1, <3>2
  <2> QED
    BY <1>2, <2>5, <2>6 DEF TranscriptsInv
<1>8. UNCHANGED transcript \/ Begin(d) \/ Record(d) \/ Reply(d)
  BY DEF Step, Trouble, Begin, BeginFails, Remember, Ask, Refused, Reply, HearCancel, Said, Cue, StartTool, FinishTool,
         Called, Record, Results, ReplyFails, RecordFails, ProviderFails
<1> QED
  BY <1>4, <1>5, <1>6, <1>7, <1>8

\* The other steps write nothing, and start or end turns.
LEMMA TranscriptsKept ==
    ASSUME TurnsInv, TranscriptsInv, UNCHANGED transcript, serial' \in Nat, serial <= serial',
           \A e \in Driver : \/ turn'[e].session = turn[e].session /\ turn'[e].reply = turn[e].reply
                                /\ turn'[e].pc = turn[e].pc /\ turn'[e].prompt = turn[e].prompt
                             \/ turn'[e].pc \in {"idle", "spawned", "over"} /\ turn'[e].prompt \in Nat /\ turn'[e].prompt <= serial'
    PROVE  TranscriptsInv'
<1>1. \A r \in Session : Written(transcript'[r], serial')
  BY WrittenStays
<1>2. ASSUME NEW e \in Driver PROVE turn'[e].prompt <= serial'
  <2>1. turn[e].prompt \in Nat /\ serial \in Nat /\ turn[e].prompt <= serial
    BY DEF TurnsInv, AgentTypeOK, Turn, TranscriptsInv
  <2> QED
    BY <2>1
<1>3. ASSUME NEW e \in Driver, Awaiting(e)' PROVE Due(e)'
  <2>1. turn'[e].session = turn[e].session /\ turn'[e].reply = turn[e].reply /\ Awaiting(e)
    BY <1>3 DEF Awaiting
  <2> QED
    BY <2>1, DueStays DEF TranscriptsInv
<1> QED
  BY <1>1, <1>2, <1>3 DEF TranscriptsInv

----------------------------------------------------------------------------
(* What the history may lack.                                              *)

\* The calls are in the history, without their results.
Asking(d) == turn[d].pc \in {"record", "results"}

\* One turn runs, in the session that is open.
Alone ==
    "broken" \notin torn =>
        \A d \in Driver : Running(d) => turn[d].session = active.session /\ \A e \in Driver : Running(e) => d = e

\* Between a turn's calls and their results the history can not be sent.
Sendable ==
    "broken" \notin torn =>
        /\ (\A d \in Driver : ~Asking(d)) => Answerable(active.history)
        /\ \A d \in Driver : Asking(d) =>
            \E h \in Seq(Msg) : active.history = Append(h, turn[d].reply) /\ Answerable(h)

LEMMA StepTorn ==
    ASSUME NEW d \in Driver, Step(d) \/ Trouble(d)
    PROVE  /\ "broken" \notin torn' => /\ "broken" \notin torn /\ ~RecordFails(d)
                                       /\ Begin(d) => \A e \in Driver \ {d} : ~Running(e)
           /\ torn' = {} => torn = {}
<1>1. CASE Begin(d)
  <2>1. torn' = IF \E e \in Driver \ {d} : Running(e) THEN torn \cup {"broken"} ELSE torn
    BY <1>1 DEF Begin
  <2>2. ~RecordFails(d)
    BY <1>1 DEF Begin, RecordFails
  <2> QED
    BY <2>1, <2>2
<1>2. CASE RecordFails(d)
  <2>1. torn' = torn \cup {"broken"}
    BY <1>2 DEF RecordFails
  <2> QED
    BY <2>1
<1>3. CASE ~Begin(d) /\ ~RecordFails(d)
  <2>1. torn' = torn
    BY <1>3 DEF Step, Trouble, BeginFails, Remember, Ask, Refused, Reply, HearCancel, Said, Cue, StartTool, FinishTool,
           Called, Record, Results, ReplyFails, ProviderFails
  <2> QED
    BY <1>3, <2>1
<1> QED
  BY <1>1, <1>2, <1>3

\* Who runs after a step ran before it, or begins.
LEMMA RunningBefore ==
    ASSUME TurnsInv, NEW d \in Driver, Step(d) \/ Trouble(d), NEW e \in Driver, Running(e)'
    PROVE  \/ Running(e) /\ turn'[e].session = turn[e].session
           \/ e = d /\ Begin(d) /\ turn'[e].session = active.session
<1>1. Others(d) /\ Course(d)
  BY Courses
<1>2. CASE e # d
  BY <1>1, <1>2 DEF Others, Running
<1>3. CASE e = d
  <2>1. ~Over(d)
    BY <1>3 DEF Over, Running
  <2>2. CASE Begin(d)
    BY <1>1, <1>3, <2>2 DEF Course, Over, Begin, Remember, Ask, Reply, Said, Cue, StartTool, FinishTool, Called, Record, Results, Running
  <2>3. CASE ~Begin(d)
    <3>1. turn'[d].session = turn[d].session
      BY <1>1, <2>1, <2>3 DEF Course, Kept
    <3>2. turn[d].pc \in {"remember", "ask", "waiting", "said", "cue", "tool", "running", "record", "results"}
      BY <1>1, <2>1, <2>3 DEF Course, Remember, Ask, Reply, Said, Cue, StartTool, FinishTool, Called, Record, Results
    <3> QED
      BY <1>3, <3>1, <3>2 DEF Running
  <2> QED
    BY <2>2, <2>3
<1> QED
  BY <1>2, <1>3

\* The session that is open is not for a turn's step to change.
LEMMA SessionKept ==
    ASSUME TurnsInv, NEW d \in Driver, Step(d) \/ Trouble(d)
    PROVE  active'.session = active.session /\ active'.from = active.from
<1>1. CASE UNCHANGED active
  BY <1>1
<1>2. CASE \E m \in Msg : Remembered(m)
  BY <1>2, HistoryGrows
<1> QED
  BY <1>1, <1>2, Growth

LEMMA AloneStep ==
    ASSUME TurnsInv, Alone, NEW d \in Driver, Step(d) \/ Trouble(d)
    PROVE  Alone'
<1> SUFFICES ASSUME "broken" \notin torn', NEW e \in Driver, Running(e)'
             PROVE  turn'[e].session = active'.session /\ \A f \in Driver : Running(f)' => e = f
  BY DEF Alone
<1>1. "broken" \notin torn /\ (Begin(d) => \A f \in Driver \ {d} : ~Running(f))
  BY StepTorn
<1>2. active'.session = active.session
  BY SessionKept
<1>3. turn'[e].session = active'.session
  BY <1>1, <1>2, RunningBefore DEF Alone
<1>4. ASSUME NEW f \in Driver, Running(f)' PROVE e = f
  <2>1. CASE Begin(d)
    <3>1. ~Running(d)
      BY <2>1 DEF Begin, Running
    <3>2. \A g \in Driver : ~Running(g)
      BY <1>1, <2>1, <3>1
    <3>3. e = d /\ f = d
      BY <1>4, <3>2, RunningBefore
    <3> QED
      BY <3>3
  <2>2. CASE ~Begin(d)
    <3>1. Running(e) /\ Running(f)
      BY <1>4, <2>2, RunningBefore
    <3> QED
      BY <1>1, <3>1 DEF Alone
  <2> QED
    BY <2>1, <2>2
<1> QED
  BY <1>3, <1>4

\* Nobody else has calls in the history while a turn runs.
LEMMA OnlyOneAsks ==
    ASSUME Alone, "broken" \notin torn, NEW d \in Driver, Running(d)
    PROVE  \A e \in Driver : Asking(e) => e = d
BY DEF Alone, Asking, Running

\* Of a turn that runs alone, Sendable is about that turn.
LEMMA SendableAlone ==
    ASSUME NEW d \in Driver, \A e \in Driver : Asking(e)' => e = d,
           ~Asking(d)' => Answerable(active'.history),
           Asking(d)' => \E h \in Seq(Msg) : active'.history = Append(h, turn'[d].reply) /\ Answerable(h)
    PROVE  Sendable'
<1> SUFFICES ASSUME "broken" \notin torn'
             PROVE  /\ (\A e \in Driver : ~Asking(e)') => Answerable(active'.history)
                    /\ \A e \in Driver : Asking(e)' =>
                        \E h \in Seq(Msg) : active'.history = Append(h, turn'[e].reply) /\ Answerable(h)
  BY DEF Sendable
<1>1. (\A e \in Driver : ~Asking(e)') => Answerable(active'.history)
  OBVIOUS
<1>2. ASSUME NEW e \in Driver, Asking(e)'
      PROVE  \E h \in Seq(Msg) : active'.history = Append(h, turn'[e].reply) /\ Answerable(h)
  BY <1>2
<1> QED
  BY <1>1, <1>2

LEMMA SendableStep ==
    ASSUME TurnsInv, Alone, Sendable, NEW d \in Driver, Step(d) \/ Trouble(d)
    PROVE  Sendable'
<1> SUFFICES ASSUME "broken" \notin torn' PROVE Sendable'
  BY DEF Sendable
<1>1. "broken" \notin torn /\ ~RecordFails(d) /\ (Begin(d) => \A f \in Driver \ {d} : ~Running(f))
  BY StepTorn
<1>2. Others(d) /\ Course(d) /\ turn[d] \in Turn /\ Phase(turn[d], d) /\ turn[d].reply \in Msg /\ active.history \in Seq(Msg)
  BY Courses DEF TurnsInv, AgentTypeOK, Turn, Phases
<1>3. CASE turn[d].pc \in {"spawned", "idle", "over"}
  <2>1. UNCHANGED active /\ ~Asking(d) /\ ~Asking(d)'
    BY <1>2, <1>3 DEF Step, Trouble, Begin, BeginFails, Remember, Ask, Refused, Reply, HearCancel, Said, Cue, StartTool,
                      FinishTool, Called, Record, Results, ReplyFails, RecordFails, ProviderFails, Asking, Course, Over
  <2>2. \A e \in Driver : (Asking(e)' <=> Asking(e)) /\ (Asking(e) => turn'[e].reply = turn[e].reply)
    BY <1>2, <2>1 DEF Others, Asking
  <2> QED
    BY <1>1, <2>1, <2>2 DEF Sendable
<1>4. CASE Running(d)
  <2>1. \A e \in Driver : Asking(e) => e = d
    BY <1>1, <1>4, OnlyOneAsks
  <2>2. \A e \in Driver : Asking(e)' => e = d
    BY <1>2, <2>1 DEF Others, Asking
  <2>3. ~Asking(d) => Answerable(active.history)
    BY <1>1, <2>1 DEF Sendable
  <2>4. Asking(d) => \E h \in Seq(Msg) : active.history = Append(h, turn[d].reply) /\ Answerable(h)
    BY <1>1 DEF Sendable
  <2>5. CASE Remember(d)
    <3> DEFINE m == Message("prompt", turn[d].prompt, d)
    <3>1. m \in Msg /\ m.kind = "prompt"
      BY <1>2, MessageType DEF Turn
    <3>2. active'.history = Append(active.history, m) /\ ~Asking(d)
      BY <2>5, <3>1, HistoryGrows DEF Remember, Asking
    <3>3. Answerable(active'.history)
      BY <1>2, <2>3, <3>1, <3>2, AnswerableMore
    <3>4. ~Asking(d)'
      BY <2>5, AtKeeps DEF Remember, Asking
    <3> QED
      BY <2>2, <3>3, <3>4, SendableAlone
  <2>6. CASE Said(d)
    <3>1. turn[d].reply.kind \in {"text", "cut"} /\ ~Asking(d)
      BY <1>2, <2>6 DEF Said, Phase, Asking
    <3>2. active'.history = Append(active.history, turn[d].reply)
      BY <1>2, <2>6, HistoryGrows DEF Said
    <3>3. Answerable(active'.history)
      BY <1>2, <2>3, <3>1, <3>2, AnswerableMore
    <3>4. ~Asking(d)'
      BY <1>2, <2>6 DEF Said, Course, Over, Asking, Begin, Remember, Ask, Reply, Cue, StartTool, FinishTool, Called, Record, Results
    <3> QED
      BY <2>2, <3>3, <3>4, SendableAlone
  <2>7. CASE Cue(d)
    <3> DEFINE m == Message("cue", turn[d].reply.id, d)
    <3>1. m \in Msg /\ m.kind = "cue"
      BY <1>2, MessageType DEF Turn, Msg
    <3>2. active'.history = Append(active.history, m) /\ ~Asking(d)
      BY <2>7, <3>1, HistoryGrows DEF Cue, Asking
    <3>3. Answerable(active'.history)
      BY <1>2, <2>3, <3>1, <3>2, AnswerableMore
    <3>4. ~Asking(d)'
      BY <1>2, <2>7 DEF Said, Course, Over, Asking, Begin, Remember, Ask, Reply, Cue, StartTool, FinishTool, Called, Record, Results
    <3> QED
      BY <2>2, <3>3, <3>4, SendableAlone
  <2>8. CASE Called(d)
    <3>1. ~Asking(d) /\ active'.history = Append(active.history, turn[d].reply)
      BY <1>2, <2>8, HistoryGrows DEF Called, Asking
    <3>2. turn'[d].reply = turn[d].reply /\ Asking(d)'
      BY <2>8, AtKeeps DEF Called, Asking, Kept
    <3> QED
      BY <1>2, <2>2, <2>3, <3>1, <3>2, SendableAlone
  <2>9. CASE Record(d)
    <3>1. Asking(d) /\ Asking(d)' /\ turn'[d].reply = turn[d].reply /\ UNCHANGED active
      BY <2>9, AtKeeps DEF Record, Asking, Kept
    <3> QED
      BY <2>2, <2>4, <3>1, SendableAlone
  <2>10. CASE Results(d)
    <3>1. PICK h \in Seq(Msg) : active.history = Append(h, turn[d].reply) /\ Answerable(h)
      BY <2>4, <2>10 DEF Results, Asking
    <3>2. active'.history = Append(active.history, ResultsOf(turn[d].reply)) /\ turn[d].reply.kind = "calls"
      BY <1>2, <2>10, ResultsType, HistoryGrows DEF Results, Phase
    <3>3. Answerable(active'.history)
      BY <1>2, <3>1, <3>2, AnswerableRound
    <3>4. ~Asking(d)'
      BY <1>2, <2>10 DEF Said, Course, Over, Asking, Begin, Remember, Ask, Reply, Cue, StartTool, FinishTool, Called, Record, Results
    <3> QED
      BY <2>2, <3>3, <3>4, SendableAlone
  <2>11. CASE ~(Remember(d) \/ Said(d) \/ Cue(d) \/ Called(d) \/ Record(d) \/ Results(d))
    <3>1. Ask(d) \/ Refused(d) \/ Reply(d) \/ HearCancel(d) \/ StartTool(d) \/ FinishTool(d) \/ ReplyFails(d) \/ ProviderFails(d)
      BY <1>1, <1>4, <2>11 DEF Step, Trouble, Begin, BeginFails, Running
    <3>2. UNCHANGED active /\ ~Asking(d)
      BY <3>1 DEF Ask, Refused, Reply, HearCancel, StartTool, FinishTool, ReplyFails, ProviderFails, Asking
    <3>3. ~Asking(d)'
      BY <1>2, <1>4, <2>11 DEF Course, Over, Asking, Begin, Running
    <3> QED
      BY <2>2, <2>3, <3>2, <3>3, SendableAlone
  <2> QED
    BY <2>5, <2>6, <2>7, <2>8, <2>9, <2>10, <2>11
<1> QED
  BY <1>3, <1>4 DEF Running

----------------------------------------------------------------------------
(* The terminal, and what clients ask for.                                 *)

Aside == {"idle", "spawned", "over"}

Same(e) == /\ turn'[e].session = turn[e].session /\ turn'[e].reply = turn[e].reply
           /\ turn'[e].pc = turn[e].pc /\ turn'[e].prompt = turn[e].prompt

\* Nothing that waits has a number to come.
Waits == \A k \in DOMAIN queue : queue[k].id <= serial

\* What is asked for neither enters a turn nor leaves one, and the history is
\* left alone or built anew.
Request ==
    /\ UNCHANGED transcript /\ serial' \in Nat /\ serial <= serial'
    /\ \A e \in Driver : \/ Same(e)
                         \/ turn[e].pc \in Aside /\ turn'[e].pc \in Aside /\ turn'[e].prompt \in Nat /\ turn'[e].prompt <= serial'
    /\ UNCHANGED <<active, torn>> \/ \E s \in Session : SwapTo(s)

LEMMA SpawnedAside ==
    ASSUME TurnsInv, NEW d \in Driver, NEW id \in Nat, Spawned(d, id)
    PROVE  /\ turn'[d].pc = "spawned" /\ turn'[d].prompt = id
           /\ \A e \in Driver \ {d} : turn'[e] = turn[e]
<1>1. turn \in [Driver -> Turn]
  BY DEF TurnsInv, AgentTypeOK
<1> QED
  BY <1>1 DEF Spawned, NoTurn

LEMMA RunLineAsks ==
    ASSUME TurnsInv, TranscriptsInv, NEW line \in Line, RunLine(line), turn[Repl].pc \in Aside, UNCHANGED transcript,
           serial' \in Nat, serial <= serial', line.id <= serial'
    PROVE  Request
<1>1. Repl \in Driver /\ line.id \in Nat /\ serial \in Nat /\ turn[Repl].prompt \in Nat /\ turn[Repl].prompt <= serial
  BY ReplDrives DEF Line, TurnsInv, AgentTypeOK, Turn, TranscriptsInv
<1>2. CASE Spawned(Repl, line.id) /\ UNCHANGED <<active, torn>>
  BY <1>1, <1>2, SpawnedAside DEF Request, Same, Aside
<1>3. CASE (\E s \in Session : SwapTo(s)) /\ At(Repl, "idle")
  <2>1. Others(Repl) /\ Kept(Repl) /\ turn'[Repl].pc = "idle"
    BY <1>1, <1>3, AtKeeps
  <2> QED
    BY <1>1, <1>3, <2>1 DEF Request, Same, Aside, Others, Kept
<1> QED
  BY <1>2, <1>3, FreshType DEF RunLine

LEMMA Asks ==
    ASSUME TurnsInv, TranscriptsInv, Waits,
           \/ (\E cmd \in {"prompt", "clear", "resume"} : Submit(cmd)) \/ Finished \/ Cancel
           \/ \E c \in Socket : Prompt(c) \/ Clear(c)
    PROVE  Request
<1>1. Repl \in Driver /\ serial \in Nat /\ turn \in [Driver -> Turn] /\ queue \in Seq(Line)
  BY ReplDrives DEF TurnsInv, AgentTypeOK
<1>2. CASE \E cmd \in {"prompt", "clear", "resume"} : Submit(cmd)
  <2>1. PICK cmd \in {"prompt", "clear", "resume"} : Submit(cmd)
    BY <1>2
  <2> DEFINE line == [cmd |-> cmd, id |-> serial + 1]
  <2>2. line \in Line /\ line.id = serial + 1 /\ serial' = serial + 1 /\ serial' \in Nat /\ serial <= serial' /\ UNCHANGED transcript
    BY <1>1, <2>1 DEF Line, Submit
  <2>3. (~InFlight /\ RunLine(line)) \/ UNCHANGED <<active, turn, torn>>
    BY <2>1 DEF Submit
  <2> HIDE DEF line
  <2>4. CASE ~InFlight /\ RunLine(line)
    BY <1>1, <2>2, <2>4, RunLineAsks DEF InFlight, Aside
  <2>5. CASE UNCHANGED <<active, turn, torn>>
    BY <2>2, <2>5 DEF Request, Same
  <2> QED
    BY <2>3, <2>4, <2>5
<1>3. CASE Finished
  <2>1. UNCHANGED <<transcript, serial>> /\ turn[Repl].pc = "over" /\ turn[Repl].prompt \in Nat /\ turn[Repl].prompt <= serial
    BY <1>1, <1>3 DEF Finished, TranscriptsInv, Turn
  <2>2. CASE queue = <<>>
    <3>1. At(Repl, "idle") /\ UNCHANGED <<active, torn>>
      BY <1>3, <2>2 DEF Finished
    <3>2. Others(Repl) /\ Kept(Repl) /\ turn'[Repl].pc = "idle"
      BY <1>1, <3>1, AtKeeps
    <3> QED
      BY <1>1, <2>1, <3>1, <3>2 DEF Request, Same, Aside, Others, Kept
  <2>3. CASE queue # <<>>
    <3>1. RunLine(Head(queue))
      BY <1>3, <2>3 DEF Finished
    <3>2. Head(queue) \in Line /\ Head(queue).id <= serial
      <4>1. Len(queue) \in Nat \ {0} /\ DOMAIN queue = 1..Len(queue) /\ Head(queue) = queue[1]
        BY <1>1, <2>3
      <4> QED
        BY <1>1, <4>1 DEF Waits
    <3> QED
      BY <1>1, <2>1, <3>1, <3>2, RunLineAsks DEF Aside
  <2> QED
    BY <2>2, <2>3
<1>4. CASE Cancel
  <2>1. UNCHANGED <<transcript, active, serial, torn>>
        /\ turn' = IF Running(slot) THEN [turn EXCEPT ![slot].tripped = TRUE] ELSE turn
    BY <1>4 DEF Cancel
  <2>2. \A e \in Driver : Same(e)
    BY <1>1, <2>1 DEF Same, Turn
  <2> QED
    BY <1>1, <2>1, <2>2 DEF Request
<1>5. ASSUME NEW c \in Socket, Prompt(c) PROVE Request
  <2>1. c \in Driver /\ turn[c].pc = "idle" /\ serial' = serial + 1 /\ serial + 1 \in Nat /\ Spawned(c, serial + 1)
        /\ UNCHANGED <<transcript, active, torn>>
    BY <1>1, <1>5, ReplDrives DEF Prompt
  <2>2. turn'[c].pc = "spawned" /\ turn'[c].prompt = serial + 1 /\ \A e \in Driver \ {c} : turn'[e] = turn[e]
    BY <2>1, SpawnedAside
  <2> QED
    BY <1>1, <2>1, <2>2 DEF Request, Same, Aside
<1>6. ASSUME NEW c \in Socket, Clear(c) PROVE Request
  BY <1>1, <1>6, FreshType DEF Clear, Request, Same
<1> QED
  BY <1>2, <1>3, <1>4, <1>5, <1>6

LEMMA RequestKeeps ==
    ASSUME TurnsInv, TranscriptsInv, Alone, Sendable, Request
    PROVE  TranscriptsInv' /\ Alone' /\ Sendable'
<1>1. TranscriptsInv'
  BY TranscriptsKept DEF Request, Same, Aside
<1>2. \A e \in Driver : Same(e) \/ (turn[e].pc \in Aside /\ turn'[e].pc \in Aside)
  BY DEF Request
<1>3. ASSUME NEW e \in Driver
      PROVE  /\ Running(e)' <=> Running(e)
             /\ Asking(e)' <=> Asking(e)
             /\ Running(e) => turn'[e].session = turn[e].session /\ turn'[e].reply = turn[e].reply
  BY <1>2 DEF Same, Aside, Running, Asking
<1>4. CASE UNCHANGED <<active, torn>>
  <2>1. Alone'
    BY <1>3, <1>4 DEF Alone
  <2>2. \A e \in Driver : Asking(e) => Running(e)
    BY DEF Asking, Running
  <2> HIDE DEF Asking, Running
  <2>3. Sendable'
    BY <1>3, <1>4, <2>2 DEF Sendable
  <2> QED
    BY <1>1, <2>1, <2>3
<1>5. ASSUME NEW s \in Session, SwapTo(s) PROVE Alone' /\ Sendable'
  <2>1. active' = Open(s) /\ torn' = IF \E e \in Driver : Running(e) THEN {"broken"} ELSE {}
    BY <1>5 DEF SwapTo
  <2> SUFFICES ASSUME "broken" \notin torn' PROVE Alone' /\ Sendable'
    BY DEF Alone, Sendable
  <2>2. \A e \in Driver : ~Running(e)
    BY <2>1
  <2>3. \A e \in Driver : ~Running(e)' /\ ~Asking(e)'
    BY <1>3, <2>2 DEF Asking, Running
  <2>4. Answerable(active'.history)
    <3>1. transcript[s] \in Seq(Msg) /\ Ordered(transcript[s])
      BY DEF TurnsInv, AgentTypeOK, TranscriptsInv, Written
    <3>2. active'.history = Rebuild(transcript[s])
      BY <2>1, OpenType
    <3> QED
      BY <3>1, <3>2, RebuiltIsAnswerable
  <2> QED
    BY <2>3, <2>4 DEF Alone, Sendable
<1> QED
  BY <1>1, <1>4, <1>5 DEF Request

LEMMA HangUpKeeps ==
    ASSUME TurnsInv, TranscriptsInv, Alone, Sendable, NEW c \in Socket, HangUp(c)
    PROVE  TranscriptsInv' /\ Alone' /\ Sendable'
<1>1. c \in Driver /\ Running(c) /\ turn[c].pc # "record" /\ End(c) /\ UNCHANGED <<transcript, active, serial>>
      /\ torn \subseteq torn' /\ (turn[c].pc = "results" => "broken" \in torn') /\ serial \in Nat
  BY ReplDrives DEF HangUp, TurnsInv, AgentTypeOK
<1>2. Others(c) /\ turn'[c].pc \in {"idle", "over"} /\ turn'[c].prompt = 0
  BY <1>1, EndIsOver DEF Over
<1>3. TranscriptsInv'
  <2>1. \A e \in Driver : turn[e].prompt \in Nat /\ turn[e].prompt <= serial
    BY DEF TurnsInv, AgentTypeOK, Turn, TranscriptsInv
  <2> QED
    BY <1>1, <1>2, <2>1, TranscriptsKept DEF Others
<1> SUFFICES ASSUME "broken" \notin torn' PROVE Alone' /\ Sendable'
  BY <1>3 DEF Alone, Sendable
<1>4. "broken" \notin torn /\ ~Asking(c)
  BY <1>1 DEF Asking
<1>5. \A e \in Driver : ~Asking(e)
  BY <1>1, <1>4, OnlyOneAsks
<1>6. \A e \in Driver : ~Running(e)'
  BY <1>1, <1>2, <1>4 DEF Others, Alone, Running
<1>7. \A e \in Driver : ~Asking(e)'
  BY <1>6 DEF Asking, Running
<1>8. Answerable(active'.history)
  BY <1>1, <1>4, <1>5 DEF Sendable
<1> QED
  BY <1>6, <1>7, <1>8 DEF Alone, Sendable

LEMMA RestartKeeps ==
    ASSUME TurnsInv, TranscriptsInv, Restart
    PROVE  TranscriptsInv' /\ Alone' /\ Sendable'
<1>1. active' = Open(active.session) /\ turn' = [d \in Driver |-> NoTurn] /\ UNCHANGED <<transcript, serial>>
  BY DEF Restart
<1>2. \A e \in Driver : turn'[e].pc = "idle" /\ turn'[e].prompt = 0
  BY <1>1 DEF NoTurn
<1>3. TranscriptsInv'
  <2>1. serial \in Nat
    BY DEF TurnsInv, AgentTypeOK
  <2> QED
    BY <1>1, <1>2, <2>1, TranscriptsKept
<1>4. \A e \in Driver : ~Running(e)' /\ ~Asking(e)'
  BY <1>2 DEF Running, Asking
<1>5. Answerable(active'.history)
  <2>1. active.session \in Session /\ transcript[active.session] \in Seq(Msg) /\ Ordered(transcript[active.session])
    BY DEF TurnsInv, AgentTypeOK, TranscriptsInv, Written
  <2>2. active'.history = Rebuild(transcript[active.session])
    BY <1>1, <2>1, OpenType
  <2> QED
    BY <2>1, <2>2, RebuiltIsAnswerable
<1> QED
  BY <1>3, <1>4, <1>5 DEF Alone, Sendable

LEMMA WaitsNext ==
    ASSUME TurnsInv, Waits, AgentNext
    PROVE  Waits'
<1>1. serial \in Nat /\ queue \in Seq(Line) /\ \A k \in DOMAIN queue : queue[k].id \in Nat
  <2>1. serial \in Nat /\ queue \in Seq(Line)
    BY DEF TurnsInv, AgentTypeOK
  <2>2. \A k \in DOMAIN queue : queue[k] \in Line
    BY <2>1
  <2> QED
    BY <2>1, <2>2 DEF Line
<1>2. serial' \in Nat /\ serial <= serial'
  <2>1. serial' \in {serial, serial + 1}
    BY <1>1, Counts DEF AgentNext, Submit, Finished, Cancel, Restart, Prompt, Clear, HangUp
  <2> QED
    BY <1>1, <2>1
<1>3. CASE UNCHANGED queue
  BY <1>1, <1>2, <1>3 DEF Waits
<1>4. CASE queue # <<>> /\ queue' = Tail(queue)
  <2>1. \A k \in DOMAIN queue' : k + 1 \in DOMAIN queue /\ queue'[k] = queue[k + 1]
    BY <1>1, <1>4
  <2> QED
    BY <1>1, <1>2, <2>1 DEF Waits
<1>5. CASE queue' = <<>>
  BY <1>5 DEF Waits
<1>6. ASSUME NEW cmd \in {"prompt", "clear", "resume"}, Submit(cmd), ~UNCHANGED queue PROVE Waits'
  <2> DEFINE line == [cmd |-> cmd, id |-> serial + 1]
  <2>1. line \in Line /\ line.id = serial + 1 /\ serial' = serial + 1 /\ queue' = Append(queue, line)
    BY <1>1, <1>6 DEF Line, Submit, Waiting
  <2> HIDE DEF line
  <2>2. \A k \in DOMAIN queue' : (k \in DOMAIN queue /\ queue'[k] = queue[k]) \/ queue'[k] = line
    BY <1>1, <2>1, Appended
  <2> QED
    BY <1>1, <2>1, <2>2 DEF Waits
<1> QED
  BY <1>3, <1>4, <1>5, <1>6, Counts DEF AgentNext, Finished, Cancel, Restart, Prompt, Clear, HangUp

ValidInv == TurnsInv /\ TranscriptsInv /\ Waits /\ Alone /\ Sendable

LEMMA ValidInit == AgentInit => ValidInv
<1> SUFFICES ASSUME AgentInit PROVE ValidInv
  OBVIOUS
<1>1. TurnsInv
  BY AgentInitTyped
<1>2. \A d \in Driver : turn[d].pc = "idle" /\ turn[d].prompt = 0
  BY DEF AgentInit, NoTurn
<1>3. TranscriptsInv
  <2>1. \A s \in Session : transcript[s] = <<>> /\ serial = 0
    BY DEF AgentInit
  <2>2. \A s \in Session : Written(transcript[s], serial)
    BY <2>1 DEF Written, Ordered
  <2> QED
    BY <1>2, <2>1, <2>2 DEF TranscriptsInv, Awaiting, AgentInit
<1>4. Waits
  BY DEF AgentInit, Waits
<1>5. Alone /\ Sendable
  BY <1>2, AnswerableNothing DEF Alone, Sendable, Running, Asking, AgentInit
<1> QED
  BY <1>1, <1>3, <1>4, <1>5 DEF ValidInv

LEMMA ValidNext == ValidInv /\ [AgentNext]_conversation => ValidInv'
<1> SUFFICES ASSUME ValidInv, [AgentNext]_conversation PROVE ValidInv'
  OBVIOUS
<1>1. TurnsInv'
  BY AgentNextTyped DEF ValidInv
<1>2. CASE AgentNext
  <2>1. Waits'
    BY <1>2, WaitsNext DEF ValidInv
  <2>2. TranscriptsInv' /\ Alone' /\ Sendable'
    <3>1. ASSUME NEW d \in Driver, Step(d) \/ Trouble(d) PROVE TranscriptsInv' /\ Alone' /\ Sendable'
      BY <3>1, TranscriptsStep, AloneStep, SendableStep DEF ValidInv
    <3>2. CASE Restart
      BY <3>2, RestartKeeps DEF ValidInv
    <3>3. ASSUME NEW c \in Socket, HangUp(c) PROVE TranscriptsInv' /\ Alone' /\ Sendable'
      BY <3>3, HangUpKeeps DEF ValidInv
    <3>4. CASE Request
      BY <3>4, RequestKeeps DEF ValidInv
    <3> QED
      BY <1>2, <3>1, <3>2, <3>3, <3>4, Asks DEF AgentNext, ValidInv
  <2> QED
    BY <1>1, <2>1, <2>2 DEF ValidInv
<1>3. CASE UNCHANGED conversation
  <2>1. transcript' = transcript /\ active' = active /\ turn' = turn /\ queue' = queue /\ serial' = serial /\ torn' = torn
    BY <1>3 DEF conversation
  <2>2. TranscriptsInv'
    BY <2>1 DEF ValidInv, TranscriptsInv, Written, Ordered, Awaiting, Due
  <2>3. Waits' /\ Alone'
    BY <2>1 DEF ValidInv, Waits, Alone, Running
  <2>4. Sendable'
    BY <2>1 DEF ValidInv, Sendable, Asking
  <2> QED
    BY <1>1, <2>2, <2>3, <2>4 DEF ValidInv
<1> QED
  BY <1>2, <1>3

\* A turn that asks runs, and its calls are not in the history without their
\* results; another's are not while it runs.
LEMMA ValidIsAnswerable == ValidInv => RequestIsValid
<1> SUFFICES ASSUME ValidInv, "broken" \notin torn, NEW d \in Driver, turn[d].pc = "ask"
             PROVE  Answerable(active.history)
  BY DEF RequestIsValid
<1>1. Running(d) /\ ~Asking(d)
  BY DEF Running, Asking
<1>2. \A e \in Driver : ~Asking(e)
  BY <1>1, OnlyOneAsks DEF ValidInv
<1> QED
  BY <1>2 DEF ValidInv, Sendable

\* What a turn asks the model with, the API takes: after every call come its
\* results, whatever became of the turns before.
THEOREM RequestsAreValid == AgentSpec => []RequestIsValid
<1>1. AgentInit => ValidInv
  BY ValidInit
<1>2. ValidInv /\ [AgentNext]_conversation => ValidInv'
  BY ValidNext
<1>3. ValidInv => RequestIsValid
  BY ValidIsAnswerable
<1> QED
  BY <1>1, <1>2, <1>3, PTL DEF AgentSpec

----------------------------------------------------------------------------
(* What the history tells of the transcript.                               *)

\* The history h tells what the lines t do, of which n were there when it was
\* built.
Behind(h, t, n) == n <= Len(t) /\ Spoken(h) = Told(t, n)

\* While a turn runs, the transcript may be ahead by what it is about to
\* remember, and the history has calls to which it lacks the results.
Pace(x, d, h, t, n) ==
    /\ x.pc \in {"ask", "waiting", "refused", "cue"} => Behind(h, t, n)
    /\ x.pc = "remember" => \E u \in Seq(Msg) : t = Append(u, Message("prompt", x.prompt, d)) /\ Behind(h, u, n)
    /\ x.pc \in {"said", "tool", "running"} => \E u \in Seq(Msg) : t = Append(u, x.reply) /\ Behind(h, u, n)
    /\ x.pc = "record" => \E u, g \in Seq(Msg) : t = Append(u, x.reply) /\ h = Append(g, x.reply) /\ Behind(g, u, n)
    /\ x.pc = "results" =>
        \E u, g \in Seq(Msg) : /\ t = Append(Append(u, x.reply), ResultsOf(x.reply))
                               /\ h = Append(g, x.reply) /\ Behind(g, u, n)

Faithful ==
    LET t == transcript[active.session]
    IN  torn = {} => /\ (\A d \in Driver : ~Running(d)) => Behind(active.history, t, active.from)
                     /\ \A d \in Driver : Running(d) => Pace(turn[d], d, active.history, t, active.from)

LEMMA BehindMore ==
    ASSUME NEW h \in Seq(Msg), NEW u \in Seq(Msg), NEW n \in Nat, Behind(h, u, n),
           NEW m \in Msg, m.kind \notin {"calls", "results", "cue"}
    PROVE  Behind(Append(h, m), Append(u, m), n)
<1>1. n \in 0..Len(u) /\ Len(u) \in Nat /\ Len(Append(u, m)) = Len(u) + 1
  BY Appended DEF Behind
<1>2. Told(Append(u, m), n) = Append(Told(u, n), m)
  BY <1>1, ToldMore
<1>3. Spoken(Append(h, m)) = Append(Spoken(h), m)
  BY SpokenMore
<1> QED
  BY <1>1, <1>2, <1>3 DEF Behind

LEMMA BehindCue ==
    ASSUME NEW h \in Seq(Msg), NEW u \in Seq(Msg), NEW n \in Nat, Behind(h, u, n), NEW m \in Msg, m.kind = "cue"
    PROVE  Behind(Append(h, m), u, n)
<1>1. Spoken(Append(h, m)) = Spoken(h)
  BY SpokenMore
<1> QED
  BY <1>1 DEF Behind

LEMMA BehindCalls ==
    ASSUME NEW h \in Seq(Msg), NEW u \in Seq(Msg), NEW n \in Nat, Behind(h, u, n), NEW c \in Msg, c.kind = "calls",
           \A i \in DOMAIN Append(u, c) : Append(u, c)[i] # ResultsOf(c)
    PROVE  Behind(h, Append(u, c), n)
<1>1. /\ n \in 0..Len(u) /\ Len(u) \in Nat /\ Len(Append(u, c)) = Len(u) + 1
      /\ \A i \in 1..Len(u) : i \in DOMAIN Append(u, c) /\ Append(u, c)[i] = u[i]
  BY Appended DEF Behind
<1>2. \A i \in 1..Len(u) : u[i] # ResultsOf(c)
  BY <1>1
<1>3. Told(Append(u, c), n) = Told(u, n)
  BY <1>1, <1>2, ToldCalls
<1> QED
  BY <1>1, <1>3 DEF Behind

LEMMA BehindRound ==
    ASSUME NEW g \in Seq(Msg), NEW u \in Seq(Msg), NEW n \in Nat, Behind(g, u, n), NEW c \in Msg, c.kind = "calls",
           Ordered(Append(Append(u, c), ResultsOf(c)))
    PROVE  Behind(Append(Append(g, c), ResultsOf(c)), Append(Append(u, c), ResultsOf(c)), n)
<1> DEFINE r == ResultsOf(c)
           v == Append(u, c)
           w == Append(v, r)
<1>1. r \in Msg /\ r.kind = "results"
  BY ResultsType
<1>2. /\ v \in Seq(Msg) /\ Len(v) = Len(u) + 1 /\ Len(u) \in Nat /\ v[Len(u) + 1] = c
      /\ \A i \in 1..Len(u) : v[i] = u[i]
  BY Appended
<1> HIDE DEF v, r
<1>3. Len(w) = Len(v) + 1 /\ DOMAIN w = 1..(Len(v) + 1) /\ \A i \in 1..Len(v) : w[i] = v[i]
  BY <1>1, <1>2, Appended
<1>4. Ordered(w)
  BY DEF v, r
<1> HIDE DEF w
<1>5. ASSUME NEW i \in 1..Len(u), u[i] = c PROVE FALSE
  <2>1. i \in DOMAIN w /\ Len(u) + 1 \in DOMAIN w /\ w[i] = c /\ w[Len(u) + 1] = c /\ i # Len(u) + 1
    BY <1>2, <1>3, <1>5
  <2> QED
    BY <1>4, <2>1 DEF Ordered
<1>6. n \in 0..Len(u)
  BY <1>2 DEF Behind
<1>7. Told(Append(Append(u, c), ResultsOf(c)), n) = Append(Append(Told(u, n), c), ResultsOf(c))
  BY <1>5, <1>6, ToldRound
<1>8. Spoken(Append(Append(g, c), r)) = Append(Append(Spoken(g), c), r)
  <2>1. Append(g, c) \in Seq(Msg)
    BY Appended
  <2>2. Spoken(Append(g, c)) = Append(Spoken(g), c)
    BY SpokenMore
  <2> QED
    BY <1>1, <2>1, <2>2, SpokenMore
<1>9. n <= Len(w)
  BY <1>2, <1>3, <1>6
<1> QED
  BY <1>7, <1>8, <1>9 DEF Behind, w, v, r

\* What is rebuilt from a transcript tells what it does.
LEMMA BehindRebuilt ==
    ASSUME TurnsInv, TranscriptsInv, NEW s \in Session
    PROVE  Behind(Open(s).history, transcript[s], Open(s).from)
<1>1. transcript[s] \in Seq(Msg) /\ \A i \in DOMAIN transcript[s] : transcript[s][i].kind # "cue"
  BY DEF TurnsInv, AgentTypeOK, TranscriptsInv, Written, Ordered
<1>2. Len(transcript[s]) \in Nat
  BY <1>1, Members
<1>3. Open(s).from = Len(transcript[s]) /\ Open(s).history = Rebuild(transcript[s])
  BY OpenType
<1>4. Spoken(Rebuild(transcript[s])) = Told(transcript[s], Len(transcript[s]))
  BY <1>1, SpokenRebuilt
<1> QED
  BY <1>2, <1>3, <1>4 DEF Behind

\* A turn that runs alone keeps the pace, and leaves the history with nothing
\* to catch up.
LEMMA PaceStep ==
    ASSUME TurnsInv, TranscriptsInv, NEW d \in Driver, Step(d) \/ Trouble(d), ~RecordFails(d), Running(d),
           turn[d].session = active.session,
           Pace(turn[d], d, active.history, transcript[active.session], active.from)
    PROVE  /\ ~Running(d)' => Behind(active'.history, transcript'[active'.session], active'.from)
           /\ Running(d)' => Pace(turn'[d], d, active'.history, transcript'[active'.session], active'.from)
<1> DEFINE h == active.history
           t == transcript[active.session]
           n == active.from
           c == turn[d].reply
           x == turn'[d]
           hh == active'.history
           tt == transcript'[active'.session]
<1>1. /\ turn[d] \in Turn /\ c \in Msg /\ h \in Seq(Msg) /\ t \in Seq(Msg) /\ n \in Nat /\ Phase(turn[d], d)
      /\ active.session \in Session /\ turn[d].prompt \in Nat /\ Ordered(t)
  BY DEF TurnsInv, AgentTypeOK, Turn, Phases, TranscriptsInv, Written
<1>2. active'.session = active.session /\ active'.from = n
  BY SessionKept
<1>3. Others(d) /\ Course(d)
  BY Courses
<1> SUFFICES /\ ~Running(d)' => Behind(hh, tt, n)
             /\ Running(d)' => Pace(x, d, hh, tt, n)
  BY <1>2
<1>4. Pace(turn[d], d, h, t, n)
  OBVIOUS
<1>5. Over(d) => ~Running(d)'
  BY DEF Over, Running
<1>6. CASE Remember(d)
  <2> DEFINE m == Message("prompt", turn[d].prompt, d)
  <2>1. PICK u \in Seq(Msg) : t = Append(u, m) /\ Behind(h, u, n)
    BY <1>4, <1>6 DEF Pace, Remember
  <2>2. m \in Msg /\ m.kind = "prompt"
    BY <1>1, MessageType
  <2>3. hh = Append(h, m) /\ tt = t /\ x.pc = "ask"
    BY <1>2, <1>6, <2>2, HistoryGrows, AtKeeps DEF Remember
  <2> HIDE DEF m
  <2>4. Behind(Append(h, m), Append(u, m), n)
    BY <1>1, <2>1, <2>2, BehindMore
  <2> QED
    BY <2>1, <2>3, <2>4 DEF Pace, Running
<1>7. CASE Ask(d) \/ Refused(d) \/ ReplyFails(d) \/ ProviderFails(d) \/ (HearCancel(d) /\ turn[d].pc = "waiting")
  <2>1. turn[d].pc \in {"ask", "refused", "waiting"} /\ UNCHANGED <<transcript, active>>
    BY <1>7 DEF Ask, Refused, ReplyFails, ProviderFails, HearCancel
  <2>2. x.pc \in {"waiting", "refused", "idle", "over"}
    <3>1. End(d) \/ At(d, "waiting") \/ At(d, "refused")
      BY <1>7 DEF Ask, Refused, ReplyFails, ProviderFails, HearCancel
    <3> QED
      BY <3>1, EndIsOver, AtKeeps DEF Over
  <2>3. Behind(hh, tt, n)
    BY <1>4, <2>1 DEF Pace
  <2> QED
    BY <2>2, <2>3 DEF Pace
<1>8. CASE Reply(d)
  <2>1. PICK reply \in Msg, stop \in BOOLEAN :
          /\ reply.id = serial + 1 /\ reply.of = d /\ reply.kind \in {"text", "cut", "calls"}
          /\ Recorded(d, reply) /\ Moved(d, Heard(turn[d], reply, stop))
    BY <1>8, ReplyTyped
  <2>2. UNCHANGED active /\ turn[d].pc = "waiting" /\ transcript' = [transcript EXCEPT ![active.session] = Append(@, reply)]
    BY <1>8, <2>1 DEF Recorded, Reply
  <2>3. tt = Append(t, reply) /\ hh = h
    BY <1>1, <2>2, TranscriptGrows
  <2>4. x = Heard(turn[d], reply, stop) /\ turn[d].rounds < MaxRounds
    BY <1>1, <2>1, <2>2 DEF Moved, Phase, TurnsInv, AgentTypeOK
  <2>5. x.pc \in {"said", "tool"} /\ x.reply = reply
    <3>1. turn[d] \in Turn /\ reply.of = d /\ turn[d].rounds < MaxRounds /\ reply.kind \in {"text", "cut", "calls"}
      BY <1>1, <2>1, <2>4
    <3>2. Heard(turn[d], reply, stop).pc \in {"said", "tool"} /\ Heard(turn[d], reply, stop).reply = reply
      BY <3>1, HeardType
    <3> QED
      BY <2>4, <3>2
  <2>6. Behind(h, t, n)
    BY <1>4, <2>2 DEF Pace
  <2> QED
    BY <1>1, <2>3, <2>5, <2>6 DEF Pace, Running
<1>9. CASE Said(d)
  <2>1. PICK u \in Seq(Msg) : t = Append(u, c) /\ Behind(h, u, n)
    BY <1>4, <1>9 DEF Pace, Said
  <2>2. c.kind \in {"text", "cut"}
    BY <1>1, <1>9 DEF Said, Phase
  <2>3. hh = Append(h, c) /\ tt = t
    BY <1>1, <1>2, <1>9, HistoryGrows DEF Said
  <2>4. Behind(Append(h, c), Append(u, c), n)
    BY <1>1, <2>1, <2>2, BehindMore
  <2>5. x.pc \in {"cue", "idle", "over"}
    BY <1>3, <1>9 DEF Course, Over, Begin, Remember, Ask, Reply, Said, Cue, StartTool, FinishTool, Called, Record, Results
  <2> QED
    BY <2>1, <2>3, <2>4, <2>5 DEF Pace
<1>10. CASE Cue(d)
  <2> DEFINE m == Message("cue", c.id, d)
  <2>1. m \in Msg /\ m.kind = "cue"
    BY <1>1, MessageType DEF Msg
  <2>2. hh = Append(h, m) /\ tt = t /\ x.pc = "ask"
    BY <1>1, <1>2, <1>10, <2>1, HistoryGrows DEF Cue, TurnsInv, AgentTypeOK, Turn
  <2>3. Behind(h, t, n)
    BY <1>4, <1>10 DEF Pace, Cue
  <2> HIDE DEF m
  <2>4. Behind(Append(h, m), t, n)
    BY <1>1, <2>1, <2>3, BehindCue
  <2> QED
    BY <2>2, <2>4 DEF Pace, Running
<1>11. CASE StartTool(d) \/ FinishTool(d) \/ (HearCancel(d) /\ turn[d].pc = "running")
  <2>1. turn[d].pc \in {"tool", "running"} /\ UNCHANGED <<transcript, active>>
    BY <1>11 DEF StartTool, FinishTool, HearCancel
  <2>2. PICK u \in Seq(Msg) : t = Append(u, c) /\ Behind(h, u, n)
    BY <1>4, <2>1 DEF Pace
  <2>3. c.kind = "calls" /\ \A i \in DOMAIN t : t[i] # ResultsOf(c)
    BY <1>1, <2>1 DEF Phase, TranscriptsInv, Awaiting, Due
  <2>4. Behind(h, Append(u, c), n)
    BY <1>1, <2>2, <2>3, BehindCalls
  <2>5. x.pc \in {"idle", "over"} \/ (x.pc \in {"tool", "running"} /\ x.reply = c)
    <3>1. CASE Over(d)
      BY <3>1 DEF Over
    <3>2. CASE ~Over(d)
      <4>1. ~Begin(d) /\ ~Remember(d) /\ ~Ask(d) /\ ~Reply(d) /\ ~Said(d) /\ ~Cue(d) /\ ~Record(d) /\ ~Results(d)
        BY <2>1 DEF Begin, Remember, Ask, Reply, Said, Cue, Record, Results
      <4>2. ~Called(d)
        BY <1>11 DEF StartTool, FinishTool, HearCancel, Called
      <4> QED
        BY <1>3, <3>2, <4>1, <4>2 DEF Course, Kept
    <3> QED
      BY <3>1, <3>2
  <2>6. hh = h /\ tt = t
    BY <2>1
  <2> HIDE DEF hh, tt, x, h, t, n, c
  <2>7. CASE x.pc \in {"idle", "over"}
    BY <2>2, <2>4, <2>6, <2>7 DEF Running, Pace
  <2>8. CASE x.pc \in {"tool", "running"} /\ x.reply = c
    BY <2>2, <2>6, <2>8 DEF Running, Pace, x
  <2> QED
    BY <2>5, <2>7, <2>8
<1>12. CASE Called(d)
  <2>1. PICK u \in Seq(Msg) : t = Append(u, c) /\ Behind(h, u, n)
    BY <1>4, <1>12 DEF Pace, Called
  <2>2. hh = Append(h, c) /\ tt = t /\ x.pc = "record" /\ x.reply = c
    BY <1>1, <1>2, <1>12, HistoryGrows, AtKeeps DEF Called, Kept
  <2> QED
    BY <1>1, <2>1, <2>2 DEF Pace, Running
<1>13. CASE Record(d)
  <2>1. PICK u, g \in Seq(Msg) : t = Append(u, c) /\ h = Append(g, c) /\ Behind(g, u, n)
    BY <1>4, <1>13 DEF Pace, Record
  <2>2. ResultsOf(c) \in Msg /\ transcript' = [transcript EXCEPT ![active.session] = Append(@, ResultsOf(c))] /\ hh = h
    BY <1>1, <1>13, ResultsType DEF Record, Recorded
  <2>3. tt = Append(t, ResultsOf(c)) /\ x.pc = "results" /\ x.reply = c
    BY <1>1, <1>2, <1>13, <2>2, TranscriptGrows, AtKeeps DEF Record, Kept
  <2> QED
    BY <2>1, <2>2, <2>3 DEF Pace, Running
<1>14. CASE Results(d)
  <2>1. PICK u, g \in Seq(Msg) : t = Append(Append(u, c), ResultsOf(c)) /\ h = Append(g, c) /\ Behind(g, u, n)
    BY <1>4, <1>14 DEF Pace, Results
  <2>2. c.kind = "calls" /\ ResultsOf(c) \in Msg
    BY <1>1, <1>14, ResultsType DEF Results, Phase
  <2>3. hh = Append(h, ResultsOf(c)) /\ tt = t
    BY <1>1, <1>2, <1>14, <2>2, HistoryGrows DEF Results
  <2>4. Behind(Append(Append(g, c), ResultsOf(c)), Append(Append(u, c), ResultsOf(c)), n)
    BY <1>1, <2>1, <2>2, BehindRound
  <2>5. x.pc \in {"ask", "idle", "over"}
    BY <1>3, <1>14 DEF Course, Over, Begin, Remember, Ask, Reply, Said, Cue, StartTool, FinishTool, Called, Record, Results
  <2> QED
    BY <2>1, <2>3, <2>4, <2>5 DEF Pace
<1>15. HearCancel(d) => turn[d].pc \in {"waiting", "running"}
  BY DEF HearCancel
<1>16. ~Begin(d) /\ ~BeginFails(d)
  BY DEF Begin, BeginFails, Running
<1> QED
  BY <1>6, <1>7, <1>8, <1>9, <1>10, <1>11, <1>12, <1>13, <1>14, <1>15, <1>16 DEF Step, Trouble

LEMMA FaithfulStep ==
    ASSUME TurnsInv, TranscriptsInv, Alone, Faithful, NEW d \in Driver, Step(d) \/ Trouble(d)
    PROVE  Faithful'
<1> DEFINE h == active.history
           t == transcript[active.session]
           n == active.from
           hh == active'.history
           tt == transcript'[active'.session]
           nn == active'.from
<1> SUFFICES ASSUME torn' = {}
             PROVE  /\ (\A e \in Driver : ~Running(e)') => Behind(hh, tt, nn)
                    /\ \A e \in Driver : Running(e)' => Pace(turn'[e], e, hh, tt, nn)
  BY DEF Faithful
<1>1. torn = {} /\ ~RecordFails(d) /\ (Begin(d) => \A e \in Driver \ {d} : ~Running(e))
  BY StepTorn
<1>2. Others(d) /\ Course(d) /\ turn[d] \in Turn
  BY Courses DEF TurnsInv, AgentTypeOK
<1>3. /\ (\A e \in Driver : ~Running(e)) => Behind(h, t, n)
      /\ \A e \in Driver : Running(e) => Pace(turn[e], e, h, t, n)
  BY <1>1 DEF Faithful
<1>4. CASE Running(d)
  <2>1. turn[d].session = active.session /\ \A e \in Driver \ {d} : ~Running(e)
    BY <1>1, <1>4 DEF Alone
  <2>2. \A e \in Driver \ {d} : ~Running(e)'
    BY <1>2, <2>1 DEF Others, Running
  <2>3. Pace(turn[d], d, h, t, n)
    BY <1>3, <1>4
  <2>4. /\ ~Running(d)' => Behind(hh, tt, nn)
        /\ Running(d)' => Pace(turn'[d], d, hh, tt, nn)
    BY <1>1, <1>4, <2>1, <2>3, PaceStep
  <2> QED
    BY <2>2, <2>4
<1>5. CASE Begin(d)
  <2> DEFINE m == Message("prompt", turn[d].prompt, d)
  <2>1. ~Running(d) /\ turn'[d].pc = "remember" /\ turn'[d].prompt = turn[d].prompt
    BY <1>2, <1>5 DEF Begin, Running, TurnsInv, AgentTypeOK, Turn
  <2>2. \A e \in Driver : ~Running(e)
    BY <1>1, <1>5, <2>1
  <2>3. \A e \in Driver \ {d} : ~Running(e)'
    BY <1>2, <2>2 DEF Others, Running
  <2>4. m \in Msg /\ active.session \in Session /\ t \in Seq(Msg)
    BY <1>2, MessageType DEF Turn, TurnsInv, AgentTypeOK
  <2>5. UNCHANGED active /\ transcript' = [transcript EXCEPT ![active.session] = Append(@, m)]
    BY <1>5 DEF Begin
  <2>6. tt = Append(t, m) /\ hh = h /\ nn = n
    BY <2>4, <2>5, TranscriptGrows
  <2>7. Behind(h, t, n)
    BY <1>3, <2>2
  <2>8. Pace(turn'[d], d, hh, tt, nn)
    BY <2>1, <2>4, <2>6, <2>7 DEF Pace
  <2>9. Running(d)'
    BY <2>1 DEF Running
  <2> QED
    BY <2>3, <2>8, <2>9
<1>6. CASE BeginFails(d)
  <2>1. UNCHANGED <<transcript, active>> /\ End(d) /\ ~Running(d)
    BY <1>6 DEF BeginFails, Running
  <2>2. ~Running(d)'
    BY <2>1, EndIsOver DEF Over, Running
  <2>3. \A e \in Driver : (Running(e)' <=> Running(e)) /\ (Running(e) => turn'[e] = turn[e])
    BY <1>2, <2>1, <2>2 DEF Others, Running
  <2> QED
    BY <1>3, <2>1, <2>3
<1>7. Running(d) \/ Begin(d) \/ BeginFails(d)
  BY DEF Step, Trouble, Remember, Ask, Refused, Reply, HearCancel, Said, Cue, StartTool, FinishTool, Called, Record, Results,
         ReplyFails, RecordFails, ProviderFails, Running
<1> QED
  BY <1>4, <1>5, <1>6, <1>7

LEMMA RequestFaithful ==
    ASSUME TurnsInv, TranscriptsInv, Faithful, Request
    PROVE  Faithful'
<1>1. UNCHANGED transcript /\ \A e \in Driver : Same(e) \/ (turn[e].pc \in Aside /\ turn'[e].pc \in Aside)
  BY DEF Request
<1>2. ASSUME NEW e \in Driver
      PROVE  (Running(e)' <=> Running(e)) /\ (Running(e) => Same(e))
  BY <1>1 DEF Same, Aside, Running
<1>3. CASE UNCHANGED <<active, torn>>
  <2>1. ASSUME NEW e \in Driver, Same(e), NEW h, NEW t, NEW n, Pace(turn[e], e, h, t, n)
        PROVE  Pace(turn'[e], e, h, t, n)
    BY <2>1 DEF Pace, Same
  <2> HIDE DEF Running
  <2> QED
    BY <1>1, <1>2, <1>3, <2>1 DEF Faithful
<1>4. ASSUME NEW s \in Session, SwapTo(s) PROVE Faithful'
  <2>1. active' = Open(s) /\ torn' = IF \E e \in Driver : Running(e) THEN {"broken"} ELSE {}
    BY <1>4 DEF SwapTo
  <2> SUFFICES ASSUME torn' = {} PROVE Faithful'
    BY DEF Faithful
  <2>2. \A e \in Driver : ~Running(e)'
    BY <1>2, <2>1
  <2>3. active'.session = s
    BY <2>1, OpenType
  <2>4. Behind(active'.history, transcript'[active'.session], active'.from)
    BY <1>1, <2>1, <2>3, BehindRebuilt
  <2> QED
    BY <2>2, <2>4 DEF Faithful
<1> QED
  BY <1>3, <1>4 DEF Request

LEMMA HangUpFaithful ==
    ASSUME TurnsInv, TranscriptsInv, Alone, Faithful, NEW c \in Socket, HangUp(c)
    PROVE  Faithful'
<1> DEFINE h == active.history
           t == transcript[active.session]
           n == active.from
<1> SUFFICES ASSUME torn' = {} PROVE Faithful'
  BY DEF Faithful
<1>1. /\ c \in Driver /\ Running(c) /\ turn[c].pc \notin {"ask", "record", "remember", "said", "results"}
      /\ End(c) /\ UNCHANGED <<transcript, active>> /\ torn = {}
  BY ReplDrives DEF HangUp
<1>2. Others(c) /\ turn'[c].pc \in {"idle", "over"}
  BY <1>1, EndIsOver DEF Over
<1>3. turn[c].session = active.session /\ \A e \in Driver \ {c} : ~Running(e)
  BY <1>1 DEF Alone
<1>4. \A e \in Driver : ~Running(e)'
  BY <1>2, <1>3 DEF Others, Running
<1>5. Pace(turn[c], c, h, t, n)
  BY <1>1 DEF Faithful
<1>6. turn[c] \in Turn /\ turn[c].reply \in Msg /\ h \in Seq(Msg) /\ n \in Nat /\ Phase(turn[c], c)
  BY <1>1 DEF TurnsInv, AgentTypeOK, Turn, Phases
<1>7. Behind(h, t, n)
  <2>1. CASE turn[c].pc \in {"waiting", "refused", "cue"}
    BY <1>5, <2>1 DEF Pace
  <2>2. CASE turn[c].pc \in {"tool", "running"}
    <3>1. PICK u \in Seq(Msg) : t = Append(u, turn[c].reply) /\ Behind(h, u, n)
      BY <1>5, <2>2 DEF Pace
    <3>2. turn[c].reply.kind = "calls" /\ \A i \in DOMAIN t : t[i] # ResultsOf(turn[c].reply)
      BY <1>1, <1>3, <1>6, <2>2 DEF Phase, TranscriptsInv, Awaiting, Due
    <3> QED
      BY <1>6, <3>1, <3>2, BehindCalls
  <2> QED
    BY <1>1, <1>6, <2>1, <2>2 DEF Turn, Running
<1> QED
  BY <1>1, <1>4, <1>7 DEF Faithful

LEMMA RestartFaithful ==
    ASSUME TurnsInv, TranscriptsInv, Restart
    PROVE  Faithful'
<1>1. active' = Open(active.session) /\ turn' = [d \in Driver |-> NoTurn] /\ UNCHANGED transcript /\ active.session \in Session
  BY DEF Restart, TurnsInv, AgentTypeOK
<1>2. \A e \in Driver : ~Running(e)'
  BY <1>1 DEF NoTurn, Running
<1>3. active'.session = active.session
  BY <1>1, OpenType
<1>4. Behind(active'.history, transcript'[active'.session], active'.from)
  BY <1>1, <1>3, BehindRebuilt
<1> QED
  BY <1>2, <1>4 DEF Faithful

LEMMA FaithfulInit == AgentInit => Faithful
<1> SUFFICES ASSUME AgentInit PROVE Faithful
  OBVIOUS
<1>1. \A d \in Driver : ~Running(d)
  BY DEF AgentInit, NoTurn, Running
<1>2. active.session \in Session
  BY AgentInitTyped DEF TurnsInv, AgentTypeOK
<1>3. active.history = <<>> /\ active.from = 0 /\ transcript[active.session] = <<>>
  BY <1>2 DEF AgentInit
<1>4. Behind(<<>>, <<>>, 0)
  <2>1. <<>> \in Seq(Msg) /\ Len(<<>>) = 0 /\ DOMAIN <<>> = {}
    OBVIOUS
  <2>2. Rebuild(<<>>) = <<>>
    BY <2>1 DEF Rebuild, Orphans
  <2>3. Spoken(Rebuild(<<>>)) = Told(<<>>, Len(<<>>))
    BY <2>1, SpokenRebuilt
  <2> QED
    BY <2>1, <2>2, <2>3 DEF Behind
<1> QED
  BY <1>1, <1>3, <1>4 DEF Faithful

LEMMA FaithfulNext == ValidInv /\ Faithful /\ [AgentNext]_conversation => Faithful'
<1> SUFFICES ASSUME ValidInv, Faithful, [AgentNext]_conversation PROVE Faithful'
  OBVIOUS
<1>1. ASSUME NEW d \in Driver, Step(d) \/ Trouble(d) PROVE Faithful'
  BY <1>1, FaithfulStep DEF ValidInv
<1>2. CASE Restart
  BY <1>2, RestartFaithful DEF ValidInv
<1>3. ASSUME NEW c \in Socket, HangUp(c) PROVE Faithful'
  BY <1>3, HangUpFaithful DEF ValidInv
<1>4. CASE Request
  BY <1>4, RequestFaithful DEF ValidInv
<1>5. CASE UNCHANGED conversation
  BY <1>5 DEF conversation, Faithful, Running
<1> QED
  BY <1>1, <1>2, <1>3, <1>4, <1>5, Asks DEF AgentNext, ValidInv

\* Between turns nothing is in the history and not in the transcript it was
\* built from and has got since, nor the other way, but for cues and calls that
\* were never answered.
THEOREM TranscriptsTellHistories == AgentSpec => []TranscriptTellsHistory
<1>1. AgentInit => ValidInv /\ Faithful
  BY ValidInit, FaithfulInit
<1>2. ValidInv /\ Faithful /\ [AgentNext]_conversation => (ValidInv /\ Faithful)'
  BY ValidNext, FaithfulNext
<1>3. Faithful => TranscriptTellsHistory
  BY DEF Faithful, Behind, TranscriptTellsHistory
<1> QED
  BY <1>1, <1>2, <1>3, PTL DEF AgentSpec

----------------------------------------------------------------------------
(* The order of what is typed.                                             *)

AskedBefore(t, n) == \A i \in DOMAIN t : Asked(t[i]) => t[i].id < n

InOrder(t) == \A i, j \in DOMAIN t : i < j /\ Asked(t[i]) /\ Asked(t[j]) => t[i].id < t[j].id

\* What waits was typed after all that is in a transcript, and after what is
\* about to be.
InLine ==
    /\ turn[Repl].pc = "idle" => queue = <<>>
    /\ \A k \in DOMAIN queue : queue[k].cmd = "prompt" /\ \A s \in Session : AskedBefore(transcript[s], queue[k].id)
    /\ \A j, k \in DOMAIN queue : j < k => queue[j].id < queue[k].id
    /\ turn[Repl].pc = "spawned" =>
        /\ \A s \in Session : AskedBefore(transcript[s], turn[Repl].prompt)
        /\ \A k \in DOMAIN queue : turn[Repl].prompt < queue[k].id
    /\ \A s \in Session : InOrder(transcript[s])

OnlyPrompts == left.lines = {"prompt"} => InLine

LEMMA AskedNext ==
    ASSUME NEW t \in Seq(Msg), NEW m \in Msg, NEW n \in Nat, AskedBefore(t, n), Asked(m) => m.id < n
    PROVE  AskedBefore(Append(t, m), n)
<1>1. /\ Len(t) \in Nat /\ DOMAIN t = 1..Len(t) /\ DOMAIN Append(t, m) = 1..(Len(t) + 1)
      /\ Append(t, m)[Len(t) + 1] = m /\ \A i \in 1..Len(t) : Append(t, m)[i] = t[i]
  BY Appended
<1> DEFINE r == Append(t, m)
<1>2. /\ DOMAIN r = 1..(Len(t) + 1) /\ r[Len(t) + 1] = m /\ \A i \in 1..Len(t) : r[i] = t[i]
  BY <1>1
<1> HIDE DEF r
<1>3. AskedBefore(r, n)
  BY <1>1, <1>2 DEF AskedBefore
<1> QED
  BY <1>3 DEF r

LEMMA InOrderNext ==
    ASSUME NEW t \in Seq(Msg), NEW m \in Msg, InOrder(t), Asked(m) => AskedBefore(t, m.id)
    PROVE  InOrder(Append(t, m))
<1> DEFINE r == Append(t, m)
<1>1. /\ Len(t) \in Nat /\ DOMAIN t = 1..Len(t) /\ DOMAIN r = 1..(Len(t) + 1)
      /\ r[Len(t) + 1] = m /\ \A i \in 1..Len(t) : r[i] = t[i]
  BY Appended
<1> HIDE DEF r
<1>2. ASSUME NEW i \in DOMAIN r, NEW j \in DOMAIN r, i < j, Asked(r[i]), Asked(r[j]) PROVE r[i].id < r[j].id
  <2>1. i \in 1..Len(t)
    BY <1>1, <1>2
  <2>2. CASE j \in 1..Len(t)
    BY <1>1, <1>2, <2>1, <2>2 DEF InOrder
  <2>3. CASE j = Len(t) + 1
    BY <1>1, <1>2, <2>1, <2>3 DEF AskedBefore
  <2> QED
    BY <1>1, <2>2, <2>3
<1>3. InOrder(r)
  BY <1>2 DEF InOrder
<1> QED
  BY <1>3 DEF r

\* A prompt that was typed is written by the terminal's turn, as it begins.
LEMMA Writes ==
    ASSUME TurnsInv, NEW d \in Driver, Step(d) \/ Trouble(d)
    PROVE  \/ UNCHANGED transcript
           \/ \E s \in Session, m \in Msg :
                /\ transcript' = [transcript EXCEPT ![s] = Append(@, m)]
                /\ Asked(m) => d = Repl /\ turn[Repl].pc = "spawned" /\ m.id = turn[Repl].prompt
<1>1. turn[d] \in Turn /\ turn[d].prompt \in Nat /\ turn[d].reply \in Msg /\ turn[d].session \in Session /\ active.session \in Session
  BY DEF TurnsInv, AgentTypeOK, Turn
<1>2. CASE Begin(d)
  <2> DEFINE m == Message("prompt", turn[d].prompt, d)
  <2>1. m \in Msg /\ m.id = turn[d].prompt /\ m.of = d
    BY <1>1, MessageType
  <2>2. transcript' = [transcript EXCEPT ![active.session] = Append(@, m)] /\ turn[d].pc = "spawned"
    BY <1>2 DEF Begin
  <2> HIDE DEF m
  <2>3. Asked(m) => d = Repl
    BY <2>1 DEF Asked
  <2> QED
    BY <1>1, <2>1, <2>2, <2>3
<1>3. CASE Record(d)
  <2>1. ResultsOf(turn[d].reply) \in Msg /\ ~Asked(ResultsOf(turn[d].reply))
    BY <1>1, ResultsType DEF Asked
  <2> QED
    BY <1>1, <1>3, <2>1 DEF Record, Recorded
<1>4. CASE Reply(d)
  <2>1. PICK reply \in Msg, stop \in BOOLEAN :
          reply.kind \in {"text", "cut", "calls"} /\ Recorded(d, reply) /\ Moved(d, Heard(turn[d], reply, stop))
    BY <1>4, ReplyTyped
  <2>2. ~Asked(reply)
    BY <2>1 DEF Asked
  <2> QED
    BY <1>1, <2>1, <2>2 DEF Recorded
<1> QED
  BY <1>2, <1>3, <1>4 DEF Step, Trouble, BeginFails, Remember, Ask, Refused, HearCancel, Said, Cue, StartTool, FinishTool,
         Called, Results, ReplyFails, RecordFails, ProviderFails

\* What may happen in a behaviour is settled, but for how often.
LEMMA LinesKept ==
    ASSUME TurnsInv, AgentNext
    PROVE  left'.lines = left.lines
<1>1. \/ left' = left
      \/ \E o \in {"typed", "prompts", "clears", "hangups", "cancels", "errors", "faults", "restarts"} : Spend(o)
  BY DEF AgentNext, Submit, Finished, Cancel, Restart, Prompt, Clear, HangUp, Step, Trouble, Begin, BeginFails, Remember, Ask,
         Refused, Reply, HearCancel, Said, Cue, StartTool, FinishTool, Called, Record, Results, ReplyFails, RecordFails, ProviderFails
<1> QED
  BY <1>1, Spent

\* As in `InLine`, of what waits and of the turn, when transcripts are as they were.
LEMMA InLineStill ==
    ASSUME InLine, UNCHANGED <<transcript, queue>>,
           turn'[Repl].pc \in {"idle", "spawned"} => turn'[Repl].pc = turn[Repl].pc /\ turn'[Repl].prompt = turn[Repl].prompt
    PROVE  InLine'
<1>1. turn'[Repl].pc = "idle" => queue' = <<>>
  BY DEF InLine
<1>2. turn'[Repl].pc = "spawned" =>
        /\ \A s \in Session : AskedBefore(transcript'[s], turn'[Repl].prompt)
        /\ \A k \in DOMAIN queue' : turn'[Repl].prompt < queue'[k].id
  BY DEF InLine
<1> QED
  BY <1>1, <1>2 DEF InLine, AskedBefore, InOrder

LEMMA LinesType ==
    ASSUME TurnsInv
    PROVE  /\ Len(queue) \in Nat /\ DOMAIN queue = 1..Len(queue)
           /\ \A k \in DOMAIN queue : queue[k] \in Line /\ queue[k].id \in Nat
<1>1. queue \in Seq(Line)
  BY DEF TurnsInv, AgentTypeOK
<1>2. Len(queue) \in Nat /\ DOMAIN queue = 1..Len(queue) /\ \A k \in DOMAIN queue : queue[k] \in Line
  BY <1>1
<1> QED
  BY <1>2 DEF Line

LEMMA InLineStep ==
    ASSUME TurnsInv, InLine, NEW d \in Driver, Step(d) \/ Trouble(d)
    PROVE  InLine'
<1>1. Others(d) /\ Course(d) /\ UNCHANGED queue /\ Repl \in Driver /\ turn[Repl].prompt \in Nat
  BY Courses, Counts, ReplDrives DEF TurnsInv, AgentTypeOK, Turn
<1>2. turn'[Repl].pc \in {"idle", "spawned"} =>
        turn'[Repl].pc = turn[Repl].pc /\ turn'[Repl].prompt = turn[Repl].prompt /\ d # Repl
  BY <1>1 DEF Others, Course, Over
<1>3. CASE UNCHANGED transcript
  BY <1>1, <1>2, <1>3, InLineStill
<1>4. ASSUME NEW s \in Session, NEW m \in Msg, transcript' = [transcript EXCEPT ![s] = Append(@, m)],
             Asked(m) => d = Repl /\ turn[Repl].pc = "spawned" /\ m.id = turn[Repl].prompt
      PROVE  InLine'
  <2>1. \A r \in Session : transcript[r] \in Seq(Msg) /\ transcript'[r] = IF r = s THEN Append(transcript[r], m) ELSE transcript[r]
    BY <1>4 DEF TurnsInv, AgentTypeOK
  <2>2. ASSUME NEW n \in Nat, Asked(m) => m.id < n, \A r \in Session : AskedBefore(transcript[r], n)
        PROVE  \A r \in Session : AskedBefore(transcript'[r], n)
    BY <2>1, <2>2, AskedNext
  <2>3. turn'[Repl].pc = "idle" => queue' = <<>>
    BY <1>1, <1>2 DEF InLine
  <2>4. ASSUME NEW k \in DOMAIN queue
        PROVE  queue[k].cmd = "prompt" /\ \A r \in Session : AskedBefore(transcript'[r], queue[k].id)
    <3>1. queue[k].id \in Nat
      BY LinesType
    <3>2. Asked(m) => m.id < queue[k].id
      BY <1>4 DEF InLine
    <3> QED
      BY <2>2, <3>1, <3>2 DEF InLine
  <2>5. turn'[Repl].pc = "spawned" =>
          /\ \A r \in Session : AskedBefore(transcript'[r], turn'[Repl].prompt)
          /\ \A k \in DOMAIN queue : turn'[Repl].prompt < queue[k].id
    BY <1>1, <1>2, <1>4, <2>2 DEF InLine
  <2>6. \A r \in Session : InOrder(transcript'[r])
    BY <1>4, <2>1, InOrderNext DEF InLine
  <2>7. \A j, k \in DOMAIN queue : j < k => queue[j].id < queue[k].id
    BY DEF InLine
  <2>8. queue' = queue
    BY <1>1
  <2> QED
    BY <2>3, <2>4, <2>5, <2>6, <2>7, <2>8 DEF InLine
<1> QED
  BY <1>3, <1>4, Writes

LEMMA AllBefore ==
    ASSUME TurnsInv, TranscriptsInv
    PROVE  \A s \in Session : AskedBefore(transcript[s], serial + 1)
<1> SUFFICES ASSUME NEW s \in Session PROVE AskedBefore(transcript[s], serial + 1)
  OBVIOUS
<1>1. transcript[s] \in Seq(Msg) /\ serial \in Nat /\ \A i \in DOMAIN transcript[s] : transcript[s][i].id <= serial
  BY DEF TurnsInv, AgentTypeOK, TranscriptsInv, Written
<1>2. \A i \in DOMAIN transcript[s] : transcript[s][i].id \in Nat
  BY <1>1, Identified
<1> QED
  BY <1>1, <1>2 DEF AskedBefore

LEMMA InLineSubmit ==
    ASSUME TurnsInv, TranscriptsInv, Waits, InLine, left.lines = {"prompt"}, NEW cmd, Submit(cmd)
    PROVE  InLine'
<1> DEFINE line == [cmd |-> cmd, id |-> serial + 1]
<1>1. /\ cmd = "prompt" /\ line \in Line /\ line.id = serial + 1 /\ line.cmd = "prompt" /\ UNCHANGED transcript
      /\ serial \in Nat /\ queue \in Seq(Line)
      /\ \/ ~InFlight /\ RunLine(line) /\ UNCHANGED queue
         \/ InFlight /\ queue' = Waiting(line) /\ UNCHANGED turn
  BY DEF Submit, Line, TurnsInv, AgentTypeOK
<1> HIDE DEF line
<1>2. \A s \in Session : AskedBefore(transcript[s], serial + 1)
  BY AllBefore
<1>3. CASE ~InFlight /\ RunLine(line) /\ UNCHANGED queue
  <2>1. queue' = <<>>
    BY <1>3 DEF InFlight, InLine
  <2>2. Spawned(Repl, serial + 1)
    BY <1>1, <1>3 DEF RunLine
  <2>3. turn'[Repl].pc = "spawned" /\ turn'[Repl].prompt = serial + 1
    BY <1>1, <2>2, ReplDrives, SpawnedAside
  <2>4. DOMAIN queue' = {}
    BY <2>1
  <2>5. transcript' = transcript /\ \A s \in Session : InOrder(transcript[s])
    BY <1>1 DEF InLine
  <2> QED
    BY <1>2, <2>3, <2>4, <2>5 DEF InLine
<1>4. CASE InFlight /\ queue' = Append(queue, line) /\ UNCHANGED turn
  <2>1. /\ Len(queue) \in Nat /\ DOMAIN queue = 1..Len(queue) /\ DOMAIN queue' = 1..(Len(queue) + 1)
        /\ queue'[Len(queue) + 1] = line /\ \A k \in 1..Len(queue) : queue'[k] = queue[k]
    BY <1>1, <1>4, Appended
  <2>2. \A k \in DOMAIN queue : queue[k].id \in Nat /\ queue[k].id < serial + 1
    BY <1>1, LinesType DEF Waits
  <2>3. turn[Repl].prompt \in Nat /\ turn[Repl].prompt < serial + 1
    BY <1>1, ReplDrives DEF TurnsInv, AgentTypeOK, Turn, TranscriptsInv
  <2>4. ASSUME NEW k \in DOMAIN queue'
        PROVE  queue'[k].cmd = "prompt" /\ \A s \in Session : AskedBefore(transcript[s], queue'[k].id)
    <3>1. CASE k = Len(queue) + 1
      BY <1>1, <1>2, <2>1, <3>1
    <3>2. CASE k \in 1..Len(queue)
      BY <2>1, <3>2 DEF InLine
    <3> QED
      BY <2>1, <3>1, <3>2
  <2>5. ASSUME NEW j \in DOMAIN queue', NEW k \in DOMAIN queue', j < k PROVE queue'[j].id < queue'[k].id
    <3>1. j \in 1..Len(queue)
      BY <2>1, <2>5
    <3>2. CASE k = Len(queue) + 1
      BY <1>1, <2>1, <2>2, <3>1, <3>2
    <3>3. CASE k \in 1..Len(queue)
      BY <2>1, <2>5, <3>1, <3>3 DEF InLine
    <3> QED
      BY <2>1, <3>2, <3>3
  <2>6. turn'[Repl].pc = "spawned" => \A k \in DOMAIN queue' : turn'[Repl].prompt < queue'[k].id
    <3> SUFFICES ASSUME turn'[Repl].pc = "spawned", NEW k \in DOMAIN queue' PROVE turn'[Repl].prompt < queue'[k].id
      OBVIOUS
    <3>1. CASE k = Len(queue) + 1
      BY <1>1, <1>4, <2>1, <2>3, <3>1
    <3>2. CASE k \in 1..Len(queue)
      BY <1>4, <2>1, <3>2 DEF InLine
    <3> QED
      BY <2>1, <3>1, <3>2
  <2>7. turn' = turn /\ transcript' = transcript /\ turn[Repl].pc # "idle"
    BY <1>1, <1>4 DEF InFlight
  <2>8. /\ turn[Repl].pc = "spawned" => \A s \in Session : AskedBefore(transcript[s], turn[Repl].prompt)
        /\ \A s \in Session : InOrder(transcript[s])
    BY DEF InLine
  <2> QED
    BY <2>4, <2>5, <2>6, <2>7, <2>8 DEF InLine
<1>5. CASE UNCHANGED <<queue, turn>>
  BY <1>1, <1>5, InLineStill
<1> QED
  BY <1>1, <1>3, <1>4, <1>5 DEF Waiting

LEMMA InLineFinished ==
    ASSUME TurnsInv, InLine, Finished
    PROVE  InLine'
<1>1. UNCHANGED transcript /\ queue \in Seq(Line) /\ turn \in [Driver -> Turn] /\ Repl \in Driver
  BY ReplDrives DEF Finished, TurnsInv, AgentTypeOK
<1>2. CASE queue = <<>>
  <2>1. queue' = queue /\ turn'[Repl].pc = "idle"
    BY <1>1, <1>2, AtKeeps DEF Finished
  <2>2. DOMAIN queue = {}
    BY <1>2
  <2> QED
    BY <1>1, <1>2, <2>1, <2>2 DEF InLine
<1>3. CASE queue # <<>>
  <2>1. RunLine(Head(queue)) /\ queue' = Tail(queue)
    BY <1>3 DEF Finished
  <2>2. /\ Len(queue) \in Nat \ {0} /\ DOMAIN queue = 1..Len(queue) /\ Head(queue) = queue[1] /\ 1 \in DOMAIN queue
        /\ DOMAIN queue' = 1..(Len(queue) - 1) /\ \A k \in DOMAIN queue' : k + 1 \in DOMAIN queue /\ queue'[k] = queue[k + 1]
    BY <1>1, <1>3, <2>1
  <2>3. Spawned(Repl, queue[1].id) /\ queue[1].id \in Nat
    BY <2>1, <2>2, LinesType DEF RunLine, InLine
  <2>4. turn'[Repl].pc = "spawned" /\ turn'[Repl].prompt = queue[1].id
    BY <1>1, <2>3, SpawnedAside
  <2>5. \A s \in Session : AskedBefore(transcript[s], queue[1].id)
    BY <2>2 DEF InLine
  <2>6. ASSUME NEW k \in DOMAIN queue'
        PROVE  /\ queue'[k].cmd = "prompt" /\ \A s \in Session : AskedBefore(transcript[s], queue'[k].id)
               /\ queue[1].id < queue'[k].id
    <3>1. k + 1 \in DOMAIN queue /\ queue'[k] = queue[k + 1] /\ 1 < k + 1
      BY <2>2
    <3> QED
      BY <2>2, <3>1 DEF InLine
  <2>7. ASSUME NEW j \in DOMAIN queue', NEW k \in DOMAIN queue', j < k PROVE queue'[j].id < queue'[k].id
    <3>1. j + 1 \in DOMAIN queue /\ k + 1 \in DOMAIN queue /\ j + 1 < k + 1
          /\ queue'[j] = queue[j + 1] /\ queue'[k] = queue[k + 1]
      BY <2>2, <2>7
    <3> QED
      BY <3>1 DEF InLine
  <2>8. transcript' = transcript /\ \A s \in Session : InOrder(transcript[s])
    BY <1>1 DEF InLine
  <2> QED
    BY <2>4, <2>5, <2>6, <2>7, <2>8 DEF InLine
<1> QED
  BY <1>2, <1>3

LEMMA InLineElse ==
    ASSUME TurnsInv, InLine, Cancel \/ Restart \/ \E c \in Socket : Prompt(c) \/ Clear(c) \/ HangUp(c)
    PROVE  InLine'
<1>1. UNCHANGED transcript /\ turn \in [Driver -> Turn] /\ Repl \in Driver /\ serial \in Nat
  BY ReplDrives DEF Cancel, Restart, Prompt, Clear, HangUp, TurnsInv, AgentTypeOK
<1>2. CASE Cancel
  <2>1. turn'[Repl].pc = turn[Repl].pc /\ turn'[Repl].prompt = turn[Repl].prompt
    BY <1>1, <1>2 DEF Cancel, Turn
  <2> QED
    BY <1>1, <1>2, <2>1, InLineStill DEF Cancel
<1>3. CASE Restart
  <2>1. queue' = <<>> /\ turn'[Repl].pc = "idle"
    BY <1>1, <1>3 DEF Restart, NoTurn
  <2>2. DOMAIN queue' = {}
    BY <2>1
  <2>3. transcript' = transcript /\ \A s \in Session : InOrder(transcript[s])
    BY <1>1 DEF InLine
  <2> QED
    BY <2>1, <2>2, <2>3 DEF InLine
<1>4. ASSUME NEW c \in Socket, Prompt(c) \/ Clear(c) \/ HangUp(c) PROVE InLine'
  <2>1. c \in Driver /\ c # Repl /\ UNCHANGED queue
    BY <1>4, ReplDrives, AgentAssumption DEF Prompt, Clear, HangUp
  <2>2. turn'[Repl] = turn[Repl]
    BY <1>1, <1>4, <2>1 DEF Prompt, Clear, HangUp, Spawned, End
  <2> QED
    BY <1>1, <2>1, <2>2, InLineStill
<1> QED
  BY <1>2, <1>3, <1>4

LEMMA OnlyPromptsNext == ValidInv /\ OnlyPrompts /\ [AgentNext]_conversation => OnlyPrompts'
<1> SUFFICES ASSUME ValidInv, OnlyPrompts, [AgentNext]_conversation PROVE OnlyPrompts'
  OBVIOUS
<1>1. CASE AgentNext
  <2> SUFFICES ASSUME left'.lines = {"prompt"} PROVE InLine'
    BY DEF OnlyPrompts
  <2>1. TurnsInv /\ TranscriptsInv /\ Waits /\ left.lines = {"prompt"} /\ InLine
    BY <1>1, LinesKept DEF ValidInv, OnlyPrompts
  <2> QED
    BY <1>1, <2>1, InLineStep, InLineSubmit, InLineFinished, InLineElse DEF AgentNext
<1>2. CASE UNCHANGED conversation
  BY <1>2 DEF conversation, OnlyPrompts, InLine, AskedBefore, InOrder
<1> QED
  BY <1>1, <1>2

LEMMA OnlyPromptsInit == AgentInit => OnlyPrompts
<1> SUFFICES ASSUME AgentInit PROVE InLine
  BY DEF OnlyPrompts
<1>1. queue = <<>> /\ DOMAIN queue = {} /\ turn[Repl].pc = "idle" /\ \A s \in Session : DOMAIN transcript[s] = {}
  BY ReplDrives DEF AgentInit, NoTurn
<1> QED
  BY <1>1 DEF InLine, AskedBefore, InOrder

\* The transcripts have what is typed in the order it was, while only prompts
\* are: a line that waits is never overtaken by a later one.
THEOREM PromptsStayInOrder == AgentSpec => []PromptsInOrder
<1>1. AgentInit => ValidInv /\ OnlyPrompts
  BY ValidInit, OnlyPromptsInit
<1>2. ValidInv /\ OnlyPrompts /\ [AgentNext]_conversation => (ValidInv /\ OnlyPrompts)'
  BY ValidNext, OnlyPromptsNext
<1>3. OnlyPrompts => PromptsInOrder
  BY DEF OnlyPrompts, InLine, InOrder, PromptsInOrder
<1> QED
  BY <1>1, <1>2, <1>3, PTL DEF AgentSpec
=============================================================================

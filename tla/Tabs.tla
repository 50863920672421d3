--------------------------------- MODULE Tabs ---------------------------------
(***************************************************************************)
(* The tabs of one headless daemon: the owner loop of src/src/headless.rs  *)
(* (drain_pending, refresh_snapshot, persist), the handlers of src/src/api *)
(* and src/src/api_ws.rs that queue work for it, and the StateWriter of    *)
(* src/src/lib.rs.                                                         *)
(*                                                                         *)
(* The loop owns the tabs.  The handlers know a snapshot of them, under a  *)
(* mutex, and leave requests in queues beside it; they name tabs by uuid.  *)
(* The loop takes all queues at once under the mutex, works through them   *)
(* without it, and later puts up a new snapshot: requests come in between. *)
(***************************************************************************)
EXTENDS Naturals, SequencesExt, FiniteSets

CONSTANTS
    Creator,    \* clients that create tabs and wait for the uuid
    NoReply,    \* a creation whose client does not wait
    None,       \* no tab asked to be activated; no state saved yet
    MayStop,    \* whether the daemon may be stopped or killed
    Lockable,   \* bound: tabs whose lock is used
    MaxTabs,    \* bound: tabs ever created; uuids are 1..MaxTabs
    MaxQueue,   \* bound: requests queued and not yet applied
    MaxJobs     \* bound: writes queued

ASSUME CreatorAssumption == NoReply \notin Creator /\ MayStop \in BOOLEAN
ASSUME BoundAssumption ==
    /\ MaxTabs \in Nat \ {0} /\ MaxQueue \in Nat /\ MaxJobs \in Nat
    /\ Lockable \subseteq 1..MaxTabs

VARIABLES
    tabs,       \* the loop's tabs, in order
    active,     \* position of the active one
    born,       \* uuids given out so far
    snap,       \* TabSnapshot.tabs
    pending,    \* its queues
    taken,      \* what drain_pending took out of them and works through
    waiting,    \* creators parked on their reply
    owner,      \* where the loop stands
    disk,       \* tabs.json
    jobs,       \* writes queued for the state-writer thread
    sent,       \* the state submitted last (last_state_hash)
    said,       \* history: the lock last answered, per tab
    heard,      \* history: said as it was when the queues were taken
    last        \* history: whom the last drain closed and typed into

owned == <<tabs, active, born>>
files == <<disk, jobs, sent>>
history == <<said, heard, last>>
vars == <<owned, snap, pending, taken, waiting, owner, files, history>>

NoWork == [closes |-> {}, activate |-> None, input |-> <<>>, locks |-> <<>>, news |-> <<>>]
NoLocks == [n \in 1..MaxTabs |-> FALSE]
NoEffect == [typed |-> {}, closed |-> {}]

\* What persist writes: the tabs with their locks, and which is active.
State == [tabs |-> tabs, active |-> active]

Fresh(n) == [id |-> n, locked |-> FALSE]

\* A daemon that has found one tab in its file, or none.
Init ==
    /\ tabs = <<Fresh(1)>> /\ active = 1 /\ born = 1
    /\ snap = tabs
    /\ pending = NoWork /\ taken = NoWork /\ waiting = {}
    /\ owner = "drain"
    /\ disk \in {State, None} /\ jobs = <<>> /\ sent = None
    /\ said = NoLocks /\ heard = NoLocks
    /\ last = NoEffect

----------------------------------------------------------------------------
(* The handlers: each is one critical section of the snapshot's mutex.     *)

\* resolve_tab_idx: where the snapshot has the tab.
At(n) == CHOOSE i \in DOMAIN snap : snap[i].id = n
Listed(n) == \E i \in DOMAIN snap : snap[i].id = n

Load(work) == Cardinality(work.closes) + Len(work.input) + Len(work.locks) + Len(work.news)
              + IF work.activate = None THEN 0 ELSE 1

Queue(work) ==
    /\ Load(pending) + Load(taken) < MaxQueue
    /\ pending' = work
    /\ UNCHANGED <<owned, taken, owner, files, heard, last>>

\* A request is a position and, as history, the uuid that it was asked for.
Place(n) == [at |-> At(n), asked |-> n]

AskClose(n) ==
    /\ Listed(n)
    /\ Queue([pending EXCEPT !.closes = @ \cup {Place(n)}])
    /\ UNCHANGED <<snap, waiting, said>>

AskActivate(n) ==
    /\ Listed(n)
    /\ Queue([pending EXCEPT !.activate = At(n)])
    /\ UNCHANGED <<snap, waiting, said>>

\* Refused if the snapshot says that the tab is locked.
AskInput(n) ==
    /\ Listed(n) /\ ~snap[At(n)].locked
    /\ Queue([pending EXCEPT !.input = Append(@, Place(n))])
    /\ UNCHANGED <<snap, waiting, said>>

\* Set or, with no body, flipped as the snapshot has it: either may result.
AskLock(n, on) ==
    /\ Listed(n) /\ n \in Lockable
    /\ Queue([pending EXCEPT !.locks = Append(@, [id |-> n, on |-> on])])
    /\ snap' = [snap EXCEPT ![At(n)].locked = on]
    /\ said' = [said EXCEPT ![n] = on]
    /\ UNCHANGED waiting

\* The reply of a sync creation is sent by the drain; the client waits.
AskNew(c) ==
    /\ born + Len(taken.news) + Len(pending.news) < MaxTabs /\ c \notin waiting
    /\ Queue([pending EXCEPT !.news = Append(@, c)])
    /\ waiting' = waiting \cup ({c} \cap Creator)
    /\ UNCHANGED <<snap, said>>

Ask ==
    \/ \E n \in 1..MaxTabs : \/ AskClose(n) \/ AskActivate(n) \/ AskInput(n)
                             \/ \E on \in BOOLEAN : AskLock(n, on)
    \/ \E c \in Creator \cup {NoReply} : AskNew(c)

----------------------------------------------------------------------------
(* drain_pending: it takes the queues under the mutex, and works through  *)
(* them without it.  That touches neither the snapshot nor the queues, so  *)
(* its parts, in this order, are one step; handlers come before it.        *)

\* Variants ending in _x are bugs this code could have; nothing uses them.

\* heard is history: the locks that had been answered by now.
Take ==
    /\ owner = "drain"
    /\ taken' = pending /\ pending' = NoWork
    /\ heard' = said
    /\ owner' = "apply"
    /\ UNCHANGED <<owned, snap, waiting, files, said, last>>

\* Where a queue changes the lock of a tab.
ChangesOf(work, n) == {k \in DOMAIN work.locks : work.locks[k].id = n}

\* Only the first change of a tab's lock is applied.
Locked_x(ts) ==
    [i \in DOMAIN ts |->
        LET mine == ChangesOf(taken, ts[i].id)
        IN  IF mine = {} THEN ts[i] ELSE [ts[i] EXCEPT !.locked = taken.locks[Min(mine)].on]]

\* Lock changes, in the order in which they were answered: the last remains.
Locked(ts) ==
    [i \in DOMAIN ts |->
        LET mine == ChangesOf(taken, ts[i].id)
        IN  IF mine = {} THEN ts[i] ELSE [ts[i] EXCEPT !.locked = taken.locks[Max(mine)].on]]

\* One close.  The last tab stays.
CloseAt(s, i) ==
    IF i <= Len(s.tabs) /\ Len(s.tabs) > 1
    THEN LET rest == RemoveAt(s.tabs, i)
         IN  [tabs   |-> rest,
              active |-> IF s.active > Len(rest) THEN Len(rest)
                         ELSE IF s.active > i THEN s.active - 1 ELSE s.active]
    ELSE s

\* Highest position first, each once: after[k] has been through the last k.
Closed(s) ==
    LET n == Len(s.tabs)
        after[k \in 0..n] ==
            IF k = 0 THEN s
            ELSE LET i == n + 1 - k
                 IN  IF \E c \in taken.closes : c.at = i THEN CloseAt(after[k - 1], i) ELSE after[k - 1]
    IN  after[n]

Activated(s) ==
    IF taken.activate # None /\ taken.activate <= Len(s.tabs)
    THEN [s EXCEPT !.active = taken.activate] ELSE s

\* send_input_bytes does not look at the lock.
Typed_x(ts) ==
    {[to |-> ts[r.at].id, asked |-> r.asked] :
        r \in {q \in ToSet(taken.input) : q.at <= Len(ts)}}

\* send_input_bytes drops what comes for a locked tab.
Typed(ts) ==
    {[to |-> ts[r.at].id, asked |-> r.asked] :
        r \in {q \in ToSet(taken.input) : q.at <= Len(ts) /\ ~ts[q.at].locked}}

\* The first n get a uuid for a reply, the others that spawning failed.
Answered(n) == ToSet(taken.news)

\* n of the tabs asked for could be spawned.
Apply ==
    LET s == Activated(Closed([tabs |-> Locked(tabs), active |-> active]))
    IN  /\ owner = "apply"
        /\ \E n \in 0..Len(taken.news) :
            /\ tabs' = s.tabs \o [i \in 1..n |-> Fresh(born + i)]
            /\ born' = born + n
            /\ waiting' = waiting \ Answered(n)
        /\ active' = s.active
        /\ last' = [typed  |-> Typed(s.tabs),
                    closed |-> {[to |-> tabs[c.at].id, asked |-> c.asked] :
                                c \in {d \in taken.closes :
                                        /\ d.at \in DOMAIN tabs
                                        /\ \A i \in DOMAIN s.tabs : s.tabs[i].id # tabs[d.at].id}}]
        /\ taken' = NoWork /\ heard' = NoLocks
        /\ owner' = "refresh"
        /\ UNCHANGED <<snap, pending, files, said>>

----------------------------------------------------------------------------
(* The rest of the loop, the writer, and restarts.                         *)

\* Less often than draining; new work may have been queued since.
Refresh ==
    /\ owner = "refresh"
    /\ snap' = tabs
    /\ owner' = "persist"
    /\ last' = NoEffect
    /\ UNCHANGED <<owned, pending, taken, waiting, files, said, heard>>

\* A state that was submitted already is not submitted again.
Persist ==
    /\ owner = "persist" /\ Len(jobs) < MaxJobs
    /\ jobs' = IF State # sent THEN Append(jobs, State) ELSE jobs
    /\ sent' = State
    /\ owner' = "drain"
    /\ last' = NoEffect
    /\ UNCHANGED <<owned, snap, pending, taken, waiting, disk, said, heard>>

\* Neither is due in every round; without consumers there is no refresh.
NotDue ==
    /\ \/ owner = "refresh" /\ owner' \in {"persist", "drain"}
       \/ owner = "persist" /\ owner' = "drain"
    /\ last' = NoEffect
    /\ UNCHANGED <<owned, snap, pending, taken, waiting, files, said, heard>>

\* The state-writer thread: an atomic write at a time, in their order.
Write ==
    /\ jobs # <<>>
    /\ disk' = Head(jobs)
    /\ jobs' = Tail(jobs)
    /\ UNCHANGED <<owned, snap, pending, taken, waiting, owner, sent, history>>

\* The final state is written at once, ahead of the writes in the queue.
Stop_x ==
    /\ MayStop /\ owner = "drain"
    /\ disk' = State /\ sent' = State /\ owner' = "stopped"
    /\ UNCHANGED <<owned, snap, pending, taken, waiting, jobs, history>>

\* SIGTERM: queued writes land first, then the final state does.  What is
\* pending is not drained; handlers still answer until the process is gone.
Stop ==
    /\ MayStop /\ owner = "drain"
    /\ disk' = State /\ sent' = State /\ jobs' = <<>> /\ owner' = "stopped"
    /\ UNCHANGED <<owned, snap, pending, taken, waiting, history>>

\* A new daemon: what its file has, or else one fresh tab.
Boot ==
    /\ LET saved == IF disk = None THEN [tabs |-> <<Fresh(born + 1)>>, active |-> 1] ELSE disk
       IN  /\ disk = None => born < MaxTabs
           /\ tabs' = saved.tabs /\ active' = saved.active
           /\ born' = IF disk = None THEN born + 1 ELSE born
           /\ snap' = saved.tabs
           /\ said' = [n \in 1..MaxTabs |-> \E i \in DOMAIN saved.tabs :
                            saved.tabs[i].id = n /\ saved.tabs[i].locked]
    /\ pending' = NoWork /\ taken' = NoWork /\ waiting' = {}
    /\ heard' = NoLocks /\ last' = NoEffect
    /\ jobs' = <<>> /\ sent' = None
    /\ owner' = "drain"
    /\ UNCHANGED disk

Restart == owner = "stopped" /\ Boot
\* A crash, at any moment: queued writes are lost.
Crash == MayStop /\ owner # "stopped" /\ Boot

Loop == Take \/ Apply \/ Refresh \/ Persist \/ NotDue
Next == Ask \/ Loop \/ Write \/ Stop \/ Restart \/ Crash

Spec == Init /\ [][Next]_vars

----------------------------------------------------------------------------

Tab == [id : 1..MaxTabs, locked : BOOLEAN]
Saved == [tabs : Seq(Tab), active : 1..MaxTabs]
Request == [at : 1..MaxTabs, asked : 1..MaxTabs]
Work == [closes : SUBSET Request, activate : 1..MaxTabs \cup {None}, input : Seq(Request),
         locks : Seq([id : 1..MaxTabs, on : BOOLEAN]), news : Seq(Creator \cup {NoReply})]

\* There is always a tab, one of them is active, and no uuid appears twice.
TypeOK ==
    /\ tabs \in Seq(Tab) /\ snap \in Seq(Tab) /\ active \in DOMAIN tabs
    /\ \A i, j \in DOMAIN tabs : tabs[i].id = tabs[j].id => i = j
    /\ born \in 1..MaxTabs
    /\ pending \in Work /\ taken \in Work
    /\ waiting \subseteq Creator
    /\ owner \in {"drain", "apply", "refresh", "persist", "stopped"}
    /\ disk \in Saved \cup {None} /\ sent \in Saved \cup {None} /\ jobs \in Seq(Saved)
    /\ said \in [1..MaxTabs -> BOOLEAN] /\ heard \in [1..MaxTabs -> BOOLEAN]

\* A uuid is "the stable handle (index drifts as tabs open/close)": what was
\* asked of one tab is done to that tab, or not at all.  It is not so
\* (TabsUuid.cfg).
UuidIsStable == \A e \in last.typed \cup last.closed : e.to = e.asked

\* What a queue says last of a tab's lock, if it says anything, is on.
SaysLast(work, n, on) ==
    \A k \in ChangesOf(work, n) :
        (\A l \in ChangesOf(work, n) : l <= k) => work.locks[k].on = on

\* The lock last answered wins: a tab has it, or will have it once what was
\* taken is applied, or after the next round, though refreshes may have
\* taken it off the snapshot meanwhile.
LastLockWins ==
    \A i \in DOMAIN tabs :
        LET n == tabs[i].id
        IN  IF ChangesOf(pending, n) # {} THEN SaysLast(pending, n, said[n])
            ELSE IF ChangesOf(taken, n) # {} THEN SaysLast(taken, n, said[n])
            ELSE tabs[i].locked = said[n]

\* A lock that was answered before the loop took the queues keeps out all
\* that it took, also what was accepted before the lock, or after a refresh
\* had taken the lock off the snapshot.  One answered after the take comes
\* too late for what was accepted before it: that is still typed.
LockedTabGetsNoInput ==
    [][\A e \in last'.typed : e \in last.typed \/ ~heard[e.to]]_vars

\* A graceful stop keeps the tabs as they were: no write that was queued
\* earlier lands after the final one (persist: "clobber").
FinalStateKept == owner = "stopped" => disk = State
=============================================================================

-------------------------------- MODULE Remote --------------------------------
(***************************************************************************)
(* A tab of another host, mirrored into the local terminal: the polling    *)
(* thread of src/src/remote.rs, the two threads of `remote attach` in      *)
(* src/src/cli/remote/attach.rs, and the answers of                        *)
(* src/src/api/output.rs.                                                  *)
(*                                                                         *)
(* The thread polls the list of tabs and, more often, the output of each,  *)
(* naming a length and a checksum of what it has; it names tabs by the     *)
(* position that they had in its list.  What it finds goes to `attach`     *)
(* through one channel, and what is typed comes from it through another.   *)
(***************************************************************************)
EXTENDS Naturals, SequencesExt

CONSTANTS
    Order,      \* uuids of the host's tabs, in order
    Target,     \* the one that is attached
    Byte,       \* what programs print
    Begun,      \* what each tab has printed at first
    Busy,       \* bound: tabs in which programs print
    MaxLen,     \* bound: length of an output
    MaxChanges, \* bound: changes on the host
    MaxFaults,  \* bound: requests that fail
    MaxKeys,    \* bound: keys typed
    MaxEvents   \* bound: events under way to attach

Tab == Range(Order)

ASSUME TabAssumption ==
    Order \in Seq(Tab) /\ Target \in Tab /\ Begun \in [Tab -> Seq(Byte)]

VARIABLES
    host,       \* TabSnapshot.tabs of the host: uuid and output
    changes,    \* changes on the host so far
    tabs,       \* the thread's list: uuids in the order of remote_index
    poll,       \* poll_state: the output that last_len and last_crc describe
    at,         \* where the thread is in its loop
    next,       \* the tab whose output it asks for next
    faults,     \* requests that failed so far
    cmds,       \* cmd_tx to cmd_rx: keys, and Shutdown
    events,     \* evt_tx to rx
    attach,     \* where run_loop stands
    stdin,      \* where stdin_forwarder_loop stands
    exit,       \* exit_flag
    screen,     \* what attach has drawn
    told,       \* keys whose failure attach has printed
    late,       \* requests given up that the host may still serve
    typed,      \* history: keys typed
    reached,    \* history: the keys that reached the host, with the tab
    failed      \* history: the keys whose request failed

hostvars == <<host, changes>>
client == <<tabs, poll, at, next, faults>>
terminal == <<screen, told>>
local == <<attach, stdin, exit, terminal>>
keys == <<late, typed, reached, failed>>
vars == <<hostvars, client, cmds, events, local, keys>>

Shutdown == 0

Listing(ids) == [kind |-> "tabs", ids |-> ids]
Output(id, bytes, replaced, total) ==
    [kind |-> "output", id |-> id, bytes |-> bytes, replaced |-> replaced, total |-> total]
Error(k) == [kind |-> "error", key |-> k]

Init ==
    /\ host = [i \in DOMAIN Order |-> [id |-> Order[i], out |-> Begun[Order[i]]]]
    /\ changes = 0
    /\ tabs = <<>> /\ poll = [t \in Tab |-> <<>>]
    /\ at = "commands" /\ next = 1 /\ faults = 0
    /\ cmds = <<>> /\ events = <<>>
    /\ attach = "connecting" /\ stdin = "none" /\ exit = FALSE
    /\ screen = <<>> /\ told = {}
    /\ late = {} /\ typed = 0 /\ reached = <<>> /\ failed = {}

----------------------------------------------------------------------------
(* The host.                                                               *)

Changed ==
    /\ changes < MaxChanges /\ changes' = changes + 1
    /\ UNCHANGED <<client, cmds, events, local, keys>>

\* A program prints, or clears the screen and draws it anew.
Prints(i, b) ==
    /\ Changed /\ host[i].id \in Busy /\ Len(host[i].out) < MaxLen
    /\ host' = [host EXCEPT ![i].out = Append(@, b)]

Redraw(i, new) ==
    /\ Changed /\ host[i].id \in Busy /\ host[i].out # new
    /\ host' = [host EXCEPT ![i].out = new]

\* A tab closes, and those after it move up.
CloseTab(i) ==
    /\ Changed /\ Len(host) > 1
    /\ host' = RemoveAt(host, i)

Reach(k, i) == reached' = Append(reached, [key |-> k, tab |-> host[i].id])

\* A request that its sender has given up comes to the tab which has the
\* position by now.
ServeLate(q) ==
    /\ late' = late \ {q}
    /\ IF q.at \in DOMAIN host THEN Reach(q.key, q.at) ELSE UNCHANGED reached
    /\ UNCHANGED <<hostvars, client, cmds, events, local, typed, failed>>

HostStep ==
    \/ \E q \in late : ServeLate(q)
    \/ \E i \in DOMAIN host :
           \/ \E b \in Byte : Prints(i, b) \/ Redraw(i, <<b>>)
           \/ Redraw(i, <<>>)
           \/ CloseTab(i)

----------------------------------------------------------------------------
(* The polling thread.                                                     *)

Fail == faults < MaxFaults /\ faults' = faults + 1

\* resolve_index: where the thread's list has the tab.
Resolve(t) == {i \in DOMAIN tabs : tabs[i] = t}

\* Once attach leaves nobody reads the channel.
Tell(e) == events' = IF attach \in {"leaving", "gone"} THEN events ELSE Append(events, e)

Refused(k) == failed' = failed \cup {k} /\ Tell(Error(k))

\* run_command, for input.  Of a request that fails without an answer the
\* host may have nothing, or it serves it later.
Deliver ==
    LET k    == Head(cmds)
        here == Resolve(Target)
    IN
    /\ at = "commands" /\ cmds # <<>> /\ k # Shutdown
    /\ Len(events) < MaxEvents
    /\ cmds' = Tail(cmds)
    /\ \/ \E i \in here \cap DOMAIN host : Reach(k, i) /\ UNCHANGED <<faults, failed, late, events>>
       \/ /\ here \cap DOMAIN host = {} /\ Refused(k) /\ UNCHANGED <<faults, late, reached>>
       \/ /\ Fail /\ Refused(k) /\ UNCHANGED reached
          /\ late' \in {late} \cup {late \cup {[key |-> k, at |-> i]} : i \in here}
    /\ UNCHANGED <<hostvars, tabs, poll, at, next, local, typed>>

End ==
    /\ at = "commands" /\ cmds # <<>> /\ Head(cmds) = Shutdown
    /\ at' = "ended" /\ cmds' = Tail(cmds)
    /\ UNCHANGED <<hostvars, tabs, poll, next, faults, events, local, keys>>

\* The commands are drained; the list may be due, or not yet.
Drained ==
    /\ at = "commands" /\ cmds = <<>> /\ at' = "tabs"
    /\ UNCHANGED <<hostvars, tabs, poll, next, faults, cmds, events, local, keys>>

Polls(stage) ==
    /\ at = stage /\ Len(events) < MaxEvents
    /\ UNCHANGED <<hostvars, cmds, local, keys>>

TabsNotDue ==
    /\ Polls("tabs")
    /\ at' = "output" /\ next' = 1
    /\ UNCHANGED <<tabs, poll, faults, events>>

\* What is known of tabs that closed is forgotten.
FetchTabs ==
    LET fresh == [i \in DOMAIN host |-> host[i].id] IN
    /\ Polls("tabs")
    /\ tabs' = fresh
    /\ poll' = [t \in Tab |-> IF Contains(fresh, t) THEN poll[t] ELSE <<>>]
    /\ Tell(Listing(fresh))
    /\ at' = "output" /\ next' = 1
    /\ UNCHANGED faults

\* The badge says so, with the list as it was; the loop begins anew.
TabsFail ==
    /\ Polls("tabs") /\ Fail
    /\ Tell(Listing(tabs))
    /\ at' = "commands"
    /\ UNCHANGED <<tabs, poll, next>>

\* Variants ending in _x are bugs this code could have; nothing uses them.

\* A prefix is not compared, only measured.
StartOf_x(known, out) == IF Len(known) <= Len(out) THEN Len(known) ELSE 0

\* output::run: of what the client has said that it has, the rest, if that
\* is a prefix, and else everything.
StartOf(known, out) == IF IsPrefix(known, out) THEN Len(known) ELSE 0

\* What is drawn over: everything, of a tab of which something was known.
Replaced(start, known) == start = 0 /\ known # <<>>

\* The tab that now has the position which this one had in the list.
FetchOutput ==
    /\ Polls("output") /\ next <= Len(tabs)
    /\ next' = next + 1 /\ UNCHANGED <<tabs, at>>
    /\ LET t == tabs[next]
           known == poll[t]
       IN  \/ /\ next \in DOMAIN host
              /\ LET out   == host[next].out
                     start == StartOf(known, out)
                 IN  /\ poll' = [poll EXCEPT ![t] = out]
                     /\ IF out = known THEN UNCHANGED events
                        ELSE Tell(Output(t, SubSeq(out, start + 1, Len(out)),
                                         Replaced(start, known), out))
              /\ UNCHANGED faults
           \/ next \notin DOMAIN host /\ UNCHANGED <<poll, events, faults>>
           \/ Fail /\ UNCHANGED <<poll, events>>

\* All are done, or not due yet; then it waits, for a command at most.
OutputDone ==
    /\ Polls("output") /\ next \in {1, Len(tabs) + 1}
    /\ at' = "commands"
    /\ UNCHANGED <<tabs, poll, next, faults, events>>

ClientStep ==
    \/ Deliver \/ End \/ Drained
    \/ TabsNotDue \/ FetchTabs \/ TabsFail
    \/ FetchOutput \/ OutputDone

----------------------------------------------------------------------------
(* attach: run_loop, and the thread that reads the keyboard.               *)

Here == UNCHANGED <<hostvars, client, keys>>

\* Client::drop waits for a thread that nobody told to end.
Gone_x ==
    /\ attach' = "gone" /\ UNCHANGED cmds

\* Client::drop: the thread is told to end, and joined.
Gone ==
    /\ attach' = "gone" /\ cmds' = Append(cmds, Shutdown)

\* wait_for_first_tabs, pick_tab.
Connect ==
    /\ attach = "connecting" /\ events # <<>>
    /\ IF Contains(Head(events).ids, Target)
       THEN attach' = "watching" /\ stdin' = "check" /\ events' = Tail(events) /\ UNCHANGED cmds
       ELSE Gone /\ events' = <<>> /\ UNCHANGED stdin
    /\ UNCHANGED <<exit, terminal>> /\ Here

GiveUp ==
    /\ attach = "connecting" /\ Gone
    /\ events' = <<>>
    /\ UNCHANGED <<stdin, exit, terminal>> /\ Here

\* The output of any tab is drawn.
Draw_x(shown, e) ==
    IF e.kind = "output"
    THEN IF e.replaced THEN e.bytes ELSE shown \o e.bytes
    ELSE shown

Draw(shown, e) ==
    IF e.kind = "output" /\ e.id = Target
    THEN IF e.replaced THEN e.bytes ELSE shown \o e.bytes
    ELSE shown

\* The flag is looked at before each event.
Watch ==
    /\ attach = "watching" /\ ~exit /\ events # <<>>
    /\ LET e == Head(events) IN
       /\ screen' = Draw(screen, e)
       /\ told' = IF e.kind = "error" THEN told \cup {e.key} ELSE told
       /\ IF e.kind = "tabs" /\ ~Contains(e.ids, Target)
          THEN attach' = "leaving" /\ exit' = TRUE /\ events' = <<>>
          ELSE events' = Tail(events) /\ UNCHANGED <<attach, exit>>
    /\ UNCHANGED <<cmds, stdin>> /\ Here

Leave ==
    /\ attach = "watching" /\ exit
    /\ attach' = "leaving" /\ events' = <<>>
    /\ UNCHANGED <<cmds, stdin, exit, terminal>> /\ Here

\* It is dropped with the keyboard's thread at work.
Join_x ==
    /\ attach = "leaving"
    /\ Gone
    /\ UNCHANGED <<events, stdin, exit, terminal>> /\ Here

\* The keyboard's thread is joined before the client is dropped.
Join ==
    /\ attach = "leaving" /\ stdin = "done"
    /\ Gone
    /\ UNCHANGED <<events, stdin, exit, terminal>> /\ Here

AttachStep == Connect \/ GiveUp \/ Watch \/ Leave \/ Join

Check ==
    /\ stdin = "check"
    /\ stdin' = IF exit THEN "done" ELSE "read"
    /\ UNCHANGED <<cmds, events, attach, exit, terminal>> /\ Here

\* A key comes, and is forwarded.
Type ==
    /\ stdin = "read" /\ typed < MaxKeys
    /\ typed' = typed + 1
    /\ cmds' = Append(cmds, typed')
    /\ stdin' = "check"
    /\ UNCHANGED <<hostvars, client, events, attach, exit, terminal, late, reached, failed>>

\* The keyboard ends: attach goes on watching.
EndOfInput ==
    /\ stdin = "read" /\ stdin' = "done"
    /\ UNCHANGED <<cmds, events, attach, exit, terminal>> /\ Here

\* The key to detach; what came before it in the same reading is forwarded
\* after the flag is up.
Detach ==
    /\ stdin = "read" /\ exit' = TRUE
    /\ \/ stdin' = "done" /\ UNCHANGED typed
       \/ typed < MaxKeys /\ typed' = typed + 1 /\ stdin' = "last"
    /\ UNCHANGED <<hostvars, client, cmds, events, attach, terminal, late, reached, failed>>

SendLast ==
    /\ stdin = "last" /\ stdin' = "done"
    /\ cmds' = Append(cmds, typed)
    /\ UNCHANGED <<events, attach, exit, terminal>> /\ Here

Keyboard == Check \/ SendLast
User == Type \/ EndOfInput \/ Detach

Next == HostStep \/ ClientStep \/ AttachStep \/ Keyboard \/ User

Spec == Init /\ [][Next]_vars

\* The threads run, and what is due after some time is due again and again;
\* nobody has to type.
FairSpec ==
    /\ Spec
    /\ WF_vars(ClientStep) /\ SF_vars(FetchTabs) /\ SF_vars(FetchOutput)
    /\ WF_vars(Connect \/ Watch \/ Leave \/ Join) /\ WF_vars(Keyboard)

----------------------------------------------------------------------------

Short(s) == s \in Seq(Byte) /\ Len(s) <= MaxLen

TypeOK ==
    /\ host \in Seq([id : Tab, out : Seq(Byte)])
    /\ \A i \in DOMAIN host : Short(host[i].out)
    /\ changes \in 0..MaxChanges
    /\ tabs \in Seq(Tab) /\ next \in 1..Len(tabs) + 1
    /\ poll \in [Tab -> Seq(Byte)] /\ \A t \in Tab : Short(poll[t])
    /\ at \in {"commands", "tabs", "output", "ended"}
    /\ faults \in 0..MaxFaults
    /\ cmds \in Seq(0..MaxKeys)
    /\ Len(events) <= MaxEvents
    /\ attach \in {"connecting", "watching", "leaving", "gone"}
    /\ stdin \in {"none", "check", "read", "last", "done"}
    /\ exit \in BOOLEAN /\ Short(screen)
    /\ typed \in 0..MaxKeys /\ failed \subseteq 1..MaxKeys /\ told \subseteq failed

Mine(e) == e.kind = "output" /\ e.id = Target

\* Where the tab's outputs are among the events; 0 stands for the screen.
Marks(es) == {0} \cup {i \in DOMAIN es : Mine(es[i])}
NothingBetween(es, i, j) == \A k \in Marks(es) : ~(i < k /\ k < j)
Content(shown, es, i) == IF i = 0 THEN shown ELSE es[i].total

\* Each output, drawn on what the one before it left, gives what the host
\* had then, and the last leaves what is known.
IsChain(shown, es, known) ==
    \A i \in Marks(es) :
        /\ \A j \in Marks(es) :
            i < j /\ NothingBetween(es, i, j) =>
                Draw(Content(shown, es, i), es[j]) = es[j].total
        /\ NothingBetween(es, i, Len(es) + 1) => known = Content(shown, es, i)

StaysWatching ==
    /\ attach \in {"connecting", "watching"}
    /\ \A i \in DOMAIN events : events[i].kind = "tabs" => Contains(events[i].ids, Target)

\* What attach has drawn becomes, with the events under way, what the
\* thread tells the host that it has: whatever was cleared, redrawn or
\* mistaken for another tab, and whatever failed (remote.rs, run;
\* output.rs, run).
MirrorIsExact == StaysWatching => IsChain(screen, events, poll[Target])

\* No key is doubled, and only one whose request failed comes after a later
\* one.  None is dropped, also of those typed right before detaching: each is
\* asked for before the thread ends.  While attach watches it tells of each
\* that failed; of what fails after that, or was not read by then, nobody is
\* told (run_command; attach.rs, run_loop, spawn_stdin_forwarder).
KeysAreAccounted ==
    /\ \A i, j \in DOMAIN reached : i < j =>
            /\ reached[i].key # reached[j].key
            /\ reached[i].key < reached[j].key \/ reached[j].key \in failed
    /\ \A k \in 1..typed :
            \/ \E i \in DOMAIN reached : reached[i].key = k
            \/ k \in failed
            \/ at # "ended" /\ (Contains(cmds, k) \/ (stdin = "last" /\ k = typed))
    /\ attach = "watching" =>
            \A k \in failed \ told : \E i \in DOMAIN events : events[i] = Error(k)

\* Once the host is quiet the screen is the tab's, or attach is not there
\* any more (remote.rs, run).
CatchesUp ==
    <>[](attach = "watching" =>
            \E i \in DOMAIN host : host[i].id = Target /\ screen = host[i].out)

\* After the key to detach, the client's thread comes to its end, too
\* (attach.rs, run_loop; remote.rs, Client::shutdown).
DetachEnds == (exit /\ stdin = "done") ~> (at = "ended")

\* A key goes to the tab in which it was typed: "every command resolves
\* through the durable uuid.  Getting this wrong sends keystrokes to the
\* wrong session" (remote.rs, tests).
KeysReachTheirTab == \A i \in DOMAIN reached : reached[i].tab = Target

\* "If the remote closed our tab, bail out cleanly" (attach.rs, run_loop).
ClosedTabEndsAttach == (attach = "leaving") ~> (attach = "gone")
=============================================================================

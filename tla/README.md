# A verification of tab-atelier

tab-atelier is a desktop and headless terminal whose tabs run coding agents.
Around the tabs it has grown a small distributed system: a lease registry in
each daemon, a blackboard of tasks that hosts gossip, verbs with which agents
share work out, a proxy that divides one upstream quota between accounts, the
loop that owns the tabs while HTTP and WebSocket handlers queue work for it, a
ring of output that web viewers follow, a mirror of another host's tabs, a
watchdog that nudges frozen agents, an agent with a conversation of its own, and
a journal of decisions. These TLA+ modules model that system from its Rust source
(and the page's script); TLC checks them on small instances, and TLAPS proves the
lease registry, the sharing of work, the ring, the mirror, the watchdog's
restraint, the agent's conversation, the journal and two properties of the daemon and
the proxy for instances of any size.

Paths below are relative to the repository. Every definition that models code
is listed in `PROJECT.json` under `map` with the lines that it stands for.

## 1. Inventory

`m` modelled, `p` partly, `-` not (why is said at the end of each entry).

### The coordination core

**Lease registry** (m; `src/claims.rs`, `src/api/claims_route.rs`; modules
`Claims`, `LeaseService`). State: a table of claims (key, holder, grant and
expiry time, fence) and the next fence, in memory behind an `RwLock`, lazily
loaded from `claims.json`. Operations: `grant` (take or renew), `release`,
`active`, and `gc` on each use. Handlers run on several threads: each reads the
clock *before* it waits for the lock, and the file is written *after* the lock
is left. Hard: two agents racing, stale clocks, snapshots written out of order,
a daemon that restarts or dies while writing. Correct if a key never has two
live leases, a fence names one grant and orders the grants of a key, and a lease
survives a restart.

**Blackboard and its fold** (p; `src/cli/team.rs`, `src/cli/tasks.rs`; module
`TaskBoard`). State: `blackboard.jsonl`, an append-only list of entries
(announce, bid, award, done, notes), each with a hashed id, a time and an
origin. Operations: append, merge by id, fold into one `TaskView` per task, rank
for an agent. Hard: the order of lines differs per host, entries collide in
second or id. Correct if hosts that know the same entries see the same tasks.

**Gossip** (m; `src/cli/gossip.rs`, `src/api/blackboard_route.rs`; module
`Gossip`). A round pulls a peer's board, merges it, and pushes the whole board
back; merges read the file, compute what is new and append it with no lock. Hard:
appends in between, rounds that end anywhere, batches that are too large,
one-sided registrations. Correct if boards converge.

**Fleet verbs and federation** (p; `src/cli/work.rs`, `src/federation.rs`;
module `Fleet`). `take` ranks the board, claims `task:<id>` at the task's home
daemon (or, when that does not answer, locally), and appends an award; `done`
appends a result and releases the lease. The directory learns peers from the
rounds this host has run itself. Hard: stale boards, lost answers, homes that
come and go, agents that die, work that takes longer than the lease's ttl. Correct if
a worker holds its lease until that is over, two share a task only for a reason
that the code names, and announced work is reported on.

**Sweep and backlog** (p; `src/sweep.rs`, `src/cli/backlog.rs`; in `Fleet`). On
a timer: run the sources, announce what `should_announce` lets through, gossip
with every endpoint.

**Board compaction** (m; `src/cli/prune.rs`; in `Gossip`). `prune` reads a board,
partitions it by the fold and an age, writes what stays to a temporary file and
renames that. Hard: whatever is appended in between, and peers that still have
what went. Correct if live work is never dropped and the boards agree again.

**Waiting** (-; `src/cli/await_task.rs`). Polls a verdict over the fold; pure.

**Fleet graph** (-; `src/fleet.rs`, `src/api/fleet_route.rs`). A read-only
projection of boards, leases and tabs: no state.

**Decision journal** (p; `crates/tab-atelier-decisions`,
`src/api/decisions_route.rs`, `src/cli/decision.rs`; module `Journal`). State:
`decisions.jsonl`, one card per decision. Producers append through the daemon; a
person reads and rules in the Kiosk, another process. Whatever is not a new card
reads the file, edits it in memory and writes all of it anew, with no lock. Hard:
two such calls at once, a call that dies between truncating and writing.
Correct if a decision has one card and a verdict stays.

**Brain** (p; `src/cli/brain.rs`, `crates/tab-atelier-pace`; module `Brain`).
State: per tab a watch (the screen last seen and since when, the one nudged for,
the streak and the wait, the cached tail and its CRC), two cursors, the breaker
and the heartbeat. A tick lists the tabs with a Claude session, reads the screens
that moved, and types `continue` into one that has been frozen on an error. Hard:
agents go on while a tick is under way, requests fail, scans are cut short, more
tabs freeze than may be nudged. Correct if for a tab that stays stuck a nudge is tried,
and none is nudged more often than the backoff and the heartbeat allow.

### The daemon

**Daemon tabs and API** (p; `src/headless.rs`, `src/api.rs`, `src/api/*.rs`,
`src/api_ws.rs`, `StateWriter` in `src/lib.rs`; module `Tabs`). The loop owns
the tabs. Handlers see a snapshot under a mutex and leave requests in some
twenty queues beside it, by position (close, activate, input, rename) or by
uuid (lock and the rest). Every tick drains the queues; less often the snapshot
is rebuilt and the state is handed to a writer thread. Hard: positions that
shift, a snapshot older than the tabs, refreshes that undo an answered lock,
writes that land late, clients that wait. Correct if a request reaches the tab
it named, a lock holds once answered and keeps out whatever the loop takes from then
on, and the last state is what the file keeps.

**PTY ring and viewers** (p; `src/pty_ring.rs`, `src/api_ws.rs`,
`assets/main.js`; modules `PtyRing`, `Viewers`). State: per tab a byte ring with
absolute offsets, of which older bytes are in compressed chunks, and the last
encoded frame; per connection a pump with its offset and the last meta it sent;
per page its count of bytes, its queue of frames, what a selection holds back.
Hard: reads over the edges of chunks and of what is evicted; frames encoded
outside the ring's lock and shared; a page that reconnects in the middle; a lock
that changes while metas are prepared. Correct if a page shows what was printed,
each byte once and in order, as far as the end of a frame cuts no character, and ends
up current.

**Remote mirroring** (p; `src/remote.rs`, `src/cli/remote`,
`src/api/output.rs`; module `Remote`). State: a thread's list of the host's tabs,
and of each what it has of its output; two channels; the terminal of `remote
attach`. The thread polls the list, and each output by length and checksum, and
sends commands; it resolves uuids to positions. Hard: positions that shift,
screens that are cleared and redrawn, requests that fail, keys typed as one
leaves. Correct if the terminal shows the tab, and each key is asked for, once and in
order, and its failure told to whoever still watches.

**Schedules** (-; `src/schedule.rs`). Off-hours locks, a pure function of the
time; `Tabs` has the manual lock only.

**Sandboxing and limits** (-; `src/cgroup.rs`, `src/net_*.rs`,
`src/agent_reaper.rs`, `src/ssh_agent.rs`). Kernel interfaces; what could go
wrong is on the other side of the system call.

**Desktop and terminal** (-; `src/app.rs`, `src/terminal.rs` ...). Rendering
and user interface. `app.rs` drains the same queues as the headless loop.

**HTTP layer** (-; `crates/tab-atelier-api`, `crates/tab-atelier-web`,
`crates/claude-api`). Stateless parsing, guards and conditional replies.

**Command-line client** (-), **briefs, catalog, transcripts** (-). Single
requests and files rewritten on a user's command.

### The proxy and the agent

**Quota scheduler and its calls** (p; `crates/tab-atelier-proxy/src/qos.rs`,
`.../http/controllers/relay.rs`; module `Qos`). State: per account credit and
calls in flight, the budget and window last reported, a backoff. A call asks
until it is let through or has waited enough; it is charged an estimate, sent,
observed at its headers, and settled when its body ends. Hard: answers out of
order, readings that go stale, calls that fail in between, missed wake-ups.
Correct if a refusal is respected, every call is decided, and nothing but a report
that never goes stale locks the proxy up.

**Routing and providers** (-; `routing.rs`, `provider.rs`, `classifier.rs`).
Maps a model, reroutes by prompt, degrades by health. Planned after `Qos`.

**Accounts, usage, budgets** (-; `users.rs`, `account.rs`, `usage.rs`,
`budget.rs`). Keys and sessions, utilisation samples in daily files, hourly
buckets. Mostly bookkeeping and arithmetic.

**Body pipeline** (-). Rewriting, translating and capturing of bodies: data.

**Agent (catbus)** (p; `crates/catbus-agent/src/agent.rs`, `socket.rs`,
`session.rs`, `tui/app.rs`; module `Agent`). State: the history in memory, which
every request carries, and a JSONL transcript per session, from which it is
rebuilt; the line queue of the terminal; one cancellation token, of whichever
turn began last. A turn asks the model, runs its tools, and adds to history and
transcript at different times. Hard: cancellation, hang-ups, errors and death at
every await; `/clear` and `/resume`; the terminal and socket clients at once.
Correct if no request is malformed by what ended an earlier turn, transcript and
history tell the same, and what is typed is asked in its order.

**Kiosk** (-; `crates/tab-atelier-kiosk`). HTTP in front of files and other
daemons; its one concurrent store is the decision journal.

### How they interact

Agents' verbs read the board and claim leases over HTTP at the home's daemon
(`Fleet` over `Claims` and `TaskBoard`); sweeps append announcements and run
gossip, and gossip teaches the federation directory where homes are. Daemons do
not call each other otherwise. Viewers, the brain and remote hosts reach tabs
through the queues of `Tabs`. An agent's model calls go through the proxy.

## 2. Modules

| module | extends | models |
|---|---|---|
| `LeaseService` | | what a lease registry promises: the abstract specification |
| `Claims` | | the registry with its threads, lock, clock reads and file |
| `ClaimsProofs` | `Claims`, TLAPS | its inductive invariant and the refinement |
| `TaskBoard` | | entries, merge, fold, ranking rule and announcement rule, as operators |
| `Gossip` | `TaskBoard` | rounds between hosts and compactions, step by step |
| `GossipProofs` | `Gossip`, TLAPS | that hosts agree, that the fold is a view of the set, and what compaction keeps |
| `Fleet` | `TaskBoard` | verbs, leases, directory, sweeps and gossip of several hosts |
| `FleetProofs` | `Fleet`, `Agent`, TLAPS | workers keep their leases for the ttl, and two on a task are explained; what a conversation keeps whatever ends its turns |
| `Qos` | | the scheduler and the calls it admits |
| `QosProofs` | `Qos`, TLAPS | that a refusal is respected, and that what is counted keeps its types |
| `Tabs` | | the owner loop, its handlers, snapshot, queues and writer |
| `PtyRing` | | the ring of one tab as a value: push, compaction, eviction, reads |
| `Viewers` | `PtyRing` | the tab, its pumps, the wires and the pages |
| `ViewersProofs` | `Viewers`, TLAPS | that the ring is exact, and that what pumps send and pages show is, too |
| `Remote` | | the thread that polls a host, its channels, and `remote attach` |
| `RemoteProofs` | `Remote`, TLAPS | that the mirror is exact, and what becomes of each key |
| `Brain` | | the watchdog's tick, request by request, and its pacing |
| `BrainProofs` | `Brain`, TLAPS | that nudges keep their distance |
| `Agent` | | turns of one conversation, from the terminal and from sockets |
| `Journal` | | the decision journal, its writers and their memory |
| `DaemonProofs` | `Journal`, `Tabs`, TLAPS | one card per decision, whose verdict stays; locks hold, and a stop keeps the tabs |
| `MC...` | the module | constants for TLC |

Definitions ending in `_x` or `_y` are variants of the definition that follows:
mistakes this code could plausibly have. No action uses them. Each property of
a passing run is violated once one of them takes the definition's place, which
shows that the instance is large enough for the property to fail.

### Claims

One thread serves one request at a time: `AskGrant`/`AskRelease` (parse, read
the clock), then one critical section (`GrantOk`, `GrantHeld`, `ReleaseOk`,
`ReleaseNoop`) which loads the file on first use, collects with a clock read
*inside* the lock, changes the table and serialises it, then `Truncate` and
`Write` (or `WriteFails`) outside the lock, and the reply. `Look` is any
read-only use. `Restart` is an orderly one, `Crash` may come between any steps.
`issued` and `held` are history: every grant, and the leases that their holders
believe in. When bodies overlap in the file, what is left may not parse, and
counts as empty. Abstracted: `sanitize` (keys and holders are the accepted
ones), the JSON, and the read lock of `active` (a use like any other).

`Claims` implements `LeaseService`, in which there is no daemon: a key's lease
is mapped to its *live* claim, whether or not `gc` has run, the table is loaded,
or the file is up to date. A lease that runs out, disappears at the tick.

### TaskBoard and Gossip

`FoldTask` is the code's pass over the lines, `ViewOf` the same view as a
function of the *set* of entries. `FoldIsViewOfSet` ties them together, so that
`Fleet` may use sets. `MayHaveId` says which entries share an id: `mint_id`
hashes neither `to` nor `ok`, and stamps have seconds, so that two awards by one
agent in one second collide. `exchange` is `Pull`, `ReadOwn`, `AppendOwn`,
`Send`, then `Refuse` (413) or `Receive` and `Store` at the peer; `GiveUp` ends it
anywhere but while the peer's handler runs. A compaction is `ReadToPrune` (any
cutoff), then `Replace`, or `Abandon` if it fails or dies; everything appended to
that board in between is history in `raced`.

### Fleet

Composes what the others establish, each as one step: a board is a set
(`FoldIsViewOfSet`), a round is a union, a lease table has one holder per task
(`ServiceSpec`). `take` is `Take` (rank once), `Claim` per offer in any order (the
rendezvous hash is any order), `Unanswered` and `FallBack` when the home does not
answer or its answer is lost, and `Award` as a separate append. `done` is `Done`
and `Release`, which computes the home *again*, from the board of now. `Announce`
is a sweep, for which the cooldown may always be over. `Lapse` is expiry: any lease may
run out at any time, also under work, since `work` takes a fixed ttl that no verb
renews, and the worker goes on without noticing. `late` is history: who has outlived
its lease.

### Qos

One action per step that takes the scheduler's lock. `try_admit` is split by
its outcome: `RejectEarly` (backoff), `GoUnknown` (no reading), `Go`, `NotYet`.
Instants are kept as the time left until them; stretches of time are scaled to a
few ticks. `Refuse` and `Answer` are upstream: it may refuse for a time, and
names it, or not if it is short. `Fail` and `Gone` are the early returns of
`forward`. A call that routing sends to another provider skips admission and is
settled all the same, as in the code. Tokens and time of reset are read from two headers,
so a report may have either without the other (`Reports`): the instance has one with
both, one with none, and one with tokens only.

### Tabs

Handlers (`AskClose`, `AskActivate`, `AskInput`, `AskLock`, `AskNew`) are
critical sections of the snapshot's mutex: they look the uuid up in `snap` and
queue a *position*, or for locks the uuid. A drain is two steps, since the code leaves
the mutex in between: `Take` takes all queues at once, and `Apply` works
through them in the code's order: locks, closes from the highest position,
activation, input, new tabs, of which any number may fail to spawn. Handlers answer
requests between the two, which wait for the next round. `Refresh` and
`Persist` follow or not (`NotDue`). `Write` is the writer thread. `Stop` is SIGTERM:
queued writes first, then the final state, and nothing is drained. `Restart` and
`Crash` boot from the file, or with one fresh tab when there is none. `said`, `heard` (what
had been said when the queues were taken) and `last` are history.

### PtyRing and Viewers

A byte is its number in all that the tab ever wrote, so that what a page shows
can be compared with what was printed. `Push` is the whole of `push`: the tail of
a write that is larger than the ring, `Compact` in whole chunks, `EvictOverCap` in
whole chunks and then plain bytes, and the frame cache dropped when nobody looks.
Compression itself is not modelled: a chunk is its bytes. A pump is `Connect` (the
upgrade with `?since=` and the first meta), `Enter` (the preview), then its loop:
`Share` a cached frame or `Take` bytes under the ring's lock and `Encode` them
outside it, `MetaTick` and `MetaSend`. The page is `Receive`, `Handle` (the next
promise of `outChain`), `Select` and `Deselect`. `Lose` ends both ends of a
connection at once; `Reboot` is another daemon with an empty ring. The page decodes
each frame by itself and takes the mouse modes out of the text (`Decode`): which bytes are of one
character or sequence with the next is a constant (`Joined`), and so are the bytes of
the modes (`Modes`). A character over the end of a frame becomes replacement
characters (`Lost`), and a mode over the end of a frame stays in (`Fate`). The lock is
there as the example of what metas tell: `Lock`, `DrainLock`, `Refresh`.

A behaviour follows one `Scenario` (who connects, selects, loses connections; how
much is written at once), since everything at once is too much. `exact` and
`whole` are history: the pages whose count is the ring's (not those that reconnected
with frames queued), and those that were sent no gap; `cuts` is where a page's frames
ended. Left out are input frames and their deduplication, authorisation,
file counts, local echo, and tabs that are respawned under their viewers.

### Remote

The host may print (`Prints`), clear or redraw (`Redraw`) and close tabs
(`CloseTab`). The thread is one loop: `Deliver` each command that is there (`Reach`
the tab by position, or be `Refused`, which sends an `Error` event while somebody may
read it; a request given up may still be served later, `ServeLate`), `End` on a shutdown, `Drained`; then
`FetchTabs` when due, or `TabsFail`; then `FetchOutput` for each tab, and
`OutputDone`. An answer carries a delta if the host's output still begins with what
the thread said that it has (`StartOf`, the checksum), else the whole, and the
thread tells `attach` which (`Replaced`). `attach` is `Connect` (the first list),
`Watch` (one event drawn, told or acted on), `Leave`, from where on events are dropped,
and `Join`; its keyboard thread is
`Check`, `Type`, `EndOfInput` and `Detach` with `SendLast`. Left out are the other
commands, which are resolved in the same way, and checksums that collide.

### Brain

One action per request: `List` (or `ListFails`), `Look` at one tab after the other
(or `LookFails`), the decision (`Nobody`, `Suppress`, `HoldBack` or `Choose`), then
`Send` or `SendFails`, and `Sleep`. Agents change between any two of them (`Show`,
`Flag`, `Session`), and so does the network (`Outage`, `Back`). A screen is a number
and the pattern that it shows. A tick takes no time of the clock, since the code
reads it once, and a pause takes one unit: instants are kept as ages up to the
limit that they are compared with, or as time left; the cursors, which count on for
ever, modulo a number that every size of the fleet divides (`Turn`). A scan may be cut short after
any tab (`Onward`). `served`, `tried`, `past` and `quiet` are history: whom a nudge has
reached since its screen changed, the screen that a nudge was last posted for, whether
it arrived or not, each tab's tries in one episode, and the time since a capped fleet
was nudged.

### Agent

One action per await or write of `run_user_prompt`: `Begin` (token, session and
prompt in the transcript), `Remember`, `Ask`, `Reply` (into the transcript),
`Said`/`Cue` for words that are cut off, `StartTool`/`FinishTool`, `Called` (calls
into the history), `Record` (results into the transcript), `Results` (into the
history). `HearCancel` is the select on the token, `HangUp` a socket turn that is
dropped at an await, `Trouble` what disk and provider may do. `Submit`, `Finished`
and `Cancel` are the terminal's loop; `Prompt`, `Clear` a socket's. `Restart` resumes
the session from the transcript. A reply has one tool call, the loop guard may
refuse any, and the tools, their judge, questions to the user, retries within a
request, cache marks and token totals are left out. `torn` is history: overlapping
turns, or results lost at the disk or by a hang-up.

### Journal

A call reads the file (`Post`, `MarkRead`, `Tranch`), and then appends
(`AppendLine`), or reads it once more (`Update`), or goes on to `Truncate` and
`WriteOut`, which are the two steps of `fs::write`. Other calls come in between; what
they wrote may stick out behind the shorter text, in the middle of a line. `Fail` is
a process that dies, or a full disk; `Archive` an editor. Comments, blank lines and
a file without a last newline are left out. `posted`, `ruled` and `hurt` are
history: what callers were told, and whether a writer ever went over what it had
not read. `DaemonProofs` extends this module and `Tabs`, so `JournalSpec` and the
like are named for it.

## 3. Runs

Passing:

| run | instance | what it shows |
|---|---|---|
| `claims_concurrent` | 2 threads, 1 key, 2 holders, 3 ticks, 2 grants, failing writes; 1.7M states | exclusive leases, ordered fences, and that the registry implements `LeaseService`, whatever interleaves |
| `claims_restart` | 1 thread, 2 keys, 2 holders, restarts; 110k | a restart is invisible when requests come one by one: no fence is given twice, no lease forgotten |
| `gossip_fold` | 2 hosts, 1 endpoint, 2 agents, 2 entries of all kinds, batch limit 1, 1 compaction; 327k | boards that know the same agree; the fold is a function of the set; a compaction loses no live work that was there when it read |
| `gossip_converges` | chain of 3 hosts, results, 2 compactions; 24k | entries spread to hosts that never meet, though rounds may fail and boards are compacted |
| `viewers` | 2 viewers, a ring of 5 bytes (2 plain, chunks of 2), writes of 2, 3 and 6 bytes, 6 in all, a character and a mode of 2 bytes each; 604k | the ring is exact; frames are in order whoever encoded them; a page shows each byte once over reconnects, but for what the ends of frames cut; it catches up, with output and with locks |
| `fleet` | 2 hosts, 2 agents of which one may die, 1 task, 5 entries, endpoints that fail and heal, lost answers, leases that run out under work; 66,576 distinct states | who works holds the lease for its ttl; two work on a task only after a fallback or an outlived lease; announced work is reported on |
| `qos_share` | 2 accounts with a call each, refusals, windows that end, reports without tokens or without a time of reset, a lost call; 504k | refusals are kept, calls are decided, calls go on unless a report never goes stale |
| `tabs_loop` | 2 uuids, 4 queued requests, 1 queued write, stops and crashes; 2,989,978 distinct states | locks hold once answered and keep out what is taken later, the final state is kept |
| `agent` | 6 scenarios: up to 4 lines typed, 3 socket prompts, 2 rounds a turn, a queue of 2, 3 sessions; 763k | requests are well formed, transcript and history agree, prompts keep their order and are all run, wherever turns end |
| `remote` | 3 tabs, outputs up to 2 of 2 bytes, 2 changes, two keys and the one that detaches, a failure, 2 events under way; 413k | what is drawn, with the events under way, is what the thread says that it has; once the host is quiet the screen is the tab's; keys arrive once and in order but for those that failed, of which attach tells while it watches; detaching ends every thread |
| `brain` | 2 tabs, an error that counts for the breaker, 2 changes, screens that come back, a failing GET, a failing POST, base 3, ceiling 4, heartbeat 2; 894k | tries keep the backoff's and the heartbeat's distance; for who stays stuck a nudge is posted; the breaker lets go |
| `journal` | 2 decisions, 2 titles, 2 verdicts, 2 threads, 5 calls, 1 fault; 1.5M | one card per decision, whose verdict stays, until a rewrite meets another call |

Why these are enough: each hazard takes two actors at one key, task, account,
tab or file, and one more object to be confused with it. `brain` has two tabs and two
changes, so that scans cut short, the rotation, a breaker that takes both of them and a
screen that comes back meet; with three tabs and one change (`BrainFleet.cfg`, 987k states) the
same holds. `tabs_loop` has two uuids, so that four requests can wait at once: a lock, its
opposite, and input before and after; three uuids with two requests pass as well. In
`remote` only the attached tab's output changes (`Busy`), beside closes of any; with
`MaxKeys = 2` a key that fails is overtaken by the next. The ring of five bytes
has room for chunks beside plain bytes, for a read that starts within a chunk, for
eviction of a chunk that a viewer still needs, and is smaller than one write. The
agent's scenarios are kept apart because each has its own source of trouble
(what a model says, what is typed, sessions, cancellation, a socket, both
drivers); within one, everything interleaves. The mutants show that every
property does fail within its bounds when the code is wrong. Symmetry is used
for agents, holders, threads and keys that no definition tells apart, and never
where liveness is checked. Deadlock is not checked where a behaviour ends with
its scenario, its count of calls or with the client (`viewers`, `agent`, `journal`,
`remote`). `fleet` has one task and five entries: that lets the task be announced
anew and taken twice, and a second task would only use up the entries; for any number of
agents and tasks the safety properties are proved (section 5). The type
invariants (`TypeOK` of each module) hold on every instance, and those of `Claims`,
`Fleet`, `Journal`, `Brain` are proved; runs check them where they say more than
that (`Gossip`, `Qos`).

Every run passes. While modelling, disagreements were met between what the code
does and what its comments, docs or tests say. For some there is a property with
a configuration beside this file that is no run of the project, which TLC finds
violated (`tlc -config TabsUuid.cfg MCTabs`):

- Claims: a daemon that dies between truncating and writing `claims.json` loses
  the table, and a held key is granted again (`SpecCrash`). With two threads,
  snapshots may reach the file in the opposite order; after a restart a fence is
  given out again (`FenceNamesOneGrant` fails in `SpecRestart` with two threads).
- Gossip: announcements of a task in the same second have no tie-break, so that
  its home depends on file order (`BoardsAgree` fails with `SameSecond = TRUE`);
  rounds of two hosts at once append an entry twice, which the fold does not mind;
  a board beyond `MAX_MERGE` is never taken by a peer that is only pushed to
  (`Convergence` with a small `MaxMerge`).
- Compaction: what is appended between its read and its rename is lost, an award
  or an announcement among it (`LiveWorkKept` fails), though `prune.rs` lists what
  it never drops. A peer that has not heard of a result hands the announcement
  back, and a finished task is open again. Two compactions of one board share the
  name of their temporary file.
- Fleet: a lease runs out under work that takes longer than its 900 seconds, since no
  verb renews it; a second agent is granted the task, and both do it (`OneWorker` fails
  with any instance). The award of an agent that dies is never retracted: the lease lapses,
  but the task is offered to nobody. An agent whose board is old takes a finished
  task again; two sweeps that announce a task before they gossip give it two homes
  and two workers; a host that has been pushed a task but never pulled claims
  locally without a word; a finished task announced again is offered to nobody;
  after a fallback `done` releases at the home, and the local lease stays.
- Qos: a call that is admitted and then fails early is never settled: its account
  counts it in flight for ever (`InflightIsOut`, `QosLeak.cfg`). A report that has
  tokens but no time of reset, or one that does not parse, never goes stale: once the
  tokens are used up every call is turned away for ever (`NeverLockedUp`,
  `QosLockUp.cfg`); calls of other providers are settled against the
  plan's budget; an estimate above ten seconds of its account's share is never
  covered by credit; refusals outside of what the clamps and defaults of `on_429`
  allow for.
- Tabs: input sent to one tab by uuid is typed into another, after a close in the
  same round has shifted positions (`UuidIsStable`, `TabsUuid.cfg`); a lock that is
  answered between the loop's taking of the queues and its typing comes too late for the
  input that was taken, which goes into a tab that its client believes locked; requests queued
  when a stop comes are lost though answered, a lock for one; a write that fails is
  not tried again until the state changes.
- Viewers: the page counts the bytes it was sent, the server the bytes of the ring:
  a page that came after bytes had aged out has a smaller count, and is sent its
  last bytes again when it reconnects (`ShownOnce`, `ViewersResume.cfg`). After the
  daemon restarts, a count beyond the younger ring skips what is printed until the
  ring catches up. Frames in `outChain` when a page reconnects are shown and sent
  again. Each frame is decoded by itself, so that a character over the end of a frame is
  shown as replacement characters, and a mouse mode over it is not stripped. A gap is sent as nothing: the page cannot tell. A tab that is respawned
  (`respawn_tab_net`) leaves its viewers on the dead ring. Bytes held back while
  the page is scrolled up wait for the next frame. A pump that always has output
  need not get to its meta tick, as its `select!` is biased.
- Agent: a turn that is cancelled while a tool runs leaves its calls in the
  transcript, and not their results. The session goes on; a later `/resume` cuts the
  transcript at those calls, and all that was said after them is lost to the model
  (`ResumeBringsAllBack`, `AgentResume.cfg`). Lines that wait behind a queued `/clear` or `/resume` are not run when
  it is done, and a prompt typed then overtakes them; a socket's `Clear` or
  prompt during a turn of the terminal mixes two histories; if the results cannot
  be written, the history is left with calls that were never answered (a line whose
  fsync fails may stand in the transcript all the same, which the model leaves out); Ctrl-C
  between the spawn of a turn and the installation of its token is lost, and
  otherwise trips whichever turn installed its token last.
- Remote: a tab before the attached one closes, and a key typed before the next list
  is fetched goes to the tab that has moved up to its position (`KeysReachTheirTab`,
  `RemoteStale.cfg`); the attached tab closes, and `attach` waits for its keyboard's
  thread, which waits for a key (`ClosedTabEndsAttach`, `RemoteClosed.cfg`). A key whose
  request fails after `attach` has stopped watching, such as one typed right before
  detaching, is lost in silence: its `Error` goes into a channel that nobody reads. A
  request that is given up may be served later, after the next key, though it was
  reported as failed.
- Brain: the POST of a nudge fails, the screen counts as nudged, and the tab is left
  alone for good (`RecordedIsSent`, `BrainLost.cfg`; so `StuckIsNudged` is false, and
  `StuckIsTried` is what holds); the screen changes between the
  listing and the fetch and later back, and the listing's CRC vouches for a tail that
  is another screen's (`TailIsAccurate`, `BrainCache.cfg`); a tab recovers and freezes
  on the very screen that it was nudged for, and counts as nudged (`StuckIsNudged`,
  `BrainReturns.cfg`). A tab nudged while its session ends, or after it has recovered, gets the
  words all the same, as the look and the keys are two requests; a scan that is
  cut short counts too few tabs for the breaker.
- Journal: two rewrites at once lose cards and verdicts; a file that was truncated
  and not written reads as an empty board; a write over a longer file can leave half
  a line, after which the journal is `Unavailable`; posting an archived decision
  again overwrites its verdict, and posting a read one again makes it open.

## 4. Fairness

- `Gossip.FairSpec`: the sweep's timer goes through all endpoints for ever; any
  number of rounds may fail (`GiveUp`), but not all. Hence strong fairness of the
  steps of a round. Nothing makes a compaction happen, or end.
- `Fleet.FairSpec`: sweeps and gossip run on timers; endpoints heal; an agent,
  while it lives, polls for work and goes on with its verb; every lease runs out,
  whoever works. Gossip has strong fairness as its endpoint may fail again.
- `Qos.FairSpec`: time passes; a waiting call asks at least every half second
  (the timeout beside the wake-up), and asks on arrival, before its client can hang up
  on it again and again (strong fairness of `Ask`); clients keep coming. Nothing makes
  upstream answer or a call that was sent end, and clients may always hang up.
- `Viewers.FairSpec`: the owner loop and the pumps' ticks run for ever, a page
  reconnects until it succeeds, and a selection ends. A pump's read of the ring
  has strong fairness, as its meta tick may come in between, though its `select!`
  prefers output. Nothing makes the terminal write, or connections fail.
- `Remote.FairSpec`: the thread's loop runs on and its polls are due again and
  again; that a request succeeds has strong fairness, as it may fail in between.
  `attach` and the keyboard's thread run; nobody has to type, and nothing happens
  on the host.
- `Brain.FairSpec`: the loop ticks for ever, and outages end. Nothing makes an
  agent change, or a scan get to its end.
- `Agent.AgentFairSpec`: a model answers or times out, a tool ends or times out, and the
  terminal's loop joins its turn. Nobody has to type, cancel or hang up.
- `Claims`, `Tabs` and `Journal` are checked for safety only.

## 5. Proofs

`ClaimsProofs` proves, for all sets of keys, holders and threads, all clamps and
with no bound on time or fences other than that they are numbers:

| theorem | statement |
|---|---|
| `TypeCorrect` | `Spec => []TypeOK` |
| `MutualExclusion` | `Spec => []LeaseExclusive` |
| `FenceUnique` | `Spec => []FenceNamesOneGrant` |
| `FenceOrder` | `Spec => []StaleFenceIsSmaller` |
| `NothingForgotten` | `Spec => []NoLiveLeaseForgotten` |
| `Implements` | `Spec => ServiceSpec` |

Assumed are only what `Claims` assumes of its constants: `MinTtl` is positive and
at most `MaxTtl`, and `NoClaim` is no claim.

Exclusion is not inductive by itself: it speaks of what agents believe, and the
table decides. The invariant `Inv` says how the two are related: every claim in
the table was issued (`TableWasIssued`) with a fence up to the counter
(`FencesBelowNext`) and is the newest of its key (`TableIsNewest`), and every live
belief *is* the table's entry (`NoLiveLeaseForgotten`), from which exclusion
follows at once. For the steps, a request's clock is never ahead of the daemon's
(`AskedInThePast`), so that what `gc` drops by the later clock could not have
refused the grant; and a thread that writes has loaded the table
(`WritersLoaded`), so that the file does not matter until a restart. The
refinement uses the same invariant: collecting and loading do not change the
mapped lease (`CollectedIsInvisible`), a tick maps to the service's tick, a grant
and a release to theirs, everything else to a stutter.

`FleetProofs` proves two things about the work of agents. Of `Fleet`, for all sets of hosts, agents and tasks, whatever
`Peer`, `LinksFail`, `RepliesFail` and `Mortal` are, with leases that may run out at any time:

| theorem | statement |
|---|---|
| `TypeCorrect` | `Spec => []TypeOK` |
| `LeaseKept` | `Spec => []WorkIsLeased` |
| `DuplicatesExplained` | `OneHome(s)` gives `Spec => []DuplicatesAreExplained` |
| `OneWorkerPerTask` | `OneHome(s)`, `~LinksFail` and `~RepliesFail` give `Spec => []OneWorker` |

`WorkIsLeased` says of an agent at work that the lease is its own until it has run out
(`InTime`), and is inductive together with the types (`TypeInv`, which adds that
entries are finitely many and that a verb under way knows its task and host): a
lease is granted only where nobody holds it, so never while a worker's still runs; and
it is released by its holder only, so that the late `done` of an agent that has lost its
lease does not free the next holder's. `Lapse` marks the worker `late`, and nothing
reads that mark. Exclusion across hosts needs in
addition that both agents were sent to the same table. `OneHome(s)` assumes that
one host sweeps and that the others have learned an endpoint for it; then all
announcements, and so all views, offers and claims, name that host (`SentHome`).
That the earliest announcement exists at all is a use of the well-foundedness of
the naturals (`EarliestExists`). Without `OneHome` the statement is false: two
sweeps, or a host that has not learned the home, do give a task two workers
(section 3). `OneWorker` has no fallback in it, and says what is left where endpoints
answer: two work on a task only after one has outlived its lease.

Of `Agent`, for any sockets and sessions, limits of rounds, continuations and the
queue, and any `Scenario`:

| theorem | statement |
|---|---|
| `AgentTypeCorrect` | `AgentSpec => []AgentTypeOK` |
| `RequestsAreValid` | `AgentSpec => []RequestIsValid` |
| `TranscriptsTellHistories` | `AgentSpec => []TranscriptTellsHistory` |
| `PromptsStayInOrder` | `AgentSpec => []PromptsInOrder` |

`ValidInv` says that a turn runs alone, in the session that is open (`Alone`), and
that the history can be sent unless that turn has put its calls there and not yet
their results (`Sendable`). What a history is rebuilt from is a transcript, so
something has to be known of those: a reply with calls is there once, its results
once and after it (`Ordered`), which holds since a reply has a number of its own and
a turn that is dealing with calls has not written their results (`Due`). Cut before
its first calls without results, such a transcript can be sent
(`RebuiltIsAnswerable`). `Faithful` says how far transcript and history are apart while
a turn runs (`Pace`): the transcript is ahead by a prompt or a reply that is not yet
remembered, both have calls without results, or the transcript has these and the history not. That the
three meet again needs what a line more does to what is told (`ToldMore`, `ToldCalls`,
`ToldRound`): calls are left out until their results come, and then are in their
place. `OnlyPrompts` says that what waits was typed after all that is in a
transcript or is about to be. `RequestIsValid` holds until turns overlap or results
are lost, `TranscriptTellsHistory` until a hang-up has also kept a line from being
remembered (`torn`); a restart sets that right, and so does a `/clear` while no turn
runs.

`GossipProofs` proves, for all hosts, peers, agents, tasks, stamps and batch limits:

| theorem | statement |
|---|---|
| `TypeCorrect` | `Spec => []TypeOK` |
| `HostsAgree` | `~SameSecond` gives `Spec => []BoardsAgree` |
| `FoldIsTheView` | `~SameSecond` gives `Spec => []FoldIsViewOfSet` |
| `CompactionKeeps` | `Spec => []OnlyTheWindowLoses` |

With `SameSecond` the second and third are false: announcements of a task in the same
second have no tie-break. Scan, merge and partition are recursions over the lines
of a board, and what each computes is proved by induction over them: a scan by
`(ts, id)` ends with an entry that no other of its set beats and that stands first
with its id (`ScanNewer`, `NewerFirst`), a merge hands on only lines that stand first
with theirs (`MergeFirsts`), a partition keeps exactly the lines of other tasks
(`WithoutSet`). That boards with the same ids show the same tasks is not inductive,
since entries may share an id without being equal. The invariants say why it does
not matter: an entry was minted on one host, and of those that share its id the
first on that host's board is the one that every board has first, until a
compaction has taken one of them away (`Lead`); and entries that share an id agree
in all that is hashed, so that they stand in the same place of the fold (`Minted`). For compaction, `Kept` says
that an entry of a task without a result is on the board where it was posted, in
the lines that a compaction under way is about to keep, or was appended behind its
back (`raced`).

`ViewersProofs` proves `RingExact`, which is `Spec => []RingIsExact`, for any capacity,
plain part, chunks and frames, any writes and any viewers. Its invariant `RingInv`
says of the ring as a value that every byte of every chunk and every plain byte is
the one its position calls for (`InPlace`), counted from what was written before
this daemon came, and that no more is kept than fits, and all but the slack of a
chunk once anything has gone (`Bounded`). `compact` keeps it since chunks are cut
from the front of the plain bytes in order (`CutKeeps`, `CompactKeeps`), eviction
since chunks go whole from the oldest on (`DropKeeps`, `DropPlainKeeps`,
`EvictKeeps`), a write larger than the ring since only its tail survives
(`RefillKeeps`). A read is then exact: division finds the chunk and the place in it
(`Division`, `ByteOfChunk`), for the inflated chunks and for the plain bytes
(`ChunksFromIs`, `PlainFromIs`, `SinceIsExact`). All products are of the form
`Span(n)`, whose few laws are proved once.

On that rests what is proved of the connections, for any number of viewers, any
writes and any `Scenario`:

| theorem | statement |
|---|---|
| `TypeCorrect` | `Spec => []TypeOK` |
| `InOrder` | `Spec => []SentInOrder` |
| `PageIsExact` | `Spec => []ExactPage` |
| `PreviewFirst` | `Spec => []PreviewComesFirst` |

None is inductive. `ViewersInv` says in addition: of the cached frame and every
frame under way, that it is one that `since` gave at some time, with the newest bytes
before its end, all of its range unless some of that has gone from the ring
(`Sendable`), which a frame stays when bytes are added (`PushKeepsFine`) and which a
frame taken from the cache therefore is for whoever takes it; of what a connection
sends, that its frames are in order and not only neighbours joined (`Ordered`: the
property speaks of neighbours, and what it says of the rest would take an induction
each time); of a page that counts as the ring does, that its offset is the number of
bytes it has, and that a preview under way comes before any of them (`Counts`); of a
page without gaps, that what it has is the text of the first bytes, given the frames' ends
(`Text`, `cuts`), its queue goes on from there
and its connection from where the queue ends (`Shows`). What a frame adds to the text
depends only on its own two ends, whether other frames end within a character or not
(`CutBefore`, `CutWithin`), so that the text of a prefix stays what it is and grows by
the frame decoded (`TextGrows`). A connection that is lost
takes with it what was under way, and what is left is still of this form, which is
why a return with `?since=` has neither a gap nor a byte twice. Only a
page that came when bytes had aged out is outside of it (`exact`, `whole`).

`DaemonProofs` proves two parts of the daemon. Of `Journal`, for all sets of decisions,
titles, verdicts and threads:

| theorem | statement |
|---|---|
| `TypeCorrect` | `JournalSpec => []JournalTypeOK` |
| `OneCard` | `JournalSpec => []OneCardPerId` |
| `VerdictKept` | `JournalSpec => []VerdictStands` |

Neither property is inductive: the file says nothing while it is truncated. The
invariant lets the file speak only while nobody writes it, and otherwise the
memory of its only writer (`Carried`), which has every card and verdict that the
file had, edited in one place (`Prepared`); and an edit by an append never meets a
verdict (`Harmless`). All of it holds until `hurt`.

Of `Tabs`, for all clients, requests, restarts and lengths of the queues:

| theorem | statement |
|---|---|
| `TabsTyped` | `Spec => []TypeOK` |
| `LocksHold` | `Spec => []LastLockWins` |
| `LockedStaysQuiet` | `Spec => LockedTabGetsNoInput` |
| `StopKeeps` | `Spec => []FinalStateKept` |

`TabsInv` says of every list of tabs that is kept anywhere, the
loop's, the file's and those queued for the writer, that it is one a daemon may
start with (`Proper`: no uuid twice, none that was not given out, an active tab that
exists), so that a crash finds nothing else whatever it finds; and that a uuid not
given out has no lock (`Remembered`). The closes of a drain are a recursion over
positions: that it leaves whole tabs, some of those that were there, and a selection
among them (`Remains`) holds of one close (`CloseKeeps`) and so of all
(`ClosedKeeps`). What is typed comes after the locks that were taken with it
(`DrainedTabs`), and these are what had been answered by then (`heard`), which is why
input that was accepted before such a lock stays out; the theorem says nothing of a lock
that is answered later, before the typing. After
a stop the writer has nothing left (`NothingLeft`), and handlers reach the queues
and the snapshot only.

`QosProofs` proves `RefusalRespected`, which is `Spec => []QuietWhileRefused`, for all
accounts, calls, answers and periods. The invariant adds that an answer under way
that refuses lasts at least as long as the refusal that is on (`RefusalsLast`), so
that a late one, heard of in any order, never shortens the backoff below it. It also
proves `TypeCorrect`, `Spec => []TypeOK`: no budget and no number of calls falls below
0, and credit is a number. The second is the harder half, since `accrue` divides by the
weights of a round: that these add up to more than 0 is proved of the community
modules' fold by induction over the size of a set (`AddsExists`, `AddsIsPositive`,
`WeightsAddUp`), and that a round is not empty holds since only those that are in it
get a share (`SliceType`).

`RemoteProofs` proves `MirrorExact`, which is `Spec => []MirrorIsExact`, for any tabs,
outputs, failures and numbers of events under way. The events form a chain: each
output, drawn on what the one before it left, gives what the host had. The thread
adds a link at the end, from what it says that it has (`ChainGrows`; the answer drawn
on that is all there is, `AnswerGivesAll`), also when it is another tab's output,
and `attach` draws the first (`ChainIsDrawn`). Inductive it is with the types and
with the fact that `attach` has a list before any output (`ListFirst`).
`KeysKept` is `Spec => []KeysAreAccounted`, for any number of keys, failures, requests
served late and tabs that close.
Its invariant `KeyInv` says that the channel holds the keys from the last one taken to
the last one forwarded, in order, and a `Shutdown` only behind them (`Queued`); that each
key taken has reached a tab or its request failed, and of those that reached one out of
order the request failed (`Served`); that a `Shutdown` is sent by an `attach` that is gone, and then nothing
is typed any more, since `attach` joins the keyboard's thread before, or never began it
(`Ending`); and that each failure is told or has its event under way while `attach`
watches (`Heard`).

`BrainProofs` proves, for any finite fleet in any order, any patterns, lengths of time
and numbers of faults:

| theorem | statement |
|---|---|
| `TypeCorrect` | `Spec => []TypeOK` |
| `BackoffHolds` | `Spec => NotHammered` |
| `HeartbeatHolds` | `Spec => CappedIsSpaced` |

Both are about what was tried, which the watchdog does not remember; the invariants
tie the history to what it does. `Restraint` says that outside of a POST a tab's
episode and its watch tell the same error and streak, and that the time since the
last try and the time left to wait make up the backoff (`Paced`); that whatever is
eligible has nothing left to wait (`Ready`), also if its tab is looked at twice;
and that what is about to be sent is due (`Due`). `Spaced` says that the heartbeat,
stamped before the POST, is never older than the last nudge of a capped fleet.

Of constants only what the modules assume by name is used (`TextAssumption`: a sequence
is a mode as a whole; `SizeAssumption`: there
is room for a byte, and a chunk is at least a byte and at most the plain part;
`JournalAssumption`; `AgentAssumption`; `CallAssumption`, with finitely many accounts; `PeriodAssumption`; `TabAssumption`; `BrainAssumption`).

Induction. The library's induction theorems take operators as parameters, which no
prover here instantiates. `GossipProofs`, `DaemonProofs`,
`FleetProofs` and `QosProofs` prove what they need of it
with sets and functions instead, from the fact that `<` on the naturals is
well-founded: a property is the set of numbers that have it (`Induction`), a step of
a recursion is a function (`Recursion`), and two functions that obey one recursion
agree (`SameOutcome`). The models write recursions as recursive functions for it.

One of tlapm 1.4.5's axioms for SMT, which gives every function a domain of the form
`1..n` where lengths of sequences occur, is too strong. The proofs do not rest on
it: all of them have been checked with that axiom taken out, too, for which steps
about sequences cite the library's theorems (`SeqDef`, `LenProperties`,
`ConcatProperties`).

Model-checked only: `Claims` with restarts, and all liveness.
Liveness under fairness and `ENABLED` are out of the prover's reach.

## 6. Plan

Extensions, in order:

1. `Fleet`: the verbs `announce`, `bid`, `award --to`; an abstract specification "one
   worker per lease" for it.
2. `Tabs`: rename by position, share tokens, the schedule's lock, and the
   desktop's drain; respawned tabs under `Viewers`.
3. Routing: the choice of a provider, with the backoff per provider, above `Qos`,
   and upstream's own count of tokens.
4. `Gossip`: the abstract specification of a grow-only set that rounds implement
   as long as nothing is compacted.

Theorems: the registry with orderly restarts of one thread. Bounds stay as they are, in the order of a million states.

### Not modelled

Rendering, the desktop's input and the command line; wrappers of the kernel
(cgroups, nftables, process groups); stateless parsing and replies of the HTTP
layer; rewriting, translating and capturing of bodies in the proxy; and projections
that keep no state of their own. They are most of the repository's lines. What can
go wrong in them is a matter of text, pictures and system calls, which a model of
states and steps would only repeat. What is left out of modules that are there is
said in the notes of `PROJECT.json`.

## 7. Running

    tlc -config ClaimsConcurrent.cfg MCClaims
    tlapm ClaimsProofs.tla

`PROJECT.json` names the module and configuration of each run.

--------------------------------- MODULE Agent ---------------------------------
(***************************************************************************)
(* The catbus agent: the turn loop of crates/catbus-agent/src/agent.rs, as *)
(* driven by the REPL (tui/app.rs) and by the clients of its socket        *)
(* (socket.rs), which share one conversation.                              *)
(*                                                                         *)
(* A conversation is kept twice: as the history in memory, which every     *)
(* request to the model carries, and as the transcript on disk, from which *)
(* the history is rebuilt.  A turn adds to both, at different times, and   *)
(* may end at almost every await.                                          *)
(***************************************************************************)
EXTENDS Integers, SequencesExt

CONSTANTS
    Session,            \* transcripts, enough for every /clear to find an empty one
    Socket,             \* connections to the socket
    Repl,               \* the terminal
    MaxRounds,          \* CATBUS_MAX_ROUNDS
    MaxContinuations,   \* CATBUS_MAX_CONTINUATIONS
    QueueLimit,         \* QUEUE_LIMIT
    Scenario            \* bound: what may happen, of which a behaviour has one: [lines: what is
                        \* typed; replies: what the model says; typed, prompts, clears, hangups,
                        \* cancels, errors, faults, restarts: how often it happens]

Driver == Socket \cup {Repl}

Bounds == [lines : SUBSET {"prompt", "clear", "resume"}, replies : SUBSET {"text", "cut", "calls", "loop"},
           typed : Nat, prompts : Nat, clears : Nat, hangups : Nat, cancels : Nat, errors : Nat,
           faults : Nat, restarts : Nat]

ASSUME AgentAssumption ==
    /\ Repl \notin Socket /\ Session # {}
    /\ MaxRounds \in Nat /\ MaxContinuations \in Nat /\ QueueLimit \in Nat
    /\ Scenario \subseteq Bounds

VARIABLES
    transcript, \* per session, the lines of its file
    active,     \* the session and the history in memory; from: lines there were when it was opened
    turn,       \* per driver, the turn it runs
    slot,       \* whose cancellation token is in Agent.cancel
    queue,      \* lines typed that wait for a turn to end
    serial,     \* history: lines, prompts and replies so far, which number them
    torn,       \* history: what was done to the history in memory: "short", it lacks what the
                \* transcript has; "broken", turns overlapped or results were lost
    left        \* what is left of the scenario

conversation == <<transcript, active, turn, slot, queue, serial, torn, left>>

Message(kind, id, of) == [kind |-> kind, id |-> id, of |-> of]

NoReply == Message("none", 0, Repl)

\* pc: where the turn is.  reply: the model's, while it is being dealt with;
\* calls: its tool calls to come; stop: the loop guard refuses them.
NoTurn == [pc |-> "idle", prompt |-> 0, session |-> CHOOSE s \in Session : TRUE, reply |-> NoReply,
           calls |-> 0, stop |-> FALSE, rounds |-> 0, continued |-> 0, tripped |-> FALSE]

\* run_user_prompt has been entered and not left.
Running(d) == turn[d].pc \notin {"idle", "spawned", "over"}

\* The REPL waits in `turn` for what it has spawned.
InFlight == turn[Repl].pc # "idle"

----------------------------------------------------------------------------
(* Transcript and history.                                                 *)

ResultsOf(m) == [m EXCEPT !.kind = "results"]

\* A reply with tool calls whose next message is not their results.
Orphans(h) == {i \in DOMAIN h : h[i].kind = "calls" /\ ~(i < Len(h) /\ h[i + 1] = ResultsOf(h[i]))}

\* Variants ending in _x are bugs this code could have; nothing uses them.

\* What is killed in the middle of a tool is loaded as it is.
Rebuild_x(t) == t

\* rebuild_history, truncate_at_orphan_tool_use.
Rebuild(t) ==
    IF Orphans(t) = {} THEN t
    ELSE SubSeq(t, 1, (CHOOSE i \in Orphans(t) : \A j \in Orphans(t) : i <= j) - 1)

Open(s) == [session |-> s, history |-> Rebuild(transcript[s]), from |-> Len(transcript[s])]

AgentInit ==
    /\ transcript = [s \in Session |-> <<>>]
    /\ active = [session |-> CHOOSE s \in Session : TRUE, history |-> <<>>, from |-> 0]
    /\ turn = [d \in Driver |-> NoTurn]
    /\ slot = Repl /\ queue = <<>> /\ serial = 0 /\ torn = {}
    /\ left \in Scenario

Spend(o) == left[o] > 0 /\ left' = [left EXCEPT ![o] = @ - 1]

At(d, pc) == turn' = [turn EXCEPT ![d].pc = pc]

\* The turn ends, well or not: its handle is joined by the REPL's loop.
End(d) == turn' = [turn EXCEPT ![d] = [NoTurn EXCEPT !.pc = IF d = Repl THEN "over" ELSE "idle"]]

Remembered(m) == active' = [active EXCEPT !.history = Append(@, m)]

Recorded(d, m) == transcript' = [transcript EXCEPT ![turn[d].session] = Append(@, m)]

----------------------------------------------------------------------------
(* The REPL.                                                               *)

\* start: the turn runs in a task of its own.
Spawned(d, id) == turn' = [turn EXCEPT ![d] = [NoTurn EXCEPT !.pc = "spawned", !.prompt = id]]

\* clear, swap_session.  A turn that runs keeps the session it began with.
SwapTo(s) == active' = Open(s) /\ torn' = IF \E d \in Driver : Running(d) THEN {"broken"} ELSE {}

Fresh == {s \in Session : s # active.session /\ transcript[s] = <<>>}

\* run_line.  A swap is over at once and starts no turn.
RunLine(line) ==
    \/ line.cmd = "prompt" /\ Spawned(Repl, line.id) /\ UNCHANGED <<active, torn>>
    \/ line.cmd = "clear" /\ (\E s \in Fresh : SwapTo(s)) /\ At(Repl, "idle")
    \/ line.cmd = "resume" /\ (\E s \in Session \ Fresh : SwapTo(s)) /\ At(Repl, "idle")

\* submit_action: a line is refused when enough waits.
Waiting(line) == IF Len(queue) < QueueLimit THEN Append(queue, line) ELSE queue

\* A prompt is run at once though a turn is in flight.
Submit_x(cmd) ==
    /\ cmd \in left.lines /\ Spend("typed")
    /\ serial' = serial + 1
    /\ LET line == [cmd |-> cmd, id |-> serial + 1]
       IN  \/ (~InFlight \/ turn[Repl].pc = "over") /\ RunLine(line) /\ UNCHANGED queue
           \/ InFlight /\ turn[Repl].pc # "over" /\ Len(queue) < QueueLimit /\ queue' = Append(queue, line)
              /\ UNCHANGED <<active, turn, torn>>
    /\ UNCHANGED <<transcript, slot>>

\* submitted: what would disturb the turn in flight waits for its end.
Submit(cmd) ==
    /\ cmd \in left.lines /\ Spend("typed")
    /\ serial' = serial + 1
    /\ LET line == [cmd |-> cmd, id |-> serial + 1]
       IN  \/ ~InFlight /\ RunLine(line) /\ UNCHANGED queue
           \/ /\ InFlight
              /\ queue' = Waiting(line)
              /\ UNCHANGED <<active, turn, torn>>
    /\ UNCHANGED <<transcript, slot>>

\* What waits is forgotten when a turn ends.
Finished_x ==
    /\ turn[Repl].pc = "over" /\ At(Repl, "idle")
    /\ UNCHANGED <<transcript, active, slot, queue, serial, torn, left>>

\* finished: one line that waited is run now.
Finished ==
    /\ turn[Repl].pc = "over"
    /\ IF queue = <<>>
       THEN At(Repl, "idle") /\ UNCHANGED <<active, queue, torn>>
       ELSE RunLine(Head(queue)) /\ queue' = Tail(queue)
    /\ UNCHANGED <<transcript, slot, serial, left>>

\* cancel: Ctrl-C trips the token in the slot.  A turn that has not put its
\* own there yet does not hear of it.
Cancel ==
    /\ InFlight /\ Spend("cancels")
    /\ turn' = IF Running(slot) THEN [turn EXCEPT ![slot].tripped = TRUE] ELSE turn
    /\ UNCHANGED <<transcript, active, slot, queue, serial, torn>>

----------------------------------------------------------------------------
(* A socket client.                                                        *)

Prompt(c) ==
    /\ turn[c].pc = "idle" /\ Spend("prompts")
    /\ serial' = serial + 1 /\ Spawned(c, serial + 1)
    /\ UNCHANGED <<transcript, active, slot, queue, torn>>

\* Only a turn of this connection is in the way.
Clear(c) ==
    /\ turn[c].pc = "idle" /\ Spend("clears")
    /\ \E s \in Fresh : SwapTo(s)
    /\ UNCHANGED <<transcript, turn, slot, queue, serial>>

\* The turn is dropped at the await it is at: the model's answer, a tool, or
\* the lock of the history.
HangUp(c) ==
    /\ Running(c) /\ turn[c].pc \notin {"ask", "record"} /\ Spend("hangups")
    /\ End(c)
    /\ torn' = torn \cup (IF turn[c].pc \in {"remember", "said"} THEN {"short"}
                         ELSE IF turn[c].pc = "results" THEN {"broken"} ELSE {})
    /\ UNCHANGED <<transcript, active, slot, queue, serial>>

----------------------------------------------------------------------------
(* A turn.                                                                 *)

\* A fresh token, the session of now, and the prompt in its transcript.
Begin(d) ==
    /\ turn[d].pc = "spawned"
    /\ slot' = d
    /\ turn' = [turn EXCEPT ![d].pc = "remember", ![d].session = active.session]
    /\ transcript' = [transcript EXCEPT ![active.session] = Append(@, Message("prompt", turn[d].prompt, d))]
    /\ torn' = IF \E e \in Driver \ {d} : Running(e) THEN torn \cup {"broken"} ELSE torn
    /\ UNCHANGED <<active, queue, serial, left>>

\* The disk is full: the turn is over before it began.
BeginFails(d) ==
    /\ turn[d].pc = "spawned" /\ Spend("faults")
    /\ slot' = d /\ End(d)
    /\ UNCHANGED <<transcript, active, queue, serial, torn>>

Remember(d) ==
    /\ turn[d].pc = "remember"
    /\ Remembered(Message("prompt", turn[d].prompt, d)) /\ At(d, "ask")
    /\ UNCHANGED <<transcript, slot, queue, serial, torn, left>>

\* What the API takes: the results of every tool call come next, and nothing
\* else is a result.
Answerable(h) ==
    /\ Orphans(h) = {}
    /\ \A i \in DOMAIN h : h[i].kind = "results" => i > 1 /\ h[i] = ResultsOf(h[i - 1])

\* The next round, or the end of them.  What the API does not take it
\* answers with an error.
Ask(d) ==
    /\ turn[d].pc = "ask"
    /\ IF turn[d].rounds = MaxRounds \/ turn[d].tripped THEN End(d)
       ELSE At(d, IF Answerable(active.history) THEN "waiting" ELSE "refused")
    /\ UNCHANGED <<transcript, active, slot, queue, serial, torn, left>>

Refused(d) == turn[d].pc = "refused" /\ End(d) /\ UNCHANGED <<transcript, active, slot, queue, serial, torn, left>>

\* The model's reply goes to the transcript as it comes: words, words cut off
\* at the output limit, or tool calls, which the loop guard may refuse.
Reply(d) ==
    /\ turn[d].pc = "waiting"
    /\ serial' = serial + 1
    /\ \E says \in left.replies :
        LET reply == Message(IF says = "loop" THEN "calls" ELSE says, serial + 1, d)
        IN  /\ Recorded(d, reply)
            /\ turn' = [turn EXCEPT ![d].pc = IF reply.kind = "calls" THEN "tool" ELSE "said",
                                    ![d].reply = reply, ![d].stop = (says = "loop"),
                                    ![d].calls = IF reply.kind = "calls" THEN 1 ELSE 0]
    /\ UNCHANGED <<active, slot, queue, torn, left>>

\* It cannot be written.
ReplyFails(d) ==
    /\ turn[d].pc = "waiting" /\ Spend("faults")
    /\ End(d)
    /\ UNCHANGED <<transcript, active, slot, queue, serial, torn>>

\* The provider fails for good.
ProviderFails(d) ==
    /\ turn[d].pc = "waiting" /\ Spend("errors")
    /\ End(d)
    /\ UNCHANGED <<transcript, active, slot, queue, serial, torn>>

\* cancelled() wins the select!.
HearCancel(d) ==
    /\ turn[d].pc \in {"waiting", "running"} /\ turn[d].tripped
    /\ End(d)
    /\ UNCHANGED <<transcript, active, slot, queue, serial, torn, left>>

\* Words: the turn is done, unless they were cut off and may be continued.
Said(d) ==
    /\ turn[d].pc = "said"
    /\ Remembered(turn[d].reply)
    /\ IF turn[d].reply.kind = "cut" /\ turn[d].continued < MaxContinuations THEN At(d, "cue") ELSE End(d)
    /\ UNCHANGED <<transcript, slot, queue, serial, torn, left>>

\* The cue is for the model alone: it is not in the transcript.
Cue(d) ==
    /\ turn[d].pc = "cue"
    /\ Remembered(Message("cue", turn[d].reply.id, d))
    /\ turn' = [turn EXCEPT ![d].pc = "ask", ![d].continued = @ + 1, ![d].rounds = @ + 1, ![d].reply = NoReply]
    /\ UNCHANGED <<transcript, slot, queue, serial, torn, left>>

\* The next call: not run if the guard refuses it, nor once cancelled.
StartTool(d) ==
    /\ turn[d].pc = "tool" /\ turn[d].calls > 0
    /\ IF turn[d].tripped THEN End(d)
       ELSE IF turn[d].stop THEN turn' = [turn EXCEPT ![d].calls = @ - 1]
       ELSE At(d, "running")
    /\ UNCHANGED <<transcript, active, slot, queue, serial, torn, left>>

\* It returns, or fails, which is a result too.
FinishTool(d) ==
    /\ turn[d].pc = "running"
    /\ turn' = [turn EXCEPT ![d].pc = "tool", ![d].calls = @ - 1]
    /\ UNCHANGED <<transcript, active, slot, queue, serial, torn, left>>

\* All have results: only now the calls go to the history, ...
Called(d) ==
    /\ turn[d].pc = "tool" /\ turn[d].calls = 0
    /\ Remembered(turn[d].reply) /\ At(d, "record")
    /\ UNCHANGED <<transcript, slot, queue, serial, torn, left>>

\* ... then the results to the transcript, ...
Record(d) ==
    /\ turn[d].pc = "record"
    /\ Recorded(d, ResultsOf(turn[d].reply)) /\ At(d, "results")
    /\ UNCHANGED <<active, slot, queue, serial, torn, left>>

\* (if they cannot be written, the history is left with the calls)
RecordFails(d) ==
    /\ turn[d].pc = "record" /\ Spend("faults")
    /\ End(d) /\ torn' = torn \cup {"broken"}
    /\ UNCHANGED <<transcript, active, slot, queue, serial>>

\* A refused round goes into the transcript only.
Results_x(d) ==
    /\ turn[d].pc = "results"
    /\ IF turn[d].stop THEN End(d) /\ UNCHANGED active
       ELSE /\ Remembered(ResultsOf(turn[d].reply))
            /\ turn' = [turn EXCEPT ![d].pc = "ask", ![d].rounds = @ + 1, ![d].reply = NoReply]
    /\ UNCHANGED <<transcript, slot, queue, serial, torn, left>>

\* ... and to the history.  A loop that learns nothing more ends here.
Results(d) ==
    /\ turn[d].pc = "results"
    /\ Remembered(ResultsOf(turn[d].reply))
    /\ \/ End(d)
       \/ ~turn[d].stop /\ turn' = [turn EXCEPT ![d].pc = "ask", ![d].rounds = @ + 1, ![d].reply = NoReply]
    /\ UNCHANGED <<transcript, slot, queue, serial, torn, left>>

\* The process dies, and the tab's next one resumes the session.
Restart ==
    /\ Spend("restarts")
    /\ active' = Open(active.session)
    /\ turn' = [d \in Driver |-> NoTurn]
    /\ slot' = Repl /\ queue' = <<>> /\ torn' = {}
    /\ UNCHANGED <<transcript, serial>>

Step(d) ==
    \/ Begin(d) \/ Remember(d) \/ Ask(d) \/ Refused(d) \/ Reply(d) \/ HearCancel(d) \/ Said(d) \/ Cue(d)
    \/ StartTool(d) \/ FinishTool(d) \/ Called(d) \/ Record(d) \/ Results(d)

Trouble(d) == BeginFails(d) \/ ReplyFails(d) \/ RecordFails(d) \/ ProviderFails(d)

AgentNext ==
    \/ \E cmd \in {"prompt", "clear", "resume"} : Submit(cmd)
    \/ Finished \/ Cancel \/ Restart
    \/ \E c \in Socket : Prompt(c) \/ Clear(c) \/ HangUp(c)
    \/ \E d \in Driver : Step(d) \/ Trouble(d)

AgentSpec == AgentInit /\ [][AgentNext]_conversation

\* A model answers or times out, a tool ends or times out, and the REPL's loop
\* joins its turn.
AgentFairSpec == AgentSpec /\ WF_conversation(Finished) /\ \A d \in Driver : WF_conversation(Step(d))

----------------------------------------------------------------------------

Msg == [kind : {"none", "prompt", "text", "cut", "calls", "results", "cue"}, id : Nat, of : Driver]

Turn == [pc : {"idle", "spawned", "remember", "ask", "waiting", "refused", "said", "cue", "tool", "running",
               "record", "results", "over"},
         prompt : Nat, session : Session, reply : Msg, calls : 0..1, stop : BOOLEAN,
         rounds : 0..MaxRounds, continued : 0..MaxContinuations, tripped : BOOLEAN]

Line == [cmd : {"prompt", "clear", "resume"}, id : Nat]

AgentTypeOK ==
    /\ transcript \in [Session -> Seq(Msg)]
    /\ active \in [session : Session, history : Seq(Msg), from : Nat]
    /\ active.from <= Len(transcript[active.session])
    /\ turn \in [Driver -> Turn]
    /\ slot \in Driver /\ serial \in Nat /\ torn \subseteq {"short", "broken"}
    /\ queue \in Seq(Line) /\ Len(queue) <= QueueLimit /\ left \in Bounds

\* "The API rejects a history in which a tool_use has no matching tool_result":
\* whatever ended earlier turns, wherever it ended them, and whatever the
\* history was rebuilt from, no request is refused for it; unless turns
\* overlapped, or results were lost at the disk or the history's lock.
RequestIsValid == "broken" \notin torn => \A d \in Driver : turn[d].pc = "ask" => Answerable(active.history)

\* What is at some of the positions, in order.
Chosen(s, keep) ==
    LET taken[n \in 0..Len(s)] ==
            IF n = 0 THEN <<>> ELSE IF n \in keep THEN Append(taken[n - 1], s[n]) ELSE taken[n - 1]
    IN  taken[Len(s)]

Spoken(h) == Chosen(h, {i \in DOMAIN h : h[i].kind # "cue"})
WithoutOrphans(t) == Chosen(t, {i \in DOMAIN t : t[i].kind = "calls" => ResultsOf(t[i]) \in ToSet(t)})

\* What a history tells that was rebuilt when the transcript had n lines.
Told(t, n) == Rebuild(SubSeq(t, 1, n)) \o WithoutOrphans(SubSeq(t, n + 1, Len(t)))

\* Between turns the history is what it was rebuilt from and what the
\* transcript has got since, without calls that were never answered: nothing
\* is in one and not in the other, but for the cues.
TranscriptTellsHistory ==
    torn = {} /\ (\A d \in Driver : ~Running(d)) =>
        Spoken(active.history) = Told(transcript[active.session], active.from)

\* "Rebuilds the in-memory history from the new transcript so the model has
\* full context": a resume brings back what the model was told between turns.
ResumeBringsAllBack ==
    torn = {} /\ (\A d \in Driver : ~Running(d)) =>
        Rebuild(transcript[active.session]) = Spoken(active.history)

Asked(m) == m.kind = "prompt" /\ m.of = Repl

\* "A prompt queues while a turn is in flight, so the transcript stays in the
\* order things were asked": of those typed, while only prompts are.  (After a
\* command that waited, what waits behind it is left to wait, and a prompt
\* typed then overtakes it.)
PromptsInOrder ==
    left.lines = {"prompt"} =>
        \A s \in Session : \A i, j \in DOMAIN transcript[s] :
            i < j /\ Asked(transcript[s][i]) /\ Asked(transcript[s][j]) => transcript[s][i].id < transcript[s][j].id

\* "This ends the turn and the queue carries on": what waits is run, whatever
\* becomes of the turn before it.
PromptsDrain == left.lines = {"prompt"} => <>[](queue = <<>>)
=============================================================================

------------------------------- MODULE MCAgent -------------------------------
(***************************************************************************)
(* Instances of Agent for TLC.                                             *)
(***************************************************************************)
EXTENDS Agent

CONSTANTS s1, s2, s3, repl, web

Nothing == [lines |-> {"prompt"}, replies |-> {"text", "calls"}, typed |-> 0, prompts |-> 0, clears |-> 0, hangups |-> 0,
            cancels |-> 0, errors |-> 0, faults |-> 0, restarts |-> 0]

\* Everything a model may say, with an error or a cancellation.
Rounds == [Nothing EXCEPT !.replies = {"text", "cut", "calls", "loop"}, !.typed = 2, !.cancels = 1, !.errors = 1]

\* More is typed than may wait, over turns that fail or are cancelled.
Typing == [Nothing EXCEPT !.replies = {"calls"}, !.typed = 4, !.cancels = 1, !.errors = 1]

\* Sessions are left and resumed, over a restart.
Sessions == [Nothing EXCEPT !.lines = {"prompt", "clear", "resume"}, !.typed = 3, !.restarts = 1]

\* A cancelled turn leaves calls without results in the transcript.
Cancelled == [Nothing EXCEPT !.lines = {"prompt", "resume"}, !.typed = 3, !.cancels = 1, !.restarts = 1]

\* A socket client hangs up, clears, comes back; the disk fails once.
Web == [Nothing EXCEPT !.prompts = 3, !.clears = 1, !.hangups = 1, !.faults = 1, !.restarts = 1]

\* The terminal and the socket at once.
Both == [Nothing EXCEPT !.typed = 1, !.prompts = 1, !.cancels = 1]

Interrupted == {[Nothing EXCEPT !.typed = 2, !.cancels = 1]}
Scenarios == {Rounds, Typing, Sessions, Cancelled, Web, Both}
=============================================================================

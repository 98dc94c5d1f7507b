----------------------------- MODULE ConsoleRun -----------------------------
(***************************************************************************)
(* The console phase of `ostool run` and `ostool board run`: a terminal    *)
(* loop reads the output of QEMU or of a board's serial line in chunks,    *)
(* looks for the global fail patterns, drives the ordered shell checks     *)
(* (prompt, command, result), and a runner turns what happened into one    *)
(* result.  Three runners share it: "qemu" owns a child process, "uboot"   *)
(* and "httpboot" own a serial stream.                                     *)
(*                                                                         *)
(* Output is a sequence of letters that arrives in chunks cut anywhere; a  *)
(* pattern is a sequence of letters, in place of a regular expression.     *)
(***************************************************************************)
EXTENDS Integers, Sequences, FiniteSets, FiniteSetsExt

CONSTANTS
  Letters,        \* the alphabet of the output
  CheckConfigs,   \* shell_check_steps as the configuration file gives them
  FailPatterns,   \* the top-level fail_regex
  Runners,        \* runners to check, out of {"qemu", "uboot", "httpboot"}
  HistoryMax,     \* max_len of retain_boundary_history
  MatchWindow,    \* MAX_MATCH_WINDOW_BYTES
  PendingLimit,   \* SHELL_CHECK_PENDING_OUTPUT_LIMIT
  CommandChunks,  \* chunks of one command, SHELL_CHECK_CHUNK_SIZE
  None,
  MaxOutput,      \* bound: letters of output
  MaxChunk,       \* bound: letters of one chunk
  MaxKeys         \* bound: key strokes, not counting a Ctrl-A that is held back

Text == Seq(Letters)
\* A step as the file gives it: `prefix` is None when it is omitted, <<>> when it is empty.
RawStep ==
  [prefix : Text \cup {None}, command : BOOLEAN, success : SUBSET Text, fail : SUBSET Text, timed : BOOLEAN]

ASSUME ConsoleAssumption ==
  /\ HistoryMax \in Nat /\ MatchWindow \in Nat /\ PendingLimit \in Nat
  /\ CommandChunks \in Nat \ {0} /\ MaxOutput \in Nat /\ MaxChunk \in Nat /\ MaxKeys \in Nat
  /\ Runners \subseteq {"qemu", "uboot", "httpboot"}
  /\ None \notin Text /\ None \notin {"Ok", "Err"}
  /\ CheckConfigs \subseteq Seq(RawStep) /\ FailPatterns \subseteq Text

VARIABLES
  runner,    \* which runner this is
  steps,     \* the resolved steps; <<>> when the run has no shell check
  matcher,   \* ShellCheckMatcher
  outcome,   \* ShellCheckDriverOutcome
  window,    \* FailStreamMatcher::match_buf
  failMatch, \* "none", "matched", or "due" when the drain of the match is over
  sender,    \* the task of send_after_chunks_then: the chunk it sends next
  queue,     \* outbound channel: the chunks of commands and the user's keys
  writer,    \* the task that writes them: its state, and the event its callback still has to handle
  timers,    \* steps whose timeout task sleeps
  expired,   \* steps whose timeout task has won and has not recorded the failure yet
  term,      \* TerminalState and the terminal loop
  child,     \* the QEMU process, or the serial stream of the other runners
  runnerStage,     \* where the runner is
  result,    \* what it returns
  seen,      \* history: all the output the loop has read
  rest,      \* history: the output since the matcher's phase began
  sent,      \* history: commands written to the last chunk
  keys       \* key strokes used up

vars == <<runner, steps, matcher, outcome, window, failMatch, sender, queue, writer, timers,
          expired, term, child, runnerStage, result, seen, rest, sent, keys>>

-----------------------------------------------------------------------------
(* Patterns.                                                               *)

EndOf(t, n) == SubSeq(t, Max({Len(t) - n + 1, 1}), Len(t))
\* Where the occurrences of the patterns P in t end.
Ends(P, t) ==
  {e \in 1..Len(t) : \E p \in P : Len(p) <= e /\ SubSeq(t, e - Len(p) + 1, e) = p}
Found(P, t) == Ends(P, t) # {}
After(P, t) == SubSeq(t, Min(Ends(P, t)) + 1, Len(t))

-----------------------------------------------------------------------------
(* The configuration of the steps.                                         *)

Inherited(raw, k) ==
  LET given == {j \in 1..k : raw[j].prefix # None}
  IN IF given = {} THEN None ELSE raw[Max(given)].prefix
Refused(raw, k) ==
  \/ raw[k].prefix = <<>>
  \/ raw[k].command /\ Inherited(raw, k) = None
  \/ ~raw[k].command /\ raw[k].success = {} /\ raw[k].fail = {}
  \/ raw[k].success = {} /\ raw[k].fail # {}
  \/ ~raw[k].command /\ raw[k].timed
resolve_shell_check_steps(raw) ==
  [k \in 1..Len(raw) |-> [raw[k] EXCEPT !.prefix = Inherited(raw, k)]]
Accepted(raw) == \A k \in 1..Len(raw) : ~Refused(raw, k)

-----------------------------------------------------------------------------
(* ShellCheckMatcher.                                                      *)

Phases == {"WaitingForPrefix", "Sending", "WaitingForResult", "Completed"}
Events == {"None", "Send", "StepCompleted", "SequenceCompleted", "Failed", "LimitExceeded"}
FirstPhase(step) == IF step.command THEN "WaitingForPrefix" ELSE "WaitingForResult"
Matcher == [phase : Phases, cur : Nat, history : Text, pending : Text]

append_pending_output(m, t, event) ==
  IF Len(m.pending) + Len(t) > PendingLimit
    THEN [m |-> [m EXCEPT !.phase = "Completed"], t |-> t, event |-> "LimitExceeded"]
    ELSE [m |-> [m EXCEPT !.pending = @ \o t], t |-> t, event |-> event]

advance(m) ==
  IF m.cur = Len(steps)
    THEN [m |-> [m EXCEPT !.history = <<>>, !.phase = "Completed"], event |-> "SequenceCompleted"]
    ELSE [m |-> [m EXCEPT !.history = <<>>, !.cur = @ + 1, !.phase = FirstPhase(steps[m.cur + 1])],
          event |-> "StepCompleted"]

\* Mutant: a waiting step forgets what it has read of a pattern cut by a chunk.
Mutant_NoHistory(m, t) == [m EXCEPT !.history = <<>>]
retain_boundary_history(m, t) == [m EXCEPT !.history = EndOf(t, HistoryMax)]

\* The loop of process_block: the matcher, the text that is still to be looked
\* at, and the event so far.
ScanState == [m : Matcher, t : Text, event : Events]

\* An iteration that finds the result of the current step: the loop goes on behind it.
ReadsResult(s) ==
  /\ s.m.phase = "WaitingForResult" /\ s.t # <<>>
  /\ ~Found(steps[s.m.cur].fail, s.t) /\ Found(steps[s.m.cur].success, s.t)
NextScan(s) == [m |-> advance(s.m).m, t |-> After(steps[s.m.cur].success, s.t), event |-> advance(s.m).event]
\* What any other iteration returns; t is then what the phase it stops in has
\* looked at without a match.
ScanEnd(s) ==
  LET step == steps[s.m.cur]
  IN IF s.m.phase = "Completed" \/ s.t = <<>> THEN s
     ELSE CASE s.m.phase = "Sending" -> append_pending_output(s.m, s.t, "None")
            [] s.m.phase = "WaitingForPrefix" /\ Found({step.prefix}, s.t) ->
                 append_pending_output([s.m EXCEPT !.phase = "Sending", !.pending = <<>>],
                                       After({step.prefix}, s.t), "Send")
            [] s.m.phase = "WaitingForResult" /\ Found(step.fail, s.t) ->
                 [s EXCEPT !.m.phase = "Completed", !.event = "Failed"]
            [] OTHER -> [s EXCEPT !.m = retain_boundary_history(s.m, s.t)]
Scan[s \in ScanState] == IF ReadsResult(s) THEN Scan[NextScan(s)] ELSE ScanEnd(s)

process_block(m, t) ==
  Scan[[m |-> [m EXCEPT !.history = <<>>], t |-> m.history \o t, event |-> "None"]]

observe_chunk(m, t) ==
  CASE m.phase = "Completed" -> [m |-> m, t |-> <<>>, event |-> "None"]
    [] m.phase = "Sending" -> append_pending_output(m, t, "None")
    [] OTHER -> process_block(m, t)

command_flushed(m) ==
  IF m.phase # "Sending" THEN [m |-> m, t |-> <<>>, event |-> "None"]
  ELSE LET step   == steps[m.cur]
           taken  == [m EXCEPT !.pending = <<>>]
           first  == IF step.success = {} /\ step.fail = {} THEN advance(taken)
                     ELSE [m |-> [taken EXCEPT !.phase = "WaitingForResult"], event |-> "None"]
           queued == process_block(first.m, m.pending)
       IN [queued EXCEPT !.event = IF @ = "None" THEN first.event ELSE @]

-----------------------------------------------------------------------------
(* What runs: the loop of the terminal, the tasks around it, the target.   *)

CommandInputs == {"chunk", "lastChunk"}
Waiting(m) == m.phase \in {"WaitingForPrefix", "WaitingForResult"}
HasChecks == steps # <<>>

Init ==
  /\ runner \in Runners
  /\ \E raw \in CheckConfigs :
       /\ steps = IF Accepted(raw) THEN resolve_shell_check_steps(raw) ELSE <<>>
       /\ runnerStage = IF Accepted(raw) THEN "terminal" ELSE "done"
       /\ result = IF Accepted(raw) THEN None ELSE "Err"
  /\ matcher = [phase |-> IF HasChecks THEN FirstPhase(steps[1]) ELSE "Completed",
                cur |-> 1, history |-> <<>>, pending |-> <<>>]
  /\ outcome = [completed |-> FALSE, failure |-> FALSE]
  /\ window = <<>> /\ failMatch = "none"
  /\ sender = 0 /\ queue = <<>> /\ writer = [state |-> "up", event |-> "None"]
  /\ timers = {} /\ expired = {}
  /\ term = [running |-> TRUE, drain |-> "no", timedOut |-> FALSE, error |-> FALSE, ctrlA |-> FALSE]
  /\ child = "running"
  /\ seen = <<>> /\ rest = <<>> /\ sent = 0 /\ keys = 0

\* The output since the phase began, where r is what m becomes by reading t.
NewRest(m, r, t) ==
  IF ~Waiting(r.m) THEN <<>>
  ELSE IF <<r.m.phase, r.m.cur>> = <<m.phase, m.cur>> THEN rest \o t ELSE r.t

\* stop_after: only the first call sets the deadline.
StopAfter(tm, why) == [tm EXCEPT !.drain = IF @ = "no" THEN why ELSE @]
Fails(event) == event \in {"Failed", "LimitExceeded"}
HandledOutcome(o, event) ==
  [completed |-> o.completed \/ event = "SequenceCompleted", failure |-> o.failure \/ Fails(event)]
HandledTerm(tm, o, event) ==
  IF event = "SequenceCompleted" \/ (Fails(event) /\ ~o.failure) THEN StopAfter(tm, "check") ELSE tm
Handled(snd, event) == IF event = "Send" THEN 1 ELSE snd

\* ShellCheckDriver::fail: only the first failure is recorded.
Fail == outcome' = HandledOutcome(outcome, "Failed") /\ term' = HandledTerm(term, outcome, "Failed")
\* Inputs that are dropped unwritten acknowledge with an error.
DropInputs(q) ==
  IF \E i \in 1..Len(q) : q[i] \in CommandInputs THEN Fail ELSE UNCHANGED <<outcome, term>>

\* The loop reads a chunk: the global patterns, then the shell check.
Output(t) ==
  LET text  == window \o t
      hit   == failMatch = "none" /\ Found({p \in FailPatterns : Len(p) <= MatchWindow}, text)
      after == IF hit THEN StopAfter(term, "match") ELSE term
      r     == observe_chunk(matcher, t)
  IN /\ runnerStage = "terminal"
     /\ Len(seen) + Len(t) <= MaxOutput
     /\ window' = EndOf(text, MatchWindow)
     /\ failMatch' = IF hit THEN "matched" ELSE failMatch
     /\ matcher' = r.m
     /\ outcome' = HandledOutcome(outcome, r.event)
     /\ sender' = Handled(sender, r.event)
     /\ term' = [HandledTerm(after, outcome, r.event) EXCEPT !.running = @ /\ failMatch # "due"]
     /\ runnerStage' = IF failMatch = "due" THEN "writer" ELSE runnerStage
     /\ seen' = seen \o t /\ rest' = NewRest(matcher, r, t)
     /\ UNCHANGED <<runner, steps, queue, writer, timers, expired, child, result, sent, keys>>

MatchDue ==
  /\ failMatch = "matched" /\ failMatch' = "due"
  /\ UNCHANGED <<runner, steps, matcher, outcome, window, sender, queue, writer, timers, expired,
                 term, child, runnerStage, result, seen, rest, sent, keys>>

\* What the loop's end leaves alone.
LoopEnds ==
  /\ runnerStage = "terminal" /\ runnerStage' = "writer"
  /\ UNCHANGED <<runner, steps, matcher, outcome, window, failMatch, sender, queue, writer, timers,
                 expired, child, result, seen, rest, sent>>
Stopped == [term EXCEPT !.running = FALSE]

\* The stop deadline: that of a match is not earlier than the end of its own drain.
StopDeadline ==
  /\ term.drain # "no" /\ (term.drain = "match" => failMatch = "due")
  /\ LoopEnds /\ term' = Stopped /\ UNCHANGED keys
TimeoutDeadline == LoopEnds /\ term' = [Stopped EXCEPT !.timedOut = TRUE] /\ UNCHANGED keys
\* The channel of the output is closed: the loop breaks and `running` stays.
OutputEnds == child \notin {"running"} /\ LoopEnds /\ UNCHANGED <<term, keys>>

\* KeyProcessor::process_bytes on one stroke: Ctrl-A x ends the session of a serial runner.
Key(stroke) ==
  LET intercepts == runner # "qemu"
      exits  == intercepts /\ term.ctrlA /\ stroke = "x"
      holds  == intercepts /\ ~term.ctrlA /\ stroke = "ctrlA"
      closed == writer.state # "up"
  IN /\ keys < MaxKeys /\ keys' = IF holds THEN keys ELSE keys + 1
     /\ \/ /\ exits /\ LoopEnds /\ term' = [Stopped EXCEPT !.ctrlA = FALSE]
        \/ /\ ~exits /\ ~holds /\ closed
           /\ LoopEnds /\ term' = [term EXCEPT !.error = TRUE]
        \/ /\ ~exits /\ (holds \/ ~closed) /\ runnerStage = "terminal"
           /\ queue' = IF holds THEN queue ELSE Append(queue, "key")
           /\ term' = [term EXCEPT !.ctrlA = holds]
           /\ UNCHANGED <<runner, steps, matcher, outcome, window, failMatch, sender, writer, timers,
                          expired, child, runnerStage, result, seen, rest, sent>>
\* The input of the user ends, or cannot be read.
InputEnds(error) ==
  /\ keys < MaxKeys /\ keys' = keys + 1
  /\ LoopEnds /\ term' = [term EXCEPT !.error = error]

\* send_after_chunks_then: the next chunk of the command, unless the terminal has
\* stopped or the writer is gone.
SendChunk ==
  /\ sender # 0
  /\ \/ /\ term.running /\ writer.state = "up"
        /\ queue' = Append(queue, IF sender = CommandChunks THEN "lastChunk" ELSE "chunk")
        /\ sender' = IF sender = CommandChunks THEN 0 ELSE sender + 1
        /\ UNCHANGED <<outcome, term>>
     \/ /\ ~term.running \/ writer.state # "up"
        /\ sender' = 0 /\ Fail /\ UNCHANGED queue
  /\ UNCHANGED <<runner, steps, matcher, window, failMatch, writer, timers, expired, child, runnerStage,
                 result, seen, rest, sent, keys>>

WriterIdle == writer = [state |-> "up", event |-> "None"]
\* write_qemu_input and its siblings: an input is written, flushed and acknowledged;
\* the last chunk of a command tells the matcher and starts the timeout of the step.
WriteInput ==
  LET last == Head(queue) = "lastChunk"
      r    == command_flushed(matcher)
  IN /\ WriterIdle /\ queue # <<>> /\ queue' = Tail(queue)
     /\ matcher' = IF last THEN r.m ELSE matcher
     /\ rest' = IF last THEN NewRest(matcher, r, <<>>) ELSE rest
     /\ sent' = IF last THEN sent + 1 ELSE sent
     /\ writer' = [writer EXCEPT !.event = IF last THEN r.event ELSE @]
     /\ timers' = IF last /\ r.m.phase = "WaitingForResult" /\ steps[r.m.cur].timed
                    THEN timers \cup {r.m.cur} ELSE timers
     /\ UNCHANGED <<runner, steps, outcome, window, failMatch, sender, expired, term, child, runnerStage,
                    result, seen, keys>>
\* The event of the flush, handled after the lock of the matcher is released.
HandleFlush ==
  /\ writer.event # "None" /\ writer' = [writer EXCEPT !.event = "None"]
  /\ outcome' = HandledOutcome(outcome, writer.event)
  /\ term' = HandledTerm(term, outcome, writer.event)
  /\ sender' = Handled(sender, writer.event)
  /\ UNCHANGED <<runner, steps, matcher, window, failMatch, queue, timers, expired, child, runnerStage,
                 result, seen, rest, sent, keys>>
WriteFails ==
  /\ WriterIdle /\ queue # <<>>
  /\ writer' = [writer EXCEPT !.state = "failed"] /\ queue' = <<>> /\ DropInputs(queue)
  /\ UNCHANGED <<runner, steps, matcher, window, failMatch, sender, timers, expired, child, runnerStage,
                 result, seen, rest, sent, keys>>
\* The channel is closed once the terminal and every sending task have dropped it.
WriterEnds ==
  /\ WriterIdle /\ queue = <<>> /\ runnerStage # "terminal" /\ sender = 0
  /\ writer' = [writer EXCEPT !.state = "ended"]
  /\ UNCHANGED <<runner, steps, matcher, outcome, window, failMatch, sender, queue, timers, expired,
                 term, child, runnerStage, result, seen, rest, sent, keys>>

\* start_step_timeout: the step is failed under the lock of the matcher, and
\* the failure is recorded afterwards.
StepTimeout(k) ==
  LET won == matcher.cur = k /\ matcher.phase = "WaitingForResult"
  IN /\ k \in timers /\ timers' = timers \ {k}
     /\ matcher' = IF won THEN [matcher EXCEPT !.phase = "Completed"] ELSE matcher
     /\ rest' = IF won THEN <<>> ELSE rest
     /\ expired' = IF won THEN expired \cup {k} ELSE expired
     /\ UNCHANGED <<runner, steps, outcome, window, failMatch, sender, queue, writer, term, child,
                    runnerStage, result, seen, sent, keys>>
RecordTimeout(k) ==
  /\ k \in expired /\ expired' = expired \ {k} /\ Fail
  /\ UNCHANGED <<runner, steps, matcher, window, failMatch, sender, queue, writer, timers, child,
                 runnerStage, result, seen, rest, sent, keys>>

\* QEMU exits, well or not; the serial stream ends, or fails.
TargetEnds(how) ==
  /\ child = "running" /\ runnerStage # "done" /\ child' = how
  /\ UNCHANGED <<runner, steps, matcher, outcome, window, failMatch, sender, queue, writer, timers,
                 expired, term, runnerStage, result, seen, rest, sent, keys>>

-----------------------------------------------------------------------------
(* The runner: the writer, the reader, the verdict, the process.           *)

Running == <<runner, steps, matcher, window, failMatch, sender, timers, expired, seen, rest, sent, keys>>
Returns(r) == runnerStage' = "done" /\ result' = r

\* shutdown_qemu_writer_task, shutdown_serial_task: a second for the writer to end,
\* then it is aborted; its error ends a serial run at once.
ShutdownWriter ==
  /\ runnerStage = "writer" /\ writer.event = "None"
  /\ IF writer.state = "up"
       THEN /\ writer' = [writer EXCEPT !.state = "aborted"] /\ queue' = <<>> /\ DropInputs(queue)
            /\ runnerStage' = IF runner = "qemu" THEN "verdict" ELSE "reader"
            /\ UNCHANGED result
       ELSE /\ UNCHANGED <<writer, queue, outcome, term>>
            /\ IF writer.state = "failed" /\ runner # "qemu" THEN Returns("Err")
               ELSE runnerStage' = (IF runner = "qemu" THEN "verdict" ELSE "reader") /\ UNCHANGED result
  /\ UNCHANGED <<child, Running>>
ShutdownReader ==
  /\ runnerStage = "reader"
  /\ IF child = "failed" THEN Returns("Err") ELSE runnerStage' = "verdict" /\ UNCHANGED result
  /\ UNCHANGED <<outcome, queue, writer, term, child, Running>>

\* ShellCheckDriver::completion_error.
completion_error == HasChecks /\ (outcome.failure \/ ~outcome.completed)
WriterError == runner = "qemu" /\ writer.state \in {"failed", "aborted"}
TerminalError == term.error \/ term.timedOut \/ WriterError
\* Mutant: a process is not killed when the checks have completed.
Mutant_LeaveRunning == failMatch = "due" \/ completion_error \/ TerminalError
should_kill == failMatch = "due" \/ outcome.completed \/ completion_error \/ TerminalError
\* RunnerExecutionSummary::into_result.
into_result(exit) ==
  IF TerminalError \/ failMatch # "none" \/ completion_error THEN "Err"
  ELSE IF outcome.completed \/ exit # "failed" THEN "Ok" ELSE "Err"

Verdict ==
  /\ runnerStage = "verdict"
  /\ IF runner # "qemu" THEN Returns(into_result(None)) /\ UNCHANGED child
     ELSE \/ /\ should_kill /\ child = "running"
             /\ \/ child' = "killed" /\ runnerStage' = "wait" /\ UNCHANGED result
                \/ Returns("Err") /\ child' = "unkillable"
          \/ /\ ~should_kill \/ child # "running"
             /\ runnerStage' = "wait" /\ UNCHANGED <<child, result>>
  /\ UNCHANGED <<outcome, queue, writer, term, Running>>
Wait ==
  /\ runnerStage = "wait" /\ child # "running"
  /\ Returns(into_result(IF child = "exited" THEN "exited" ELSE "failed"))
  /\ UNCHANGED <<outcome, queue, writer, term, child, Running>>
\* monitor_loader_status: a failed query or a failed phase ends the run around the terminal.
MonitorFails ==
  /\ runner = "httpboot" /\ runnerStage \in {"terminal", "writer", "reader"} /\ Returns("Err")
  /\ UNCHANGED <<outcome, queue, writer, term, child, Running>>

Chunks == UNION {[1..n -> Letters] : n \in 1..MaxChunk}
Next ==
  \/ \E t \in Chunks : Output(t)
  \/ MatchDue \/ StopDeadline \/ TimeoutDeadline \/ OutputEnds
  \/ \E stroke \in {"ctrlA", "x"} : Key(stroke)
  \/ \E error \in BOOLEAN : InputEnds(error)
  \/ SendChunk \/ WriteInput \/ HandleFlush \/ WriteFails \/ WriterEnds
  \/ \E k \in timers : StepTimeout(k)
  \/ \E k \in expired : RecordTimeout(k)
  \/ \E how \in {"exited", "failed"} : TargetEnds(how)
  \/ ShutdownWriter \/ ShutdownReader \/ Verdict \/ Wait \/ MonitorFails

Spec == Init /\ [][Next]_vars
\* Deadlines pass, tasks that can run do, and a killed process is reaped.
FairSpec ==
  /\ Spec
  /\ WF_vars(MatchDue) /\ WF_vars(StopDeadline) /\ WF_vars(HandleFlush)
  /\ WF_vars(\E k \in expired : RecordTimeout(k))
  /\ WF_vars(ShutdownWriter) /\ WF_vars(ShutdownReader) /\ WF_vars(Verdict) /\ WF_vars(Wait)

-----------------------------------------------------------------------------
(* Properties.                                                             *)

\* What is left of the text t behind the first match, behind the prompt of a
\* step, and behind its result; None when t does not hold them.
Skip(P, t) == IF t = None THEN None ELSE IF Found(P, t) THEN After(P, t) ELSE None
Prompted(step, t) == IF step.command THEN Skip({step.prefix}, t) ELSE t
ReadStep(step, t) == IF step.success = {} THEN Prompted(step, t) ELSE Skip(step.success, Prompted(step, t))
\* What is left once the steps st[1], ... st[k] are read off the text as one
\* string, wherever the chunks were cut.
ReadOff(st, text) ==
  LET left[k \in Nat] == IF k = 0 THEN text ELSE ReadStep(st[k], left[k - 1]) IN left

\* What the matchers keep of the output is enough for every pattern.
PatternsFit ==
  /\ \A p \in FailPatterns : Len(p) <= MatchWindow
  /\ \A raw \in CheckConfigs : \A k \in 1..Len(raw) :
       \A p \in raw[k].success \cup raw[k].fail \cup ({raw[k].prefix} \ {None}) : Len(p) <= HistoryMax + 1

\* A run with shell checks that returns Ok has read every prompt and every
\* result, in order and without overlap, has written every command exactly
\* once, has met no global fail pattern, and no check failed.
VerdictIsEarned ==
  /\ ~(outcome.completed /\ outcome.failure)
  /\ result = "Ok" =>
       /\ ~Found(FailPatterns, seen)
       /\ HasChecks => /\ ReadOff(steps, seen)[Len(steps)] # None
                       /\ sent = Cardinality({k \in 1..Len(steps) : steps[k].command})

\* No prompt, result or failure is lost at a chunk boundary, in the output that
\* arrives while the command is written, or between two steps: what a waiting
\* step has read so far holds none of its patterns.
NothingMissed ==
  HasChecks =>
    LET step == steps[matcher.cur]
    IN /\ matcher.phase = "WaitingForPrefix" => ~Found({step.prefix}, rest)
       /\ matcher.phase = "WaitingForResult" => ~Found(step.success \cup step.fail, rest)

\* The verdict of a run is that of all its output.
VerdictIsRight == VerdictIsEarned /\ NothingMissed

\* Once the checks have completed or failed, a fail pattern was drained, or the
\* loop timed out or failed, the runner returns: it waits neither for the
\* target nor for its own tasks.
DecidedRunEnds ==
  (\/ outcome.completed \/ outcome.failure \/ term.timedOut \/ term.error
   \/ failMatch = "due" /\ runnerStage = "terminal") ~> runnerStage = "done"
=============================================================================

---------------------------- MODULE RunnerProcess ----------------------------
(***************************************************************************)
(* Runner.Run of internal/codex/runner.go: one agent process, the two      *)
(* goroutines that read its pipes, the one that persists what they read,   *)
(* the watcher of the context and Run itself, which joins them and decides *)
(* what became of the run. What is then written to the row is modelled in  *)
(* TaskScheduler.                                                          *)
(***************************************************************************)
EXTENDS Naturals, Sequences, FiniteSets

CONSTANTS Orphans,              \* whether a child may outlive the agent and hold its pipes
          MaxLines, MaxFaults   \* bounds of the instance

Streams == {"out", "err"}
\* An event, an agent message that is a valid result or is not, and a line that is no event.
Kinds == [out |-> {"event", "result", "prose", "bad"}, err |-> {"log"}]

VARIABLES canceled,    \* the context
          proc,        \* the agent: whether it runs, its exit, its child, the last message it left
          pipe,        \* lines written and not read, by stream; closed by the console
          wrote,       \* what the agent has written in all, by stream
          stop,        \* terminate has run, and the error it was given
          reader,      \* readStdout and readStderr
          writer,      \* persistEvents
          persisted,   \* task_events, as <<stream, kind>>
          main,        \* Run
          latest,      \* latestAgentMessage
          outcome, faults

vars == <<canceled, proc, pipe, wrote, stop, reader, writer, persisted, main, latest, outcome, faults>>

NoErr == "none"
TypeOK ==
    /\ canceled \in BOOLEAN /\ faults \in 0..MaxFaults
    /\ proc.at \in {"running", "exited"} /\ proc.exit \in {0, 1} /\ proc.last \in {"none", "invalid", "result"}
    /\ pipe.closed \in BOOLEAN /\ stop.done \in BOOLEAN /\ stop.err \in {NoErr, "canceled", "stream", "persist"}
    /\ \A s \in Streams : /\ reader[s].at \in {"scan", "send", "done"} /\ reader[s].err \in {NoErr, "stream"}
                          /\ Len(wrote[s]) <= MaxLines /\ pipe[s] \in Seq(Kinds[s])
    /\ writer.at \in {"receive", "persist", "done"} /\ writer.err \in {NoErr, "canceled", "persist"}
    /\ main \in {"readers", "wait", "closed", "decide", "done"}
    /\ outcome \in {"none", "canceled", "event_persistence_failed", "stream_failed", "process_failed", "output_invalid", "message", "file"}

Init ==
    /\ canceled = FALSE /\ faults = 0
    /\ proc = [at |-> "running", exit |-> 0, child |-> Orphans, last |-> "none"]
    /\ pipe = [out |-> <<>>, err |-> <<>>, closed |-> FALSE] /\ wrote = [s \in Streams |-> <<>>]
    /\ stop = [done |-> FALSE, err |-> NoErr]
    /\ reader = [s \in Streams |-> [at |-> "scan", line |-> "none", err |-> NoErr]]
    /\ writer = [at |-> "receive", line |-> <<>>, err |-> NoErr] /\ persisted = <<>>
    /\ main = "readers" /\ latest = "none" /\ outcome = "none"

----------------------------------------------------------------------------
(* The agent *)

Emit(s, k) ==
    /\ proc.at = "running" /\ ~pipe.closed /\ Len(wrote[s]) < MaxLines
    /\ pipe' = [pipe EXCEPT ![s] = Append(@, k)] /\ wrote' = [wrote EXCEPT ![s] = Append(@, k)]
    /\ UNCHANGED <<canceled, proc, stop, reader, writer, persisted, main, latest, outcome, faults>>

\* Only an agent that ends well leaves its last message in the file it was told.
Exit ==
    /\ proc.at = "running"
    /\ \E e \in {0, 1}, last \in {"none", "invalid", "result"} :
          /\ e = 1 \/ stop.done => last = "none"
          /\ proc' = [proc EXCEPT !.at = "exited", !.exit = IF stop.done THEN 1 ELSE e, !.last = last]
    /\ UNCHANGED <<canceled, pipe, wrote, stop, reader, writer, persisted, main, latest, outcome, faults>>

ChildEnds ==
    /\ proc.child /\ proc' = [proc EXCEPT !.child = FALSE]
    /\ UNCHANGED <<canceled, pipe, wrote, stop, reader, writer, persisted, main, latest, outcome, faults>>

Cancel ==
    /\ ~canceled /\ main # "done" /\ canceled' = TRUE
    /\ UNCHANGED <<proc, pipe, wrote, stop, reader, writer, persisted, main, latest, outcome, faults>>

----------------------------------------------------------------------------
(* terminate *)

\* Mutant: the process is killed and its pipes are left to end by themselves.
KillOnly(err) == stop' = (IF stop.done THEN stop ELSE [done |-> TRUE, err |-> err]) /\ pipe' = pipe
\* Once: the first error is kept, the process killed and the console's ends of the pipes closed.
Terminate(err) ==
    /\ stop' = IF stop.done THEN stop ELSE [done |-> TRUE, err |-> err]
    /\ pipe' = [pipe EXCEPT !.closed = TRUE]

\* The watcher of the context, until the process has been waited for.
Watch ==
    /\ canceled /\ main \in {"readers", "wait"} /\ ~stop.done
    /\ Terminate("canceled")
    /\ UNCHANGED <<canceled, proc, wrote, reader, writer, persisted, main, latest, outcome, faults>>

----------------------------------------------------------------------------
(* readStdout and readStderr *)

Ends(s, err) == reader' = [reader EXCEPT ![s].at = "done", ![s].err = err]
Rest(s) == [pipe EXCEPT ![s] = Tail(@)]

\* A closed pipe may still hand out what its scanner had read.
Scan(s) ==
    /\ reader[s].at = "scan" /\ pipe[s] # <<>> /\ Head(pipe[s]) # "bad"
    /\ pipe' = Rest(s)
    /\ reader' = [reader EXCEPT ![s].at = "send", ![s].line = Head(pipe[s])]
    /\ latest' = IF Head(pipe[s]) \in {"result", "prose"} THEN Head(pipe[s]) ELSE latest
    /\ UNCHANGED <<canceled, proc, wrote, stop, writer, persisted, main, outcome, faults>>

\* ParseLine fails, or the scanner: the read of a closed pipe, a line that is too long.
ScanFails(s) ==
    /\ reader[s].at = "scan" /\ (pipe.closed \/ (pipe[s] # <<>> /\ Head(pipe[s]) = "bad"))
    /\ Terminate("stream") /\ Ends(s, "stream")
    /\ UNCHANGED <<canceled, proc, wrote, writer, persisted, main, latest, outcome, faults>>

EndOfFile(s) ==
    /\ reader[s].at = "scan" /\ pipe[s] = <<>> /\ ~pipe.closed /\ proc.at = "exited" /\ ~proc.child
    /\ Ends(s, NoErr)
    /\ UNCHANGED <<canceled, proc, pipe, wrote, stop, writer, persisted, main, latest, outcome, faults>>

\* The channel has no buffer: the reader and the writer meet.
Send(s) ==
    /\ reader[s].at = "send" /\ writer.at = "receive"
    /\ writer' = [writer EXCEPT !.at = "persist", !.line = <<s, reader[s].line>>]
    /\ reader' = [reader EXCEPT ![s].at = "scan", ![s].line = "none"]
    /\ UNCHANGED <<canceled, proc, pipe, wrote, stop, persisted, main, latest, outcome, faults>>

Stopped(s) ==
    /\ reader[s].at = "send" /\ stop.done /\ Ends(s, "stream")
    /\ UNCHANGED <<canceled, proc, pipe, wrote, stop, writer, persisted, main, latest, outcome, faults>>

----------------------------------------------------------------------------
(* persistEvents: after its first error it receives and drops *)

Persist ==
    /\ writer.at = "persist" /\ writer' = [writer EXCEPT !.at = "receive", !.line = <<>>]
    /\ writer.err = NoErr => ~canceled
    /\ persisted' = IF writer.err = NoErr THEN Append(persisted, writer.line) ELSE persisted
    /\ UNCHANGED <<canceled, proc, pipe, wrote, stop, reader, main, latest, outcome, faults>>

\* SetSession, AppendEvent or the timing fails; all are given the context.
PersistFails ==
    /\ writer.at = "persist" /\ writer.err = NoErr /\ (canceled \/ faults < MaxFaults)
    /\ LET err == IF canceled THEN "canceled" ELSE "persist"
       IN  writer' = [at |-> "receive", line |-> <<>>, err |-> err] /\ Terminate(err)
    /\ faults' = IF canceled THEN faults ELSE faults + 1
    /\ UNCHANGED <<canceled, proc, wrote, reader, persisted, main, latest, outcome>>

WriterEnds ==
    /\ writer.at = "receive" /\ main = "closed" /\ writer' = [writer EXCEPT !.at = "done"]
    /\ UNCHANGED <<canceled, proc, pipe, wrote, stop, reader, persisted, main, latest, outcome, faults>>

----------------------------------------------------------------------------
(* Run *)

ReadersJoined ==
    /\ main = "readers" /\ main' = "wait" /\ \A s \in Streams : reader[s].at = "done"
    /\ UNCHANGED <<canceled, proc, pipe, wrote, stop, reader, writer, persisted, latest, outcome, faults>>

\* Command.Wait; the watcher is done, and the events channel is closed.
ProcessWaited ==
    /\ main = "wait" /\ proc.at = "exited" /\ main' = "closed"
    /\ UNCHANGED <<canceled, proc, pipe, wrote, stop, reader, writer, persisted, latest, outcome, faults>>

\* Mutant: the writer is not waited for.
NotJoined ==
    /\ main = "closed" /\ main' = "decide"
    /\ UNCHANGED <<canceled, proc, pipe, wrote, stop, reader, writer, persisted, latest, outcome, faults>>
WriterJoined ==
    /\ main = "closed" /\ writer.at = "done" /\ main' = "decide"
    /\ UNCHANGED <<canceled, proc, pipe, wrote, stop, reader, writer, persisted, latest, outcome, faults>>

StreamFailed == \E s \in Streams : reader[s].err # NoErr
\* A file that is not there, not the agent's own or no result is as good as none.
LastMessage == IF proc.last = "result" THEN "file" ELSE "output_invalid"
\* resolveFinalResult: the last message of the stream, or else the file.
Resolved == IF latest = "result" THEN "message" ELSE LastMessage

\* Mutant: the error of the pipes is looked at first.
StreamsFirst ==
    CASE StreamFailed -> "stream_failed"
      [] ~StreamFailed /\ canceled -> "canceled"
      [] ~StreamFailed /\ ~canceled /\ writer.err # NoErr -> "event_persistence_failed"
      [] ~StreamFailed /\ ~canceled /\ writer.err = NoErr /\ proc.exit # 0 -> "process_failed"
      [] OTHER -> Resolved
\* Cancellation is authoritative; then what could not be persisted, read, and the process itself.
Decision ==
    CASE canceled -> "canceled"
      [] ~canceled /\ writer.err # NoErr -> "event_persistence_failed"
      [] ~canceled /\ writer.err = NoErr /\ (StreamFailed \/ (stop.done /\ proc.exit = 0)) -> "stream_failed"
      [] ~canceled /\ writer.err = NoErr /\ ~StreamFailed /\ proc.exit # 0 -> "process_failed"
      [] OTHER -> Resolved

Decide ==
    /\ main = "decide" /\ main' = "done" /\ outcome' = Decision
    /\ UNCHANGED <<canceled, proc, pipe, wrote, stop, reader, writer, persisted, latest, faults>>

Step == 
    \/ Watch \/ Persist \/ PersistFails \/ WriterEnds \/ ReadersJoined \/ ProcessWaited \/ WriterJoined \/ Decide
    \/ \E s \in Streams : Scan(s) \/ ScanFails(s) \/ EndOfFile(s) \/ Send(s) \/ Stopped(s)
Next ==
    \/ Step \/ Exit \/ ChildEnds \/ Cancel
    \/ \E s \in Streams : \E k \in Kinds[s] : Emit(s, k)

Spec == Init /\ [][Next]_vars
\* Go schedules every goroutine, and a process that is killed exits.
Dying == stop.done /\ Exit
FairSpec == Spec /\ WF_vars(Step) /\ WF_vars(Dying)

----------------------------------------------------------------------------
(* Properties *)

\* A run whose result is looked at has lost nothing the agent wrote: every line is in task_events,
\* each stream in its order.
NothingIsLost ==
    outcome \in {"message", "file", "output_invalid"} =>
        \A s \in Streams : LET mine == SelectSeq(persisted, LAMBDA l : l[1] = s)
                           IN  [i \in DOMAIN mine |-> mine[i][2]] = wrote[s]

\* Whatever the closed pipes and the canceled context make the goroutines report, a run that was
\* stopped by a cancellation is not a failed run, and one the console killed for an error of its
\* own is not reported as the failure of the agent.
CauseIsTold ==
    /\ stop.err = "canceled" \/ writer.err = "canceled" => outcome \in {"none", "canceled"}
    /\ stop.err \in {"stream", "persist"} => outcome \in {"none", "canceled", "stream_failed", "event_persistence_failed"}

\* No goroutine waits for another for ever: a run that was stopped returns, also when a child of the
\* agent keeps the pipes open, and so does one whose agent has ended by itself and left no child.
MustReturn == stop.done \/ (proc.at = "exited" /\ ~proc.child)
Returned == main = "done"
RunReturns == MustReturn ~> Returned
=============================================================================

------------------------------ MODULE RemixFlow ------------------------------
(***************************************************************************)
(* One run of the remix pipeline in its output directory, across the       *)
(* attempts an operator makes of it: the agents of the workflow in waves,  *)
(* the writer, the reviewer, the deliverable and the envelope that         *)
(* executeRun reads back (internal/agentruntime/openaicompat/run.go,       *)
(* flowrun.go, reviewer.go, internal/remixlab/runner.go and rework.go).    *)
(* The agents of a wave are goroutines of their own: each looks for its    *)
(* output on the disk, reads what the agents before it answered, asks its  *)
(* model and saves the answer. The files of earlier attempts stay, so that *)
(* an attempt can go on where the last one stopped; a file is modelled by  *)
(* the attempt that wrote it (0: there is none). The models behind the     *)
(* agents are external.                                                    *)
(***************************************************************************)
EXTENDS Naturals, FiniteSets

CONSTANTS Agents, Reviewed,     \* the graph of the workflow has a reviewer
          Graphs,               \* the dependencies a workflow may have: [Agents -> SUBSET Agents]
          MaxAttempts           \* bound of the instance

VARIABLES deps, status, attempt, at,
          out,        \* node_output_<id>.json
          file,       \* script: continuous_script.txt, review: review.json
          last,       \* last.json: what the envelope says
          wave,       \* the agents started together, until all of them have ended
          res,        \* what this attempt got from each agent
          fed,        \* what the prompt of an agent's last call held of the agents before it
          redo        \* the agent the operator asked to run again

vars == <<deps, status, attempt, at, out, file, last, wave, res, fed, redo>>

agents == <<wave, res, fed>>

Ended == {"cached", "called", "empty", "error"}

TypeOK ==
    /\ deps \in Graphs /\ status \in {"queued", "running", "completed", "failed"}
    /\ attempt \in 0..MaxAttempts
    /\ at \in {"idle", "agents", "writer", "keep", "review", "deliver", "read"}
    /\ out \in [Agents -> 0..MaxAttempts]
    /\ file \in [{"script", "review"} -> 0..MaxAttempts]
    /\ last \in {"none", "ok", "failed"}
    /\ res \in [Agents -> {"none", "asked"} \cup Ended]
    /\ fed \in [Agents -> [Agents -> 0..MaxAttempts]]
    /\ wave \subseteq Agents /\ redo \subseteq Agents

Init ==
    /\ deps \in Graphs /\ status = "queued" /\ attempt = 0 /\ at = "idle"
    /\ out = [a \in Agents |-> 0] /\ file = [f \in {"script", "review"} |-> 0]
    /\ last = "none" /\ res = [a \in Agents |-> "none"] /\ wave = {} /\ redo = {}
    /\ fed = [a \in Agents |-> [b \in Agents |-> 0]]

Go(to) == at' = to
Fail == last' = "failed" /\ Go("read")

----------------------------------------------------------------------------

\* executeRun up to the pipeline: the envelope of the attempt before is removed.
StartAttempt ==
    /\ status = "queued" /\ attempt < MaxAttempts
    /\ attempt' = attempt + 1 /\ status' = "running"
    /\ last' = "none" /\ res' = [a \in Agents |-> "none"] /\ Go("agents")
    /\ UNCHANGED <<deps, out, file, wave, fed, redo>>

\* The agents whose connected agents have all been waited for, with or without success.
NextWave == {a \in Agents : res[a] = "none" /\ \A b \in deps[a] : b \in Agents \ wave /\ res[b] # "none"}

StartWave ==
    /\ at = "agents" /\ wave = {} /\ NextWave # {} /\ wave' = NextWave
    /\ UNCHANGED <<deps, status, attempt, at, out, file, last, res, fed, redo>>

\* What another agent is given of this one: a failed or empty one is a gap in the prompt.
Result(a) == IF res[a] \in {"cached", "called"} THEN out[a] ELSE 0

\* A node whose output is on disk is not called again; the output may be one it cannot use.
Cached(a) ==
    /\ a \in wave /\ res[a] = "none" /\ out[a] # 0
    /\ \E r \in {"cached", "error"} : res' = [res EXCEPT ![a] = r]
    /\ UNCHANGED <<deps, status, attempt, at, out, file, last, wave, fed, redo>>
\* Under the lock it reads the results of the agents it is connected to; then it asks its model.
Ask(a) ==
    /\ a \in wave /\ res[a] = "none" /\ out[a] = 0
    /\ fed' = [fed EXCEPT ![a] = [b \in Agents |-> IF b \in deps[a] THEN Result(b) ELSE 0]]
    /\ res' = [res EXCEPT ![a] = "asked"]
    /\ UNCHANGED <<deps, status, attempt, at, out, file, last, wave, redo>>
SaveOutput(a) ==
    /\ at = "agents" /\ res[a] = "asked" /\ out[a] = 0
    /\ out' = [out EXCEPT ![a] = attempt]
    /\ UNCHANGED <<deps, status, attempt, at, file, last, agents, redo>>
\* Nothing was saved of an empty answer or a failed call; facts that are not ready are an error too.
Answered(a) ==
    /\ at = "agents" /\ res[a] = "asked"
    /\ \E r \in IF out[a] # 0 THEN {"called", "error"} ELSE {"empty", "error"} :
          res' = [res EXCEPT ![a] = r]
    /\ UNCHANGED <<deps, status, attempt, at, out, file, last, wave, fed, redo>>
RunNode(a) == Cached(a) \/ Ask(a) \/ SaveOutput(a) \/ Answered(a)

\* Mutant: the agents of a wave are not waited for.
EndWaveAtOnce ==
    /\ at = "agents" /\ wave # {} /\ (\A a \in wave : res[a] # "none") /\ wave' = {}
    /\ UNCHANGED <<deps, status, attempt, at, out, file, last, res, fed, redo>>
EndWave ==
    /\ at = "agents" /\ wave # {} /\ (\A a \in wave : res[a] \in Ended) /\ wave' = {}
    /\ UNCHANGED <<deps, status, attempt, at, out, file, last, res, fed, redo>>

\* No agent is left, or none can ever start; what failed is simply missing in the packet.
EndAgents ==
    /\ at = "agents" /\ wave = {} /\ NextWave = {} /\ Go("writer")
    /\ UNCHANGED <<deps, status, attempt, out, file, last, agents, redo>>

Write ==
    /\ at = "writer"
    /\ Fail \/ (Go("keep") /\ UNCHANGED last)
    /\ UNCHANGED <<deps, status, attempt, out, file, agents, redo>>

\* captureRemixModelReply: the script of the writer's answer, when it can be parsed.
Keep ==
    /\ at = "keep" /\ Go(IF Reviewed THEN "review" ELSE "deliver")
    /\ file' \in {file, [file EXCEPT !.script = attempt]}
    /\ UNCHANGED <<deps, status, attempt, out, last, agents, redo>>

\* A review that ends in an error fails the run but keeps its draft when it can be parsed.
Review ==
    /\ at = "review"
    /\ \/ file' = [file EXCEPT !.review = attempt] /\ (Fail \/ (Go("deliver") /\ UNCHANGED last))
       \/ file' = [file EXCEPT !.review = attempt, !.script = attempt] /\ Fail
    /\ UNCHANGED <<deps, status, attempt, out, agents, redo>>

\* The script and its package, then the envelope; a failure may come before or after the script.
Deliver ==
    /\ at = "deliver"
    /\ \/ UNCHANGED file /\ Fail
       \/ file' = [file EXCEPT !.script = attempt] /\ Go("read") /\ last' \in {"ok", "failed"}
    /\ UNCHANGED <<deps, status, attempt, out, agents, redo>>

\* failureSummary and the script decide; a script that cannot be read is a failure.
ReadBack ==
    /\ at = "read" /\ Go("idle")
    /\ status' = IF last = "ok" THEN "completed" ELSE "failed"
    /\ redo' = {}
    /\ UNCHANGED <<deps, attempt, out, file, last, agents>>

\* A stop of the console: FailStale fails the run at the next start.
Stop ==
    /\ at # "idle" /\ Go("idle") /\ status' = "failed" /\ redo' = {} /\ wave' = {}
    /\ UNCHANGED <<deps, attempt, out, file, last, res, fed>>

\* Mutant: what the writer and its successors left is kept.
RetryKeepingFiles(S) ==
    /\ at = "idle" /\ attempt < MaxAttempts
    /\ status = "failed" \/ (status = "completed" /\ S # {})
    /\ out' = [a \in Agents |-> IF a \in S THEN 0 ELSE out[a]]
    /\ status' = "queued" /\ redo' = S
    /\ UNCHANGED <<deps, attempt, at, file, last, agents>>
\* Mutant: the output of the chosen agent is kept.
RetryKeepingOutput(S) ==
    /\ at = "idle" /\ attempt < MaxAttempts
    /\ status = "failed" \/ (status = "completed" /\ S # {})
    /\ file' = [f \in {"script", "review"} |-> 0]
    /\ status' = "queued" /\ redo' = S
    /\ UNCHANGED <<deps, attempt, at, out, last, agents>>
\* RetryRun of the whole run or, for a completed one too, of one agent.
RetryRun(S) ==
    /\ at = "idle" /\ attempt < MaxAttempts
    /\ status = "failed" \/ (status = "completed" /\ S # {})
    /\ out' = [a \in Agents |-> IF a \in S THEN 0 ELSE out[a]]
    /\ file' = [f \in {"script", "review"} |-> 0]
    /\ status' = "queued" /\ redo' = S
    /\ UNCHANGED <<deps, attempt, at, last, agents>>

Next ==
    \/ StartAttempt \/ StartWave \/ EndWave \/ EndAgents
    \/ Write \/ Keep \/ Review \/ Deliver \/ ReadBack \/ Stop
    \/ \E a \in Agents : RunNode(a)
    \/ \E S \in {{}} \cup {{a} : a \in Agents} : RetryRun(S)

Spec == Init /\ [][Next]_vars

----------------------------------------------------------------------------
(* Properties *)

\* What an agent was told of the agents it is connected to is what the attempt has of them in
\* the end: the goroutines of a wave answer and save in any order, and none was asked with a gap
\* for an agent that had yet to answer.
AskedWithTheResults ==
    at # "idle" => \A a \in Agents : res[a] \in {"asked", "called", "empty"} =>
                       \A b \in deps[a] : fed[a][b] = Result(b)

\* An answer taken from the disk too: so it is not, a retry keeps the output of an agent although
\* those before it answer anew (RetryRun says that the others go on with what they have).
CachedWithTheResults ==
    at # "idle" => \A a \in Agents : res[a] = "cached" => \A b \in deps[a] : fed[a][b] = Result(b)

\* The script a finished run is shown with was written by its last attempt: a failed retry
\* never presents the draft of the attempt before as its own.
ScriptIsOfThisAttempt ==
    at = "idle" /\ attempt > 0 /\ file["script"] # 0 => file["script"] = attempt

\* The agent an operator asked to run again is not answered from the disk.
RedoneAgentIsCalled == \A a \in redo : res[a] = "cached" => status # "running"
==============================================================================

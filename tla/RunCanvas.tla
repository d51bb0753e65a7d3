------------------------------ MODULE RunCanvas ------------------------------
(***************************************************************************)
(* What the canvas shows of a run while RemixFlow runs it: RunStages of    *)
(* internal/remixlab/stages.go puts each node's state together from the    *)
(* files of the output directory and the row of the run. Next to the files *)
(* of RemixFlow it reads the writer's raw answer, the summary the agents'  *)
(* phase leaves and the log of the run, which no retry removes.            *)
(***************************************************************************)
EXTENDS RemixFlow

VARIABLES raw,       \* model_raw.txt: the attempt that wrote it
          errs,      \* intel_summary.json: the agents it gives an error for
          logged     \* remix_run.json: the attempts with a writer event

canvas == <<raw, errs, logged>>

InitCanvas == Init /\ raw = 0 /\ errs = {} /\ logged = {}

\* Mutant: the writer's answer is kept for the next attempt.
RemovedButRaw == UNCHANGED canvas
\* flowDownstreamArtifacts, which a retry removes: the raw answer but not the summary or the log.
Removed == raw' = 0 /\ UNCHANGED <<errs, logged>>

EndAgentsSeen == EndAgents /\ errs' = {a \in Agents : res[a] = "error"} /\ UNCHANGED <<raw, logged>>

\* The writer's answer: the event, then model_raw.txt, then the script.
WriteSeen ==
    /\ Write /\ UNCHANGED <<raw, errs>>
    /\ logged' = IF at' = "keep" THEN logged \cup {attempt} ELSE logged
Captured == at = "keep" /\ raw # attempt /\ raw' = attempt /\ UNCHANGED <<vars, errs, logged>>
KeepSeen == raw = attempt /\ Keep /\ UNCHANGED canvas

Same == UNCHANGED canvas
NextCanvas ==
    \/ EndAgentsSeen \/ WriteSeen \/ Captured \/ KeepSeen
    \/ Same /\ (StartAttempt \/ StartWave \/ EndWave \/ Review \/ Deliver \/ ReadBack \/ Stop)
    \/ Same /\ \E a \in Agents : RunNode(a)
    \/ \E S \in {{}} \cup {{a} : a \in Agents} : RetryRun(S) /\ Removed

SpecCanvas == InitCanvas /\ [][NextCanvas]_<<vars, canvas>>

----------------------------------------------------------------------------
(* RunStages *)

\* An agent: the error of the summary wins over the output on disk.
AgentStage(a) ==
    CASE a \in errs -> "failed"
      [] a \notin errs /\ out[a] # 0 -> "ok"
      [] OTHER -> IF status = "completed" THEN "skipped" ELSE "missing"

\* Mutant: a failed run is not told from one under way.
WriterByFile == IF raw # 0 THEN "ok" ELSE IF status = "completed" THEN "skipped" ELSE "missing"
WriterStage ==
    CASE raw # 0 -> "ok"
      [] raw = 0 /\ status = "failed" -> "failed"
      [] OTHER -> IF status = "completed" THEN "skipped" ELSE "missing"

\* The reviewer: what review.json can say of its verdict.
ReviewStages == IF file["review"] = 0 THEN {"skipped"} ELSE {"ok", "failed"}

FinalStage == IF status = "completed" THEN "ok" ELSE IF status = "failed" THEN "failed" ELSE "missing"

\* The nodes the message of the failed run is shown at: the writer takes it, the end falls back on it.
ToldAt ==
    (IF status = "failed" /\ WriterStage = "failed" THEN {"writer"} ELSE {})
        \cup (IF status = "failed" THEN {"final"} ELSE {})

----------------------------------------------------------------------------
(* Properties *)

\* Through every retry and stop the canvas shows a run for what it is: no draft of an earlier
\* attempt as the writer's, no draft at all before the agents have run, and of a run that has
\* failed without a draft, that the writer is where it broke.
CanvasIsOfThisAttempt ==
    /\ raw # 0 => raw = attempt /\ at # "agents"
    /\ status = "failed" /\ raw = 0 => WriterStage = "failed"
    /\ status = "completed" => WriterStage = "ok" /\ FinalStage = "ok"
    /\ ReviewStages # {"skipped"} => raw = attempt

\* An agent that has answered in this attempt is not shown as failed.
AnswerIsNotAFailure == \A a \in Agents : res[a] = "called" => AgentStage(a) # "failed"

\* What a comment of stages.go says: the reason of the failure is shown at the first broken node only.
ToldOnce == Cardinality(ToldAt) <= 1

\* The writer's time shown is that of the draft shown.
TimeIsOfTheDraft == raw # 0 => logged = {raw}
==============================================================================

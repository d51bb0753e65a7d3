------------------------------- MODULE RemixLab -------------------------------
(***************************************************************************)
(* The experiments of the remix lab: the rows of the runs, the goroutines  *)
(* that execute them and the requests that retry, rework, repeat, edit and *)
(* adopt a finished run (internal/remixlab, internal/store/remix_lab.go).  *)
(* A request reads the row, checks it and writes the whole row back in a   *)
(* later statement; a goroutine writes back the row it was started with.   *)
(* What happens inside one execution is module RemixFlow, what follows a   *)
(* finished one is module RemixProduction.                                 *)
(***************************************************************************)
EXTENDS Naturals, Functions

CONSTANTS Runs,        \* every run the experiment can have
          First,       \* the runs it is created with
          Callers,     \* HTTP handlers
          Workers,     \* goroutines executing a run
          MaxRequests, MaxRestarts   \* bounds of the instance

RemixAssumption == First \subseteq Runs /\ First # {}

VARIABLES kind,      \* how the experiment was made; "none": there is none
          exp,       \* remix_lab_experiments.status
          run,       \* remix_lab_runs
          drives,    \* goroutines at the start of drive
          worker, req, requests, restarts

vars == <<kind, exp, run, drives, worker, req, requests, restarts>>

InFlight == {"queued", "running"}
NoRun == [st |-> "none", text |-> FALSE, comment |-> FALSE, adopted |-> FALSE]
Idle == [at |-> "off"]
NoReq == [op |-> "none"]
Rows == [st : {"none", "queued", "running", "completed", "failed"},
         text : BOOLEAN, comment : BOOLEAN, adopted : BOOLEAN]

TypeOK ==
    /\ kind \in {"none", "prompts", "workflow", "manual"}
    /\ exp \in {"none", "running", "completed", "failed", "partial"}
    /\ run \in [Runs -> Rows] /\ drives \in Nat
    /\ \A w \in Workers : worker[w] = Idle
          \/ (worker[w].at \in {"start", "work", "review"} /\ worker[w].run \in Runs /\ worker[w].row \in Rows)
    /\ \A c \in Callers : req[c] = NoReq
          \/ (req[c].op \in {"retry", "rework", "rerun", "edit", "adopt"} /\ req[c].run \in Runs /\ req[c].row \in Rows)

Init ==
    /\ kind = "none" /\ exp = "none" /\ run = [r \in Runs |-> NoRun]
    /\ drives = 0 /\ worker = [w \in Workers |-> Idle]
    /\ req = [c \in Callers |-> NoReq] /\ requests = 0 /\ restarts = 0

----------------------------------------------------------------------------
(* The store *)

\* remixLabExperimentStatusFromRuns
StatusFromRuns(rows) ==
    LET S == {rows[r].st : r \in Runs} \ {"none"}
    IN  CASE S \cap InFlight # {} -> "running"
          [] S = {"completed"}    -> "completed"
          [] S \subseteq {"failed"} -> "failed"
          [] OTHER                -> "partial"

\* Mutant: the goroutine's copy of the comment is written back too.
UpdateWholeRow(r, row) ==
    IF run[r].st = "none" THEN UNCHANGED <<run, exp>>
    ELSE /\ run' = [run EXCEPT ![r] = row]
         /\ exp' = StatusFromRuns(run')

\* UpdateRun: the whole row but its comment, and the status of the experiment with it.
\* A row that was deleted is not found and nothing is written.
UpdateRun(r, row) ==
    IF run[r].st = "none" THEN UNCHANGED <<run, exp>>
    ELSE /\ run' = [run EXCEPT ![r] = [row EXCEPT !.comment = run[r].comment]]
         /\ exp' = StatusFromRuns(run')

----------------------------------------------------------------------------
(* New experiments *)

Create(k, st, text) ==
    /\ kind = "none" /\ requests = 0 /\ kind' = k
    /\ run' = [r \in Runs |-> IF r \in First THEN [NoRun EXCEPT !.st = st, !.text = text] ELSE NoRun]
    /\ UNCHANGED <<worker, req, requests, restarts>>

\* The rows are committed, then the drive is started: one run for each prompt and model asked for.
CreateExperimentWithPrompts == Create("prompts", "queued", FALSE) /\ exp' = "running" /\ drives' = 1
CreateWorkflowExperiment == Create("workflow", "queued", FALSE) /\ exp' = "running" /\ drives' = 1
\* A draft written elsewhere is stored as a finished run.
ImportDraft == Create("manual", "completed", TRUE) /\ exp' = "completed" /\ drives' = 0

\* The rows of the runs go with the experiment; goroutines are not told.
DeleteExperiment ==
    /\ kind # "none" /\ requests < MaxRequests
    /\ kind' = "none" /\ exp' = "none" /\ run' = [r \in Runs |-> NoRun]
    /\ requests' = requests + 1
    /\ UNCHANGED <<drives, worker, req, restarts>>

----------------------------------------------------------------------------
(* drive, executeRun, executeRework *)

\* Every run that is queued now, whoever queued it, gets a goroutine of its own.
Drive ==
    LET todo == {r \in Runs : run[r].st = "queued"}
    IN  /\ drives > 0 /\ drives' = drives - 1
        /\ \E f \in Injection(todo, {w \in Workers : worker[w] = Idle}) :
              worker' = [w \in Workers |->
                           IF \E r \in todo : f[r] = w
                           THEN LET r == CHOOSE q \in todo : f[q] = w
                                IN  [at |-> "start", run |-> r, row |-> run[r]]
                           ELSE worker[w]]
        /\ UNCHANGED <<kind, exp, run, req, requests, restarts>>

Row(w, st, text) == [worker[w].row EXCEPT !.st = st, !.text = text]

\* The start is persisted; when that fails the row is marked failed instead.
StartRun(w) ==
    /\ worker[w].at = "start"
    /\ \/ /\ UpdateRun(worker[w].run, Row(w, "running", worker[w].row.text))
          /\ worker' = [worker EXCEPT ![w] = IF run[worker[w].run].st = "none" THEN Idle
                                             ELSE [@ EXCEPT !.at = "work"]]
       \/ /\ UpdateRun(worker[w].run, Row(w, "failed", worker[w].row.text))
          /\ worker' = [worker EXCEPT ![w] = Idle]
    /\ UNCHANGED <<kind, drives, req, requests, restarts>>

\* A draft the pipeline kept survives a failure; a result that cannot be stored is a failure without one.
FinishRun(w) ==
    /\ worker[w].at = "work"
    /\ \E st \in {"completed", "failed"}, text \in BOOLEAN :
          /\ st = "completed" => text
          /\ UpdateRun(worker[w].run, Row(w, st, text))
    /\ worker' = [worker EXCEPT ![w] = Idle]
    /\ UNCHANGED <<kind, drives, req, requests, restarts>>

\* The reviewer may fail: the run is completed again with the text it had.
FinishRework(w) ==
    /\ worker[w].at = "review"
    /\ \E st \in {"completed", "failed"} : UpdateRun(worker[w].run, Row(w, st, worker[w].row.text))
    /\ worker' = [worker EXCEPT ![w] = Idle]
    /\ UNCHANGED <<kind, drives, req, requests, restarts>>

----------------------------------------------------------------------------
(* Requests on a finished run *)

\* What each request accepts when it reads the run.
Accepts(op, row) ==
    CASE op = "retry"  -> kind # "manual" /\ (row.st = "failed" \/ (row.st = "completed" /\ kind = "workflow"))
      [] op = "rework" -> kind # "manual" /\ row.st = "completed" /\ row.text
      [] op = "rerun"  -> kind # "manual" /\ row.st \in {"completed", "failed"}
      [] op = "edit"   -> row.st = "completed"
      [] op = "adopt"  -> row.st = "completed" /\ row.text

Ask(c, op, r) ==
    /\ req[c] = NoReq /\ requests < MaxRequests /\ requests' = requests + 1
    /\ run[r].st # "none" /\ Accepts(op, run[r])
    /\ req' = [req EXCEPT ![c] = [op |-> op, run |-> r, row |-> run[r]]]
    /\ UNCHANGED <<kind, exp, run, drives, worker, restarts>>

Done(c) == req' = [req EXCEPT ![c] = NoReq] /\ UNCHANGED <<kind, requests, restarts>>
Asked(c, op) == req[c].op = op

\* Mutant: the run is queued and nothing is started for it.
QueueOnly(c) ==
    /\ Asked(c, "retry") /\ Done(c)
    /\ UpdateRun(req[c].run, [req[c].row EXCEPT !.st = "queued"])
    /\ UNCHANGED <<drives, worker>>
RetryRun(c) ==
    /\ Asked(c, "retry") /\ Done(c)
    /\ UpdateRun(req[c].run, [req[c].row EXCEPT !.st = "queued"])
    /\ drives' = IF run[req[c].run].st = "none" THEN drives ELSE drives + 1
    /\ UNCHANGED worker

Rework(c) ==
    /\ Asked(c, "rework") /\ Done(c)
    /\ UpdateRun(req[c].run, [req[c].row EXCEPT !.st = "running"])
    /\ IF run[req[c].run].st = "none" THEN UNCHANGED worker
       ELSE \E w \in Workers :
               /\ worker[w] = Idle
               /\ worker' = [worker EXCEPT ![w] = [at |-> "review", run |-> req[c].run, row |-> req[c].row]]
    /\ UNCHANGED drives

\* In one transaction with the count of the runs in flight.
AppendRemixRun(r) ==
    /\ run[r].st = "none"
    /\ run' = [run EXCEPT ![r] = [NoRun EXCEPT !.st = "queued"]] /\ exp' = "running"

Rerun(c) ==
    /\ Asked(c, "rerun") /\ Done(c)
    /\ IF kind = "none" \/ \E r \in Runs : run[r].st \in InFlight
       THEN UNCHANGED <<run, exp, drives>>
       ELSE \E r \in Runs : AppendRemixRun(r) /\ drives' = drives + 1
    /\ UNCHANGED worker

\* Columns of their own: the status of the row when they are written is not looked at.
UpdateRunPackage(c) ==
    /\ Asked(c, "edit") /\ Done(c)
    /\ run' = IF run[req[c].run].st = "none" THEN run ELSE [run EXCEPT ![req[c].run].text = TRUE]
    /\ UNCHANGED <<exp, drives, worker>>

\* The script becomes an asset of the project first; that part may fail.
Adopt(c) ==
    /\ Asked(c, "adopt") /\ Done(c)
    /\ run' \in {run, IF run[req[c].run].st = "none" THEN run ELSE [run EXCEPT ![req[c].run].adopted = TRUE]}
    /\ UNCHANGED <<exp, drives, worker>>

PatchComment(r) ==
    /\ run[r].st # "none" /\ ~run[r].comment /\ requests < MaxRequests
    /\ run' = [run EXCEPT ![r].comment = TRUE] /\ requests' = requests + 1
    /\ UNCHANGED <<kind, exp, drives, worker, req, restarts>>

----------------------------------------------------------------------------
(* Restart *)

\* FailNonTerminal: every run in flight fails, and each of their experiments is judged again.
FailNonTerminal ==
    /\ run' = [r \in Runs |-> IF run[r].st \in InFlight THEN [run[r] EXCEPT !.st = "failed"] ELSE run[r]]
    /\ exp' = IF run' = run THEN exp ELSE StatusFromRuns(run')

\* Mutant: a run that is still queued is left for a drive that no longer exists.
FailRunningOnly ==
    /\ run' = [r \in Runs |-> IF run[r].st = "running" THEN [run[r] EXCEPT !.st = "failed"] ELSE run[r]]
    /\ exp' = IF run' = run THEN exp ELSE StatusFromRuns(run')
\* Mutant: the experiments are not judged again.
FailRunsOnly ==
    /\ run' = [r \in Runs |-> IF run[r].st \in InFlight THEN [run[r] EXCEPT !.st = "failed"] ELSE run[r]]
    /\ UNCHANGED exp

Restart ==
    /\ kind # "none" /\ restarts < MaxRestarts /\ restarts' = restarts + 1
    /\ FailNonTerminal
    /\ drives' = 0 /\ worker' = [w \in Workers |-> Idle] /\ req' = [c \in Callers |-> NoReq]
    /\ UNCHANGED <<kind, requests>>

----------------------------------------------------------------------------

Working(w) == StartRun(w) \/ FinishRun(w) \/ FinishRework(w)
Answering(c) == RetryRun(c) \/ Rework(c) \/ Rerun(c) \/ UpdateRunPackage(c) \/ Adopt(c)

Next ==
    \/ CreateExperimentWithPrompts \/ CreateWorkflowExperiment \/ ImportDraft
    \/ DeleteExperiment \/ Drive \/ Restart
    \/ \E w \in Workers : Working(w)
    \/ \E c \in Callers : Answering(c)
    \/ \E c \in Callers, r \in Runs, op \in {"retry", "rework", "rerun", "edit", "adopt"} : Ask(c, op, r)
    \/ \E r \in Runs : PatchComment(r)

Spec == Init /\ [][Next]_vars

\* Goroutines are scheduled; requests and restarts need not come.
Fairness == WF_vars(Drive) /\ \A w \in Workers : WF_vars(Working(w))
FairSpec == Spec /\ Fairness

----------------------------------------------------------------------------
(* Properties *)

\* The status of the experiment is at every moment what the statuses of its runs say,
\* whichever of the writers of a run wrote last.
ExperimentStatusIsCurrent == exp = IF kind = "none" THEN "none" ELSE StatusFromRuns(run)

\* A run is never left in flight with nobody to move it: a queued one has a drive that will
\* read it or a goroutine about to start it, a running one has a goroutine working on it.
InFlightIsDriven ==
    \A r \in Runs :
       /\ run[r].st = "queued" => drives > 0 \/ \E w \in Workers : worker[w] # Idle /\ worker[w].run = r
       /\ run[r].st = "running" => \E w \in Workers : worker[w].at \in {"work", "review"} /\ worker[w].run = r

\* An operator's comment outlives every row a goroutine or a request writes back.
KeepsComments == \A r \in Runs : run[r].comment /\ run'[r].st # "none" => run'[r].comment
CommentIsKept == [][KeepsComments]_vars

\* Every run in flight is decided.
Undecided(r) == run[r].st \in InFlight
RunsAreDecided == \A r \in Runs : Undecided(r) ~> ~Undecided(r)
==============================================================================

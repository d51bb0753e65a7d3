--------------------------- MODULE RemixProduction ---------------------------
(***************************************************************************)
(* The production of one finished run of the remix lab: the confirm gate,  *)
(* the driver that calls the console's own API step by step, redoing a     *)
(* step, deleting the experiment and resuming after a restart              *)
(* (internal/remixlab/production.go, internal/remixproducer/driver.go,     *)
(* internal/store/remix_lab_production.go). The driver works on a copy of  *)
(* the row and writes the whole copy back; the row is lost with its run.   *)
(* appendProductionStages of internal/remixlab/stages.go derives what the  *)
(* canvas shows of it. The tasks and the narration the API starts are      *)
(* external.                                                               *)
(***************************************************************************)
EXTENDS Naturals, Sequences

CONSTANTS Callers, Auto, CaptionsDisabled,
          MaxTasks, MaxRequests, MaxFinishes, MaxRestarts, MaxFaults   \* bounds of the instance

\* Tasks are numbered, and an experiment either has captions or not.
ProductionAssumption == MaxTasks \in Nat /\ CaptionsDisabled \in BOOLEAN

VARIABLES row,       \* remix_lab_productions
          active,    \* Driver.active
          drv,       \* the goroutine of Driver.run and its copy of the row
          task,      \* the tasks the API has started, by id
          voice,     \* the narration of the project
          gate,      \* the goroutine that finished the run, at the gate
          req, requests, finishes, restarts,
          ignored,   \* the last Launch found an active entry
          lost,      \* the last statement of the driver on the row failed
          faults

vars == <<row, active, drv, task, voice, gate, req, requests, finishes, restarts, ignored, lost, faults>>
counts == <<requests, finishes, restarts, faults>>

Kinds == {"spoken", "captions", "montage"}
Steps == {"confirm", "project", "spoken", "captions", "narration", "montage", "done"}
NoTasks == [k \in Kinds |-> 0]
Row(status, step) == [status |-> status, step |-> step, project |-> FALSE, task |-> NoTasks, force |-> FALSE]
None == Row("none", "confirm")
Rows == [status : {"none", "waiting_confirm", "running", "completed", "failed"}, step : Steps,
         project : BOOLEAN, task : [Kinds -> 0..MaxTasks], force : BOOLEAN]
Started == {t \in 1..MaxTasks : task[t].st # "none"}

TypeOK ==
    /\ row \in Rows /\ active \in BOOLEAN /\ ignored \in BOOLEAN /\ lost \in BOOLEAN
    /\ drv.at \in {"off", "load", "step", "wait", "exit"} /\ drv.rec \in Rows
    /\ task \in [1..MaxTasks -> [kind : Kinds, st : {"none", "active", "completed", "failed"}]]
    /\ voice \in [ready : BOOLEAN, busy : BOOLEAN]
    /\ gate \in {"off", "read", "absent"}
    /\ \A c \in Callers : req[c].op \in {"none", "start"} \cup Steps /\ req[c].row \in Rows

Off == [at |-> "off", rec |-> None]
NoReq == [op |-> "none", row |-> None]

Init ==
    /\ row = None /\ active = FALSE /\ drv = Off /\ ignored = FALSE /\ lost = FALSE
    /\ task = [t \in 1..MaxTasks |-> [kind |-> "spoken", st |-> "none"]]
    /\ voice = [ready |-> FALSE, busy |-> FALSE]
    /\ gate = "off" /\ req = [c \in Callers |-> NoReq]
    /\ requests = 0 /\ finishes = 0 /\ restarts = 0 /\ faults = 0

\* Launch: nothing happens while an entry of the run is in the active map.
Launch ==
    /\ active' = TRUE /\ ignored' = active /\ lost' = (active /\ lost)
    /\ drv' = IF active THEN drv ELSE [at |-> "load", rec |-> None]

Unlaunched == UNCHANGED <<active, drv, ignored, lost>>

Save(r) == row' = IF row.status = "none" THEN row ELSE r

\* The driver only logs the failure of a save, and goes on with its copy.
Record(r) == \/ Save(r) /\ lost' = FALSE /\ faults' = faults
             \/ faults < MaxFaults /\ faults' = faults + 1 /\ lost' = TRUE /\ row' = row

----------------------------------------------------------------------------
(* The confirm gate: afterWorkflowRunCompleted, after executeRun or executeRework *)

FinishRun ==
    /\ gate = "off" /\ finishes < MaxFinishes /\ finishes' = finishes + 1
    /\ gate' = "read"
    /\ UNCHANGED <<row, active, drv, task, voice, req, requests, restarts, ignored, lost, faults>>

ReadGate ==
    /\ gate = "read"
    /\ gate' = IF row.status = "none" THEN "absent" ELSE "off"
    /\ UNCHANGED <<row, active, drv, task, voice, req, counts, ignored, lost>>

\* UpsertProduction writes over a row that came since.
WriteGate ==
    /\ gate = "absent" /\ gate' = "off"
    /\ IF Auto THEN row' = Row("running", "project") /\ Launch
       ELSE row' = Row("waiting_confirm", "confirm") /\ Unlaunched
    /\ UNCHANGED <<task, voice, req, counts>>

----------------------------------------------------------------------------
(* Requests: the row is read, then written and the driver launched *)

\* StartProduction needs a finished run; with no row it makes one.
ReadStart(c) ==
    /\ req[c] = NoReq /\ requests < MaxRequests /\ requests' = requests + 1
    /\ finishes > 0 /\ row.status \in {"none", "waiting_confirm", "failed"}
    /\ req' = [req EXCEPT ![c] = [op |-> "start", row |-> row]]
    /\ UNCHANGED <<row, active, drv, task, voice, gate, finishes, restarts, ignored, lost, faults>>

\* A failed production goes on where it stopped, a waiting one starts from the project.
StartProduction(c) ==
    /\ req[c].op = "start" /\ req' = [req EXCEPT ![c] = NoReq]
    /\ LET old == req[c].row
       IN  IF old.status = "none" THEN row' = Row("running", "project") /\ Launch
           ELSE /\ Save([old EXCEPT !.status = "running",
                                    !.step = IF old.status = "failed" THEN @ ELSE "project"])
                /\ IF row.status = "none" THEN Unlaunched ELSE Launch
    /\ UNCHANGED <<task, voice, gate, counts>>

ReadRedo(c, step) ==
    /\ req[c] = NoReq /\ requests < MaxRequests /\ requests' = requests + 1
    /\ row.status \in {"completed", "failed"} /\ row.project
    /\ step = "captions" => ~CaptionsDisabled
    /\ req' = [req EXCEPT ![c] = [op |-> step, row |-> row]]
    /\ UNCHANGED <<row, active, drv, task, voice, gate, finishes, restarts, ignored, lost, faults>>

\* The tasks a redone step makes obsolete.
Cleared(step) ==
    CASE step = "spoken"    -> Kinds
      [] step = "captions"  -> {"captions", "montage"}
      [] OTHER              -> {"montage"}

RedoProductionStep(c, step) ==
    /\ req[c].op = step /\ req' = [req EXCEPT ![c] = NoReq]
    /\ Save([req[c].row EXCEPT !.status = "running", !.step = step,
                               !.task = [k \in Kinds |-> IF k \in Cleared(step) THEN 0 ELSE @[k]],
                               !.force = @ \/ step \in {"spoken", "narration"}])
    /\ IF row.status = "none" THEN Unlaunched ELSE Launch
    /\ UNCHANGED <<task, voice, gate, counts>>

DeleteExperiment ==
    /\ row.status # "none" /\ requests < MaxRequests /\ requests' = requests + 1
    /\ row' = None
    /\ UNCHANGED <<active, drv, task, voice, gate, req, finishes, restarts, ignored, lost, faults>>

----------------------------------------------------------------------------
(* Driver.run *)

At(step) == drv.at = "step" /\ drv.rec.step = step
Others == UNCHANGED <<active, gate, req, requests, finishes, restarts, ignored>>
Kept == UNCHANGED <<lost, faults>>

\* A row that could not be read ends the driver.
Load ==
    /\ drv.at = "load"
    /\ \/ drv' = (IF row.status = "running" THEN [at |-> "step", rec |-> row] ELSE [drv EXCEPT !.at = "exit"]) /\ Kept
       \/ drv' = [drv EXCEPT !.at = "exit"] /\ faults < MaxFaults /\ faults' = faults + 1 /\ lost' = TRUE
    /\ UNCHANGED <<row, task, voice>> /\ Others

\* The montage is the last step: its success is saved together with the end.
Advance(rec, step) ==
    /\ drv' = IF step = "done" THEN [at |-> "exit", rec |-> [rec EXCEPT !.step = "done", !.status = "completed"]]
              ELSE [at |-> "step", rec |-> [rec EXCEPT !.step = step]]
    /\ Record(drv'.rec)
FailStep(rec) ==
    /\ drv' = [at |-> "exit", rec |-> [rec EXCEPT !.status = "failed"]]
    /\ Record(drv'.rec)

\* The project is created and given the script; a failure leaves one that nobody remembers.
StepProject ==
    /\ At("project")
    /\ \/ Advance([drv.rec EXCEPT !.project = TRUE], "spoken")
       \/ ~drv.rec.project /\ FailStep(drv.rec)
    /\ UNCHANGED <<task, voice>> /\ Others

\* The API answers with the active task of the kind when there is one.
CreateTask(k) ==
    \E t \in 1..MaxTasks :
       /\ \/ task[t].st = "active" /\ task[t].kind = k /\ UNCHANGED task
          \/ /\ \A u \in Started : task[u].kind = k => task[u].st # "active"
             /\ task[t].st = "none" /\ \A u \in 1..(t-1) : u \in Started
             /\ task' = [task EXCEPT ![t] = [kind |-> k, st |-> "active"]]
       /\ drv' = [at |-> "wait", rec |-> [drv.rec EXCEPT !.task[k] = t]]
       /\ Record(drv'.rec)

After(k) == CASE k = "spoken" -> "captions" [] k = "captions" -> "narration" [] OTHER -> "done"

\* The task an earlier attempt left: finished, under way, or to be replaced.
StepTask(k) ==
    LET old == drv.rec.task[k]
        st == IF old = 0 THEN "none" ELSE task[old].st
    IN  /\ At(k) /\ (k = "captions" => ~CaptionsDisabled)
        /\ \/ st = "completed" /\ Advance(drv.rec, After(k)) /\ UNCHANGED task
           \/ st = "active" /\ k # "captions" /\ drv' = [drv EXCEPT !.at = "wait"] /\ UNCHANGED <<row, task>> /\ Kept
           \/ CreateTask(k)
           \/ (IF k = "captions" THEN Advance(drv.rec, After(k)) ELSE FailStep(drv.rec)) /\ UNCHANGED task
        /\ UNCHANGED voice /\ Others

SkipCaptions ==
    /\ At("captions") /\ CaptionsDisabled /\ Advance(drv.rec, "narration")
    /\ UNCHANGED <<task, voice>> /\ Others

\* Mutant: the end of the task is not looked at.
WaitAny(k) ==
    /\ drv.at = "wait" /\ drv.rec.step = k /\ task[drv.rec.task[k]].st # "active"
    /\ Advance(drv.rec, After(k))
    /\ UNCHANGED <<task, voice>> /\ Others
\* Mutant: there is no deadline.
WaitForever(k) ==
    /\ drv.at = "wait" /\ drv.rec.step = k
    /\ LET st == task[drv.rec.task[k]].st
       IN  \/ (st = "completed" \/ (k = "captions" /\ st = "failed")) /\ Advance(drv.rec, After(k))
           \/ st = "failed" /\ k # "captions" /\ FailStep(drv.rec)
    /\ UNCHANGED <<task, voice>> /\ Others
\* waitTask polls until the task ends, a poll fails or the deadline has passed; the
\* captions are optional.
WaitTask(k) ==
    /\ drv.at = "wait" /\ drv.rec.step = k
    /\ \/ (k = "captions" \/ task[drv.rec.task[k]].st = "completed") /\ Advance(drv.rec, After(k))
       \/ k # "captions" /\ FailStep(drv.rec)
    /\ UNCHANGED <<task, voice>> /\ Others

\* A narration under way elsewhere is waited for by looking whether one is ready.
StepNarration ==
    /\ At("narration")
    /\ \/ ~drv.rec.force /\ voice.ready /\ Advance(drv.rec, "montage") /\ UNCHANGED voice
       \/ ~voice.busy /\ Advance([drv.rec EXCEPT !.force = FALSE], "montage")
          /\ voice' = [voice EXCEPT !.ready = TRUE]
       \/ voice.busy /\ voice.ready /\ Advance([drv.rec EXCEPT !.force = FALSE], "montage") /\ UNCHANGED voice
       \/ FailStep(drv.rec) /\ UNCHANGED voice
    /\ UNCHANGED task /\ Others

\* The entry leaves the active map after the last save, in a step of its own.
Exit ==
    /\ drv.at = "exit" /\ active' = FALSE /\ drv' = Off
    /\ UNCHANGED <<row, task, voice, gate, req, counts, ignored, lost>>

----------------------------------------------------------------------------
(* The rest of the console, and restarts *)

EndTask(t) ==
    /\ task[t].st = "active" /\ \E st \in {"completed", "failed"} : task' = [task EXCEPT ![t].st = st]
    /\ UNCHANGED <<row, drv, voice>> /\ Others /\ Kept

OtherNarration ==
    /\ row.project
    /\ voice' \in IF voice.busy THEN {[voice EXCEPT !.busy = FALSE], [ready |-> TRUE, busy |-> FALSE]}
                  ELSE {[voice EXCEPT !.busy = TRUE]}
    /\ UNCHANGED <<row, drv, task>> /\ Others /\ Kept

\* Mutant: productions are not resumed.
ForgetAll == drv' = Off /\ active' = FALSE /\ ignored' = FALSE /\ lost' = FALSE
\* ResumeAll launches every production whose row is running.
ResumeAll ==
    /\ active' = (row.status = "running") /\ ignored' = FALSE /\ lost' = FALSE
    /\ drv' = IF row.status = "running" THEN [at |-> "load", rec |-> None] ELSE Off

Restart ==
    /\ restarts < MaxRestarts /\ restarts' = restarts + 1
    /\ ResumeAll
    /\ gate' = "off" /\ req' = [c \in Callers |-> NoReq] /\ voice' = [voice EXCEPT !.busy = FALSE]
    /\ UNCHANGED <<row, task, requests, finishes, faults>>

Driving ==
    \/ Load \/ StepProject \/ SkipCaptions \/ StepNarration \/ Exit
    \/ \E k \in Kinds : StepTask(k) \/ WaitTask(k)

Next ==
    \/ FinishRun \/ ReadGate \/ WriteGate \/ DeleteExperiment \/ Driving \/ OtherNarration \/ Restart
    \/ \E c \in Callers : ReadStart(c) \/ StartProduction(c)
    \/ \E c \in Callers, s \in {"spoken", "captions", "narration", "montage"} : ReadRedo(c, s) \/ RedoProductionStep(c, s)
    \/ \E t \in 1..MaxTasks : EndTask(t)

Spec == Init /\ [][Next]_vars

\* The driver's goroutine is scheduled; tasks, requests and restarts need not come.
Fairness == WF_vars(Driving)
FairSpec == Spec /\ Fairness

----------------------------------------------------------------------------
(* What the canvas shows: a node per step *)

StepOrder == [confirm |-> 0, project |-> 1, spoken |-> 2, captions |-> 3, narration |-> 4, montage |-> 5, done |-> 6]
AllNodes == <<"project", "spoken", "captions", "narration", "montage">>

\* The captions have no node when the workflow has none.
Nodes == IF CaptionsDisabled THEN <<"project", "spoken", "narration", "montage">> ELSE AllNodes

\* Mutant: the position among the nodes shown is taken for the number of the step.
OrderShown(i) == i
Order(i) == StepOrder[Nodes[i]]

NodeStage(i) ==
    LET current == StepOrder[row.step]
    IN  CASE row.status = "waiting_confirm" -> "missing"
          [] row.status # "waiting_confirm" /\ (Order(i) < current \/ row.step = "done") ->
                 IF Nodes[i] = "captions" /\ row.task["captions"] = 0 THEN "skipped" ELSE "ok"
          [] row.status # "waiting_confirm" /\ Order(i) = current /\ row.step # "done" ->
                 IF row.status = "completed" THEN "ok" ELSE row.status
          [] OTHER -> "missing"

GateStage == IF row.status = "waiting_confirm" THEN "waiting" ELSE "ok"

PublishStage == IF row.status = "completed" THEN "waiting" ELSE "missing"

\* The driver is just passing over the captions that have no node.
Passing == CaptionsDisabled /\ row.status = "running" /\ row.step = "captions"

----------------------------------------------------------------------------
(* Properties *)

\* A production that is completed has a project and a draft task that completed, through every
\* redo, resume and request that wrote an older row back.
CompletedHasDraft ==
    row.status = "completed" => /\ row.project /\ row.task["montage"] # 0
                                /\ task[row.task["montage"]].st = "completed"

\* A production marked running has a driver, also after a restart, unless the launch that
\* should have given it one met the entry of the driver before, or the driver could not
\* record how it ended.
RunningIsDriven == row.status = "running" /\ ~ignored /\ ~lost => active

\* A driver ends, whatever the tasks it waits for do.
Driven == drv.at # "off"
DriverEnds == Driven ~> ~Driven

\* What remixproducer says of a narration under way elsewhere: its result is waited for.
OtherNarrationIsAwaited ==
    [][At("narration") /\ drv'.rec.step = "montage" /\ drv.rec.force => ~voice.busy]_vars

\* The canvas shows exactly where the production is: what runs or has failed is one node, all
\* before it are done, none after it is, and a finished one waits to be published.
CanvasShowsTheStep ==
    row.status # "none" =>
        LET at == {i \in DOMAIN Nodes : NodeStage(i) \in {"running", "failed"}}
        IN  /\ row.status \in {"running", "failed"} /\ ~Passing => \E i \in at : at = {i} /\ Nodes[i] = row.step
            /\ row.status \in {"waiting_confirm", "completed"} => at = {}
            /\ \A i \in at, j \in DOMAIN Nodes : /\ j < i => NodeStage(j) \in {"ok", "skipped"}
                                                 /\ j > i => NodeStage(j) = "missing"
            /\ row.status = "completed" => \A j \in DOMAIN Nodes : NodeStage(j) \in {"ok", "skipped"}
            /\ (PublishStage = "waiting") = (row.status = "completed")
            /\ (GateStage = "waiting") = (row.status = "waiting_confirm")
==============================================================================

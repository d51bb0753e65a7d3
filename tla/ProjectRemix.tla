---------------------------- MODULE ProjectRemix ----------------------------
(***************************************************************************)
(* The remix workflow of one project (workflow/remix.go, store/workflows.go *)
(* and httpapi/workflow_launcher.go): a run makes a topic card if there is  *)
(* none, then a remix, each by a task of its own.  A run is carried on by   *)
(* whoever holds the coordinator's mutex: the request that started it, the  *)
(* observer of a task that ended, or the reconciliation of a restart.       *)
(* Between the launch of a task and its binding to the run the console may  *)
(* crash and the task may end; the card is read before the status of the    *)
(* task that writes it.                                                     *)
(***************************************************************************)
EXTENDS Naturals, Sequences, FiniteSets

CONSTANTS Callers, MaxRuns, MaxRequests, MaxRestarts

\* The resumers and the free mutex have names that differ.
CallerAssumption == Callers \cap {"free", "observer", "reconciler"} = {} /\ MaxRuns \in Nat

Steps == {"topic", "remix"}
TaskIds == (1..MaxRuns) \X Steps \X (1..2)      \* 1: the deterministic id

VARIABLES runs,         \* project_workflow_runs: state, step and bound tasks (0 none)
          task,         \* the status of every task, "none" before it exists
          card,         \* is there a ready topic card?
          proc,         \* the resumers: the run each is at and what it does next
          mu,           \* RemixCoordinator.mu
          observers,    \* ended tasks whose AfterTerminal has not run
          reconciling,  \* runs that ReconcileTerminalWorkflows has yet to resume
          requests, restarts

vars == <<runs, task, card, proc, mu, observers, reconciling, requests, restarts>>

Resumers == Callers \cup {"observer", "reconciler"}
Free == [pc |-> "idle", run |-> 0, new |-> 0, card |-> FALSE]
Terminal == {"completed", "failed"}

Init == /\ runs = <<>> /\ task = [t \in TaskIds |-> "none"] /\ card \in BOOLEAN
        /\ proc = [p \in Resumers |-> Free] /\ mu = "free"
        /\ observers = {} /\ reconciling = {} /\ requests = 0 /\ restarts = 0

Running == {r \in DOMAIN runs : runs[r].state = "running"}
Lock(p, r) == mu = "free" /\ mu' = p /\ proc' = [proc EXCEPT ![p] = [Free EXCEPT !.pc = "resume", !.run = r]]
Unlock(p) == mu' = "free" /\ proc' = [proc EXCEPT ![p] = Free]

\* Start with BeginRemix: the run in progress, or a new one.
Start(c) ==
    /\ proc[c].pc = "idle" /\ reconciling = {} /\ proc["reconciler"].pc = "idle"
    /\ requests < MaxRequests /\ requests' = requests + 1
    /\ IF Running # {} THEN runs' = runs /\ Lock(c, CHOOSE r \in Running : TRUE)
       ELSE /\ Len(runs) < MaxRuns
            /\ runs' = Append(runs, [state |-> "running", step |-> "topic", topic |-> 0, remix |-> 0])
            /\ Lock(c, Len(runs) + 1)
    /\ UNCHANGED <<task, card, observers, reconciling, restarts>>

\* The client is gone before anything was launched: neither the resumption nor
\* the failure can be written, and the run stays as it is.
Abandon(c) ==
    /\ proc[c].pc = "resume" /\ c \in Callers /\ Unlock(c)
    /\ UNCHANGED <<runs, task, card, observers, reconciling, requests, restarts>>

\* AfterTerminal: the running run that the task is bound to, if there is one.
AfterTerminal ==
    \E t \in observers :
       /\ proc["observer"].pc = "idle" /\ mu = "free"
       /\ observers' = observers \ {t}
       /\ IF t[1] \in Running /\ runs[t[1]][t[2]] = t[3] THEN Lock("observer", t[1])
          ELSE UNCHANGED <<mu, proc>>
       /\ UNCHANGED <<runs, task, card, reconciling, requests, restarts>>

Reconcile ==
    /\ proc["reconciler"].pc = "idle"
    /\ \E r \in reconciling : /\ \A q \in reconciling : r <= q
                              /\ reconciling' = reconciling \ {r}
                              /\ Lock("reconciler", r)
    /\ UNCHANGED <<runs, task, card, observers, requests, restarts>>

---------------------------------------------------------------------------
(* resumeRunLocked                                                         *)

Status(r, s) == task[<<r, s, runs[r][s]>>]

\* readyTopicCard, once in every turn of the loop.
ReadCard(p) ==
    LET r == proc[p].run
    IN /\ proc[p].pc = "resume" /\ runs[r].state = "running" /\ runs[r].step = "topic"
       /\ proc' = [proc EXCEPT ![p].pc = "decide", ![p].card = card]
       /\ UNCHANGED <<runs, task, card, mu, observers, reconciling, requests, restarts>>

FailRun(r) == runs' = [runs EXCEPT ![r].state = "failed"]

\* workflowStepTaskID: one identity per run and step, so that a launch that
\* was not bound is found again.
FreshTaskId(r, s) == IF task[<<r, s, 1>>] = "none" THEN 1 ELSE 2

StepTaskId(r, s) == 1

\* Launch: an existing task is returned as it is; otherwise it is prepared and
\* published.  A failed preparation leaves a failed task, a failed publication
\* leaves a queued one; either ends the run.
Launch(p, s) ==
    LET r == proc[p].run
        k == StepTaskId(r, s)
        t == <<r, s, k>>
        fresh == task[t] = "none"
    IN \/ /\ task' = IF fresh THEN [task EXCEPT ![t] = "queued"] ELSE task
          /\ proc' = [proc EXCEPT ![p].pc = s, ![p].new = k]
          /\ UNCHANGED <<runs, mu>>
       \/ /\ task[t] \in {"none", "queued"}
          /\ task' = IF fresh THEN [task EXCEPT ![t] = "failed"] ELSE task
          /\ FailRun(r) /\ Unlock(p)
       \/ /\ fresh
          /\ task' = [task EXCEPT ![t] = "queued"]
          /\ FailRun(r) /\ Unlock(p)

LaunchAfterAnyEnd(p) ==
    LET r == proc[p].run
    IN /\ proc[p].pc = "decide"
       /\ IF runs[r].topic = 0 THEN Launch(p, IF proc[p].card THEN "remix" ELSE "topic")
          ELSE Status(r, "topic") \in Terminal /\ proc[p].card /\ Launch(p, "remix")
       /\ UNCHANGED <<card, observers, reconciling, requests, restarts>>

LaunchNext(p) ==
    LET r == proc[p].run
    IN /\ proc[p].pc = "decide"
       /\ IF runs[r].topic = 0 THEN Launch(p, IF proc[p].card THEN "remix" ELSE "topic")
          ELSE Status(r, "topic") = "completed" /\ proc[p].card /\ Launch(p, "remix")
       /\ UNCHANGED <<card, observers, reconciling, requests, restarts>>

\* BindTopicTask, AdvanceToRemix, AdvanceExistingTopicCardToRemix; a bound
\* topic task is looked at in the same turn, with the card as it was read.
Bind(p) ==
    LET s == proc[p].pc
        r == proc[p].run
    IN /\ s \in Steps
       /\ runs' = [runs EXCEPT ![r][s] = proc[p].new, ![r].step = s]
       /\ proc' = [proc EXCEPT ![p].pc = IF s = "topic" THEN "decide" ELSE "resume", ![p].new = 0]
       /\ UNCHANGED <<task, card, mu, observers, reconciling, requests, restarts>>

\* A completed topic task without a card fails the run.
NoCard(p) ==
    LET r == proc[p].run
    IN proc[p].pc = "decide" /\ runs[r].topic # 0 /\ Status(r, "topic") = "completed" /\ ~proc[p].card

\* The bound task decides: still at work, completed, or failed.
Settle(p) ==
    LET r == proc[p].run
        s == runs[r].step
    IN /\ proc[p].pc \in {"resume", "decide"}
       /\ \/ proc[p].pc = "resume" /\ runs[r].state # "running" /\ runs' = runs
          \/ /\ proc[p].pc = IF s = "topic" THEN "decide" ELSE "resume"
             /\ runs[r].state = "running" /\ runs[r][s] # 0
             /\ \/ Status(r, s) \notin Terminal /\ runs' = runs
                \/ Status(r, s) = "failed" /\ FailRun(r)
                \/ NoCard(p) /\ FailRun(r)
                \/ s = "remix" /\ Status(r, s) = "completed"
                   /\ runs' = [runs EXCEPT ![r].state = "completed"]
       /\ Unlock(p)
       /\ UNCHANGED <<task, card, observers, reconciling, requests, restarts>>

---------------------------------------------------------------------------
(* The scheduler and the agents; a completed topic task writes the card     *)
(* unless the agent returned none.                                          *)

RunTask(t) ==
    /\ task[t] = "queued" /\ task' = [task EXCEPT ![t] = "running"]
    /\ UNCHANGED <<runs, card, proc, mu, observers, reconciling, requests, restarts>>

EndTask(t) ==
    /\ \/ task[t] = "running" /\ task' = [task EXCEPT ![t] = "completed"]
          /\ (IF t[2] = "topic" THEN card' \in {card, TRUE} ELSE card' = card)
       \/ task[t] \in {"queued", "running"} /\ task' = [task EXCEPT ![t] = "failed"] /\ card' = card
    /\ observers' = observers \cup {t}
    /\ UNCHANGED <<runs, proc, mu, reconciling, requests, restarts>>

ReconcileNobody == reconciling' = {}

\* ReconcileTerminalWorkflows takes every running run.
ReconcileTerminalWorkflows == reconciling' = Running

\* InterruptInFlight ends the running tasks, with no observer to call.
Restart ==
    /\ restarts < MaxRestarts /\ restarts' = restarts + 1
    /\ proc' = [p \in Resumers |-> Free] /\ mu' = "free" /\ observers' = {}
    /\ task' = [t \in TaskIds |-> IF task[t] = "running" THEN "failed" ELSE task[t]]
    /\ ReconcileTerminalWorkflows
    /\ UNCHANGED <<runs, card, requests>>

Observing == AfterTerminal \/ Reconcile
Resuming == \E p \in Resumers : ReadCard(p) \/ LaunchNext(p) \/ Bind(p) \/ Settle(p)
Step == \/ Observing \/ Resuming
        \/ \E t \in TaskIds : RunTask(t) \/ EndTask(t)

Next == Step \/ Restart \/ \E c \in Callers : Start(c) \/ Abandon(c)

Spec == Init /\ [][Next]_vars
FairSpec == Spec /\ WF_vars(Observing) /\ WF_vars(Resuming)
                 /\ \A t \in TaskIds : WF_vars(RunTask(t) \/ EndTask(t))

---------------------------------------------------------------------------
TypeOK ==
    /\ \A r \in DOMAIN runs : /\ runs[r].state \in {"running", "completed", "failed"}
                              /\ runs[r].step \in Steps
    /\ mu \in {"free"} \cup Resumers
    /\ mu # "free" <=> \E p \in Resumers : proc[p].pc # "idle"

\* Whatever crashes and retries come between the launch of a task and its
\* binding, a run has one topic task and one remix task.
OneTaskPerStep ==
    \A r \in 1..MaxRuns, s \in Steps : Cardinality({k \in 1..2 : task[<<r, s, k>>] # "none"}) <= 1

\* A completed run did its steps: its remix completed, and the topic task that
\* was to write its card, if it had one, had completed before the remix began.
CompletedRunDidItsSteps ==
    \A r \in DOMAIN runs :
        /\ runs[r].state = "completed" => Status(r, "remix") = "completed"
        /\ runs[r].remix # 0 => card /\ (runs[r].topic # 0 => Status(r, "topic") = "completed")

\* A running run whose task has ended is moved on, by the observer of the task
\* or, when the console crashed between the two, by the reconciliation.
StepEnded(r, s) == r \in Running /\ runs[r].step = s /\ runs[r][s] # 0 /\ Status(r, s) \in Terminal
MovedOn(r, s) == r \notin Running \/ runs[r].step # s
EndedTaskMovesRun == \A r \in 1..MaxRuns, s \in Steps : StepEnded(r, s) ~> MovedOn(r, s)

\* A run is failed for want of a topic card only when the completed topic task
\* left none, as its message says.
FailedForWantOfCard ==
    [][\A p \in Resumers :
          (NoCard(p) /\ runs[proc[p].run].state = "running" /\ runs'[proc[p].run].state = "failed") => ~card]_vars
=============================================================================

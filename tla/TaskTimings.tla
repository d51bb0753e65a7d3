----------------------------- MODULE TaskTimings -----------------------------
(***************************************************************************)
(* The timing record of one task: internal/timing, TaskTimingRepository of *)
(* internal/store/task_timings.go, and the lifecycle transactions of       *)
(* internal/store/tasks.go that open and close phases of their own. A      *)
(* transaction carries the time its caller took before it; the recorder    *)
(* reads the phases, then starts or finishes one. The recorder, the run    *)
(* and the requests of the user are three actors over one table, whose     *)
(* unique indexes are those of internal/store/migrations.go.               *)
(***************************************************************************)
EXTENDS Naturals, FiniteSets, FiniteSetsExt

CONSTANTS Items, KeyOf,          \* observable items of the agent and the phase each one shows
          Transport,             \* "legacy_exec" or "app_server"
          MaxClock, MaxAttempts  \* bounds of the instance

VARIABLES clock,
          task,      \* the row: status and its times; 0 is NULL, the row was created at 1
          phases,    \* task_phase_runs
          item,      \* the items as the agent runs them
          alive,     \* the turn or the process is under way
          rec,       \* timing.Record, one notification at a time
          run,       \* the run's own transactions
          user,      \* the requests
          broken     \* the recorder's error has stopped the run

vars == <<clock, task, phases, item, alive, rec, run, user, broken>>

Lifecycle == {"queue_wait", "codex_execution"}
Ended == {"completed", "failed", "canceled"}
Phase(k, ext, a, t) == [key |-> k, ext |-> ext, attempt |-> a, state |-> "running", start |-> t, fin |-> 0]
NoPhase == Phase("none", "none", 0, 0)
NoRec == [at |-> "idle", item |-> "none", ends |-> "none", t |-> 0, attempt |-> 0, target |-> NoPhase]
Idle == [op |-> "none", t |-> 0, target |-> NoPhase]

TypeOK ==
    /\ clock \in 1..MaxClock /\ alive \in BOOLEAN /\ broken \in BOOLEAN
    /\ task.status \in {"queued", "running", "awaiting"} \cup Ended
    /\ {task.queued, task.started, task.finished} \subseteq 0..MaxClock
    /\ \A p \in phases : /\ p.fin # 0 => p.start <= p.fin
                         /\ (p.fin = 0) = (p.state = "running")
                         /\ \A q \in phases : p.attempt = q.attempt /\ p.key = q.key /\ p # q =>
                                p.ext # q.ext /\ (p.fin # 0 \/ q.fin # 0)
    /\ item \in [Items -> {"idle", "on", "off"}]
    /\ rec.at \in {"idle", "read", "write"} /\ run.op \in {"none", "start", "finish", "fail"}
    /\ user.op \in {"none", "admit", "answer", "cancel"}

Init ==
    /\ clock = 1 /\ task = [status |-> "queued", queued |-> 0, started |-> 0, finished |-> 0]
    /\ phases = {} /\ item = [i \in Items |-> "idle"] /\ alive = FALSE
    /\ rec = NoRec /\ run = Idle /\ user = Idle /\ broken = FALSE

Tick == clock < MaxClock /\ clock' = clock + 1 /\ UNCHANGED <<task, phases, item, alive, rec, run, user, broken>>

----------------------------------------------------------------------------
(* The table *)

OpenOf(k) == {p \in phases : p.key = k /\ p.fin = 0}
LastAttempt(S) == Max({0} \cup {p.attempt : p \in S})
Latest(S) == {p \in S : p.attempt = LastAttempt(S)}
Closed(p, state, t) == [p EXCEPT !.state = state, !.fin = t]

\* Mutant: a phase may end before it began.
NeverPrecedes(t, keys) == FALSE

\* finishActiveLifecyclePhasesTx: the latest open phase of each key; none can end before it began.
Closing(keys) == UNION {Latest(OpenOf(k)) : k \in keys}
Precedes(t, keys) == \E p \in Closing(keys) : t < p.start
CloseAll(keys, state, t) == (phases \ Closing(keys)) \cup {Closed(p, state, t) : p \in Closing(keys)}

\* Mutant: a phase that was closed since it was read is closed again.
FinishBlindly(p, state, t) ==
    IF p = NoPhase \/ t < p.start THEN phases
    ELSE {q \in phases : <<q.key, q.ext, q.attempt>> # <<p.key, p.ext, p.attempt>>} \cup {Closed(p, state, t)}

\* FinishPhase returns a phase that is finished already as it is.
FinishPhase(p, state, t) ==
    IF p \notin phases \/ p.fin # 0 \/ t < p.start THEN phases ELSE (phases \ {p}) \cup {Closed(p, state, t)}

Coalesce(old, new) == IF old = 0 THEN new ELSE old

----------------------------------------------------------------------------
(* Requests: the time is taken, then the transaction waits for its turn *)


Request ==
    /\ user = Idle
    /\ \E op \in {"admit", "answer", "cancel"} :
          /\ op = "admit" => task.queued = 0 /\ task.status \notin Ended
          /\ op = "answer" => task.status = "awaiting" /\ LastAttempt(phases) < MaxAttempts
          /\ op = "cancel" => task.status \notin Ended
          /\ user' = [Idle EXCEPT !.op = op, !.t = clock]
    /\ UNCHANGED <<clock, task, phases, item, alive, rec, run, broken>>

UserRefused ==
    /\ \/ user.op = "admit" /\ task.status # "queued"
       \/ user.op = "answer" /\ task.status # "awaiting"
       \/ user.op = "cancel" /\ (task.status \in Ended \/ Precedes(user.t, Lifecycle))
    /\ user' = Idle
    /\ UNCHANGED <<clock, task, phases, item, alive, rec, run, broken>>

\* admitQueueTx: the first acceptance is kept; a new attempt begins with its wait.
AdmitQueue ==
    /\ \/ user.op = "admit" /\ task.status = "queued"
       \/ user.op = "answer" /\ task.status = "awaiting"
    /\ task' = [task EXCEPT !.status = "queued", !.queued = Coalesce(@, user.t)]
    /\ phases' = IF OpenOf("queue_wait") # {} THEN phases
                 ELSE phases \cup {Phase("queue_wait", "queue", LastAttempt({p \in phases : p.key \in Lifecycle}) + 1, user.t)}
    /\ user' = Idle
    /\ UNCHANGED <<clock, item, alive, rec, run, broken>>

\* Mutant: the phases of a canceled task are left to the run that is stopped.
CancelRowOnly ==
    /\ user.op = "cancel" /\ task.status \notin Ended /\ ~Precedes(user.t, Lifecycle)
    /\ phases' = phases
    /\ task' = [task EXCEPT !.status = "canceled", !.finished = user.t]
    /\ user' = Idle
    /\ UNCHANGED <<clock, item, alive, rec, run, broken>>
CancelTask ==
    /\ user.op = "cancel" /\ task.status \notin Ended /\ ~Precedes(user.t, Lifecycle)
    /\ phases' = CloseAll(Lifecycle, "canceled", user.t)
    /\ task' = [task EXCEPT !.status = "canceled", !.finished = user.t]
    /\ user' = Idle
    /\ UNCHANGED <<clock, item, alive, rec, run, broken>>

----------------------------------------------------------------------------
(* The run *)

TakesStart ==
    /\ run = Idle /\ ~alive /\ task.status = "queued"
    /\ OpenOf("queue_wait") # {} \/ LastAttempt(phases) < MaxAttempts
    /\ run' = [Idle EXCEPT !.op = "start", !.t = clock]
    /\ UNCHANGED <<clock, task, phases, item, alive, rec, user, broken>>

\* ClaimLegacyStart and StartAppServerTurn: the wait ends where the execution begins.
Start ==
    /\ run.op = "start" /\ run' = Idle
    /\ LET wait == Latest(OpenOf("queue_wait"))
           a == IF wait # {} THEN LastAttempt(wait) ELSE LastAttempt(phases) + 1
       IN  IF task.status # "queued" \/ Precedes(run.t, {"queue_wait"}) THEN UNCHANGED <<task, phases, alive>>
           ELSE /\ phases' = CloseAll({"queue_wait"}, "completed", run.t) \cup {Phase("codex_execution", "execution", a, run.t)}
                /\ task' = [task EXCEPT !.status = "running", !.started = Coalesce(@, run.t), !.finished = 0]
                /\ alive' = TRUE
    /\ UNCHANGED <<clock, item, rec, user, broken>>

Quiet == alive /\ run = Idle /\ rec = NoRec /\ ~broken /\ \A i \in Items : item[i] # "on"

\* AwaitInput takes its time inside the transaction.
AwaitInput ==
    /\ Quiet /\ task.status = "running" /\ alive' = FALSE
    /\ phases' = CloseAll({"codex_execution"}, "completed", clock)
    /\ task' = [task EXCEPT !.status = "awaiting", !.finished = 0]
    /\ UNCHANGED <<clock, item, rec, run, user, broken>>

\* LoadSkillTimings: only phases between the start of the task and now.
SkillTimings ==
    {p \in {Phase("draft_build", "skill", LastAttempt(OpenOf("codex_execution")), s) : s \in 1..clock} : p.start >= task.started}

\* CompleteWithResult, with the timings the skill has written of itself.
Complete ==
    /\ Quiet /\ task.status = "running" /\ alive' = FALSE
    /\ \E own \in {{}} \cup {{Closed(p, "completed", clock)} : p \in SkillTimings} :
          phases' = CloseAll({"codex_execution"}, "completed", clock) \cup own
    /\ task' = [task EXCEPT !.status = "completed", !.finished = clock]
    /\ UNCHANGED <<clock, item, rec, run, user, broken>>

\* The agent is gone, by itself, stopped by a cancel or by the recorder: finishExecutionTiming
\* reads the phases; what its items were doing is not heard of any more.
Dies ==
    /\ alive /\ run = Idle /\ rec = NoRec /\ alive' = FALSE
    /\ run' = [op |-> "finish", t |-> clock,
               target |-> IF OpenOf("codex_execution") = {} THEN NoPhase ELSE CHOOSE p \in Latest(OpenOf("codex_execution")) : TRUE]
    /\ UNCHANGED <<clock, task, phases, item, rec, user, broken>>

FinishExecution ==
    /\ run.op = "finish"
    /\ phases' = FinishPhase(run.target, "failed", run.t)
    /\ run' = [Idle EXCEPT !.op = "fail", !.t = clock]
    /\ UNCHANGED <<clock, task, item, alive, rec, user, broken>>

FailTask ==
    /\ run.op = "fail" /\ run' = Idle
    /\ IF task.status \in Ended \/ Precedes(run.t, Lifecycle) THEN UNCHANGED <<task, phases>>
       ELSE /\ phases' = CloseAll(Lifecycle, "failed", run.t)
            /\ task' = [task EXCEPT !.status = "failed", !.finished = Coalesce(@, run.t)]
    /\ UNCHANGED <<clock, item, alive, rec, user, broken>>

----------------------------------------------------------------------------
(* timing.Record *)

Classified(i, ends) == [NoRec EXCEPT !.at = "read", !.item = i, !.ends = ends, !.t = clock]
\* An item that starts, starts again in a replay, or ends.
Notified(i, ends) ==
    /\ alive /\ rec = NoRec /\ ~broken
    /\ ends = "none" => item[i] \in {"idle", "on"}
    /\ ends # "none" => item[i] = "on"
    /\ item' = [item EXCEPT ![i] = IF ends = "none" THEN "on" ELSE "off"]
    /\ rec' = Classified(i, ends)
    /\ UNCHANGED <<clock, task, phases, alive, run, user, broken>>

\* ForTask: the latest attempt, and the open phase of this very item.
RecRead ==
    /\ rec.at = "read"
    /\ LET a == Max({1, LastAttempt(phases)})
           mine == {p \in phases : /\ p.attempt = a /\ p.key = KeyOf[rec.item] /\ p.ext = rec.item /\ p.fin = 0}
       IN  rec' = [rec EXCEPT !.at = "write", !.attempt = a, !.target = IF mine = {} THEN NoPhase ELSE CHOOSE p \in mine : TRUE]
    /\ UNCHANGED <<clock, task, phases, item, alive, run, user, broken>>

\* The broker logs an error of the recorder and goes on; the legacy runner ends the run.
StopsTheRun == Transport = "legacy_exec"
\* StartPhase: a replay finds its phase; the index lets one phase of a key run at a time.
RecStart ==
    /\ rec.at = "write" /\ rec.ends = "none" /\ rec' = NoRec
    /\ LET same == {p \in phases : p.attempt = rec.attempt /\ p.key = KeyOf[rec.item]}
       IN  CASE \E p \in same : p.ext = rec.item -> UNCHANGED <<phases, broken>>
             [] (\A p \in same : p.ext # rec.item) /\ (\E p \in same : p.fin = 0) ->
                    broken' = StopsTheRun /\ UNCHANGED phases
             [] OTHER -> phases' = phases \cup {Phase(KeyOf[rec.item], rec.item, rec.attempt, rec.t)} /\ UNCHANGED broken
    /\ UNCHANGED <<clock, task, item, alive, run, user>>

RecFinish ==
    /\ rec.at = "write" /\ rec.ends # "none" /\ rec' = NoRec
    /\ phases' = FinishPhase(rec.target, rec.ends, rec.t)
    /\ UNCHANGED <<clock, task, item, alive, run, user, broken>>

Next ==
    \/ Tick \/ Request \/ UserRefused \/ AdmitQueue \/ CancelTask
    \/ TakesStart \/ Start \/ AwaitInput \/ Complete \/ Dies \/ FinishExecution \/ FailTask
    \/ \E i \in Items, ends \in {"none", "completed", "failed"} : Notified(i, ends)
    \/ RecRead \/ RecStart \/ RecFinish

Spec == Init /\ [][Next]_vars

----------------------------------------------------------------------------
(* SummaryForTask *)

Terminal == Coalesce(task.finished, clock)
FirstExecution == Coalesce(task.started, Terminal)
QueueBoundary == Coalesce(task.queued, 1)
\* The four boundaries must follow each other, or there is no summary.
Computable == 1 <= QueueBoundary /\ QueueBoundary <= FirstExecution /\ FirstExecution <= Terminal
ExecutionMS == Terminal - FirstExecution
Slowest == Max({0} \cup {p.fin - p.start : p \in {q \in phases : q.state = "completed" /\ q.start >= FirstExecution}})

(* Properties *)

\* However the recorder, the run and a cancel race, a task that has ended has no phase of its
\* lifecycle left running, and in the summary of a task that came to its own end no phase took
\* longer than the whole execution.
TimingsAddUp ==
    /\ task.status \in Ended => \A k \in Lifecycle : OpenOf(k) = {}
    /\ task.status \in {"completed", "failed"} /\ task.started # 0 => Slowest <= ExecutionMS

\* The first end of a phase stands: whoever comes later with another end or another time leaves it.
KeepsEnds == \A p \in phases : p.fin # 0 => p \in phases'
FirstEndStands == [][KeepsEnds]_vars

\* A task that was made visible with its queue boundary has a summary.
SummaryIsComputable == task.status = "completed" => Computable

\* A task is not ended for the sake of its timing.
TimingNeverStopsARun == ~broken
=============================================================================

---------------------------- MODULE TaskScheduler ----------------------------
(***************************************************************************)
(* The legacy-exec task scheduler: internal/codex/scheduler.go (dispatch   *)
(* loop, enqueue, resume, cancel, limit, close), the runner goroutine it   *)
(* starts for each claimed task (internal/codex/runner.go), the output     *)
(* retry of internal/conversation/task_adapter.go, and the restart of the  *)
(* console (InterruptInFlight, called by cmd/console/main.go before the    *)
(* scheduler exists).                                                      *)
(*                                                                         *)
(* A step is one critical section of the scheduler's mutex or one          *)
(* transaction of the store.  The order of steps inside a goroutine is the *)
(* order of the code; goroutines interleave freely.                        *)
(***************************************************************************)
EXTENDS TaskStore

CONSTANTS
  Tasks,            \* task ids, numbered in order of creation
  NoTask,
  Projects,
  NoProject,
  ProjectOf,        \* project_id of each task, or NoProject
  RemixTasks,       \* tasks whose action is remix.standard
  AppServerTasks,   \* tasks whose persisted transport is app_server
  Limits,           \* concurrency limits the settings may choose
  Operations,       \* the client operations and faults this instance exercises
  Endings,          \* the ends of an execution this instance explores
  MaxReopen,        \* bound: a task is resumed or retried only below this attempt
  MaxRestart        \* bound: number of console restarts

ASSUME TasksAssumption == Tasks \subseteq Nat /\ IsFiniteSet(Tasks) /\ NoTask \notin Tasks
ASSUME ProjectAssumption ==
  /\ ProjectOf \in [Tasks -> Projects \cup {NoProject}]
  /\ NoProject \notin Projects
  /\ Projects \cap Tasks = {}
  /\ RemixTasks \subseteq Tasks
  /\ AppServerTasks \subseteq Tasks
ASSUME LimitsAssumption == Limits \subseteq 1..4 /\ Limits # {}
ASSUME OperationsAssumption ==
  /\ Operations \subseteq {"prepare", "resume", "cancel", "limit", "retry", "close",
                           "listfault", "buildfault", "startfault"}
  /\ Endings \subseteq {"failed", "rejected", "superseded", "awaiting_input", "completed"}
ASSUME MaxReopenAssumption == MaxReopen \in Nat
ASSUME MaxRestartAssumption == MaxRestart \in Nat

\* The project lock of a task: its project, unless it has none or only
\* registers one asset at completion.
Key(t) == IF ProjectOf[t] # NoProject /\ t \notin RemixTasks THEN ProjectOf[t] ELSE t
Keys   == Projects \cup Tasks

Runs    == {"run"} \X Tasks      \* the goroutine of a dispatched task
Retries == {"retry"} \X Tasks    \* a request revalidating retained output
Workers == Runs \cup Retries

VARIABLES
  rows,         \* the codex_tasks table
  limit,        \* s.limit
  running,      \* keys of s.running
  lock,         \* s.projectLocks
  wake,         \* a token is in s.wake
  closed,       \* s.closed, and s.stop is closed
  loop,         \* the dispatch goroutine
  worker,       \* the runner goroutines and the output retries
  canceledCtx,  \* tasks whose run context is canceled
  killPending,  \* canceled tasks whose process the canceler has yet to stop
  signals,      \* ended runs, and NoTask for a new limit, that have yet to
                \* wake the dispatcher
  restarts

memory == <<limit, running, lock, wake, closed, loop, worker, canceledCtx, killPending, signals>>
vars   == <<rows, memory, restarts>>

LoopStates   == {"top", "list", "pick", "claim", "register", "abandon", "release",
                 "park", "done"}
WorkerStates == {"idle", "start", "exec", "fail", "validate", "result", "inputs",
                 "commit", "write", "finish"}
Outcomes     == {"awaiting_input", "completed"}

LoopRecord   == [pc : LoopStates, after : {"top", "park"}, slots : Int,
                 list : SUBSET Tasks, cur : Tasks \cup {NoTask}]
WorkerRecord == [pc : WorkerStates, v : Nat, outcome : Outcomes]

\* The outcome of a worker says something from "commit" on.
IdleWorker == [pc |-> "idle", v |-> 0, outcome |-> "completed"]
FreshLoop  == [pc |-> "top", after |-> "top", slots |-> 0, list |-> {}, cur |-> NoTask]

TransportOf(t) == IF t \in AppServerTasks THEN "app_server" ELSE "legacy_exec"

Init ==
  /\ rows = [t \in Tasks |-> AbsentRow(TransportOf(t))]
  /\ limit \in Limits
  /\ running = {}
  /\ lock = [k \in Keys |-> NoTask]
  /\ wake = FALSE
  /\ closed = FALSE
  /\ loop = FreshLoop
  /\ worker = [w \in Workers |-> IdleWorker]
  /\ canceledCtx = {}
  /\ killPending = {}
  /\ signals = {}
  /\ restarts = 0

-----------------------------------------------------------------------------
(* Requests                                                                *)

\* The manifest of the task is stored with a queued row, before the task is
\* offered to the scheduler.
Prepare(t) ==
  /\ "prepare" \in Operations
  /\ rows[t].status = "absent"
  /\ rows' = [rows EXCEPT ![t] = EnsurePreparedTask(@)]
  /\ UNCHANGED <<memory, restarts>>

Enqueue(t) ==
  /\ t \notin AppServerTasks
  /\ ~closed
  /\ CanAdmit(rows[t])
  /\ rows' = [rows EXCEPT ![t] = AdmitQueuedTask(@)]
  /\ wake' = TRUE
  /\ UNCHANGED <<limit, running, lock, closed, loop, worker, canceledCtx, killPending, signals, restarts>>

\* The App Server adapter admits its task to the same table and does not
\* signal this scheduler.
AppServerEnqueue(t) ==
  /\ t \in AppServerTasks
  /\ rows[t].status = "absent"
  /\ rows' = [rows EXCEPT ![t] = AdmitQueuedTask(@)]
  /\ UNCHANGED <<memory, restarts>>

\* The broker binds the started turn (TaskTurnStarted).
AppServerStart(t, turn) ==
  /\ t \in AppServerTasks
  /\ rows[t].status = "queued"
  /\ CanStartAppServerTurn(rows[t], turn)
  /\ rows' = [rows EXCEPT ![t] = StartAppServerTurn(@, turn)]
  /\ UNCHANGED <<memory, restarts>>

MayReopen(t) == NextAttempt(rows[t]) <= MaxReopen

Resume(t) ==
  /\ "resume" \in Operations
  /\ ~closed
  /\ CanBeginLegacyResume(rows[t])
  /\ MayReopen(t)
  /\ rows' = [rows EXCEPT ![t] = BeginLegacyResume(@)]
  /\ wake' = TRUE
  /\ UNCHANGED <<limit, running, lock, closed, loop, worker, canceledCtx, killPending, signals, restarts>>

\* First half of Cancel: the row.
Cancel(t) ==
  /\ "cancel" \in Operations
  /\ t \notin AppServerTasks
  /\ CanCancelTask(rows[t])
  /\ rows' = [rows EXCEPT ![t] = CancelTask(@)]
  /\ killPending' = killPending \cup {t}
  /\ UNCHANGED <<limit, running, lock, wake, closed, loop, worker, canceledCtx, signals, restarts>>

\* Mutant: Cancel takes the run out of the tables instead of leaving that to the run.
CancelRunReleases(t) ==
  /\ t \in killPending
  /\ killPending' = killPending \ {t}
  /\ canceledCtx' = IF t \in running THEN canceledCtx \cup {t} ELSE canceledCtx
  /\ running' = running \ {t}
  /\ lock' = IF lock[Key(t)] = t THEN [lock EXCEPT ![Key(t)] = NoTask] ELSE lock
  /\ UNCHANGED <<rows, limit, wake, closed, loop, worker, signals, restarts>>

\* Second half of Cancel: the run, if it is registered by now.
CancelRun(t) ==
  /\ t \in killPending
  /\ killPending' = killPending \ {t}
  /\ canceledCtx' = IF t \in running THEN canceledCtx \cup {t} ELSE canceledCtx
  /\ UNCHANGED <<rows, limit, running, lock, wake, closed, loop, worker, signals, restarts>>

\* The limit is changed under the mutex ...
SetLimit(n) ==
  /\ "limit" \in Operations
  /\ n # limit
  /\ limit' = n
  /\ signals' = signals \cup {NoTask}
  /\ UNCHANGED <<rows, running, lock, wake, closed, loop, worker, canceledCtx, killPending, restarts>>

\* Mutant: a new limit does not wake the dispatcher.
KeepLimitSilent ==
  /\ NoTask \in signals
  /\ signals' = signals \ {NoTask}
  /\ UNCHANGED <<rows, limit, running, lock, wake, closed, loop, worker, canceledCtx, killPending, restarts>>

\* ... and the dispatcher is woken afterwards.
SignalLimit ==
  /\ NoTask \in signals
  /\ signals' = signals \ {NoTask}
  /\ wake' = TRUE
  /\ UNCHANGED <<rows, limit, running, lock, closed, loop, worker, canceledCtx, killPending, restarts>>

\* RetryOutput claims the retained result; the revalidation runs in the
\* request, outside the scheduler and without a project lock.
RetryOutput(t) ==
  /\ "retry" \in Operations
  /\ t \notin AppServerTasks
  /\ worker[<<"retry", t>>].pc = "idle"
  /\ CanClaimOutputInvalidRetry(rows[t])
  /\ MayReopen(t)
  /\ rows' = [rows EXCEPT ![t] = ClaimOutputInvalidRetry(@)]
  /\ worker' = [worker EXCEPT ![<<"retry", t>>] =
                  [IdleWorker EXCEPT !.pc = "result", !.v = ValidationAttempt(rows[t])]]
  /\ UNCHANGED <<limit, running, lock, wake, closed, loop, canceledCtx, killPending, signals, restarts>>

-----------------------------------------------------------------------------
(* The dispatch goroutine                                                  *)

Return == [loop EXCEPT !.pc = loop.after, !.list = {}, !.slots = 0]

\* Entry of dispatch: the free slots are read once, under the mutex.
BeginDispatch(after) ==
  LET slots == limit - Cardinality(running)
  IN  loop' = IF slots <= 0 THEN [loop EXCEPT !.pc = after]
              ELSE [loop EXCEPT !.pc = "list", !.after = after, !.slots = slots]

TakeWake ==
  /\ loop.pc = "top"
  /\ wake
  /\ wake' = FALSE
  /\ BeginDispatch("top")
  /\ UNCHANGED <<rows, limit, running, lock, closed, worker, canceledCtx, killPending, signals, restarts>>

\* No token: dispatch once, then park.
DispatchThenPark ==
  /\ loop.pc = "top"
  /\ ~wake /\ ~closed
  /\ BeginDispatch("park")
  /\ UNCHANGED <<rows, limit, running, lock, wake, closed, worker, canceledCtx, killPending, signals, restarts>>

Unpark ==
  /\ loop.pc = "park"
  /\ wake
  /\ wake' = FALSE
  /\ loop' = [loop EXCEPT !.pc = "top"]
  /\ UNCHANGED <<rows, limit, running, lock, closed, worker, canceledCtx, killPending, signals, restarts>>

StopLoop ==
  /\ loop.pc \in {"top", "park"}
  /\ closed
  /\ loop' = [loop EXCEPT !.pc = "done"]
  /\ UNCHANGED <<rows, limit, running, lock, wake, closed, worker, canceledCtx, killPending, signals, restarts>>

\* Every queued row is listed, whatever its transport.
ListQueued ==
  /\ loop.pc = "list"
  /\ loop' = [loop EXCEPT !.pc = "pick", !.list = {t \in Tasks : rows[t].status = "queued"}]
  /\ UNCHANGED <<rows, limit, running, lock, wake, closed, worker, canceledCtx, killPending, signals, restarts>>

ListFails ==
  /\ "listfault" \in Operations
  /\ loop.pc = "list"
  /\ loop' = Return
  /\ UNCHANGED <<rows, limit, running, lock, wake, closed, worker, canceledCtx, killPending, signals, restarts>>

Newest(t, S) == t \in S /\ \A u \in S : u <= t

EndDispatch ==
  /\ loop.pc = "pick"
  /\ loop.slots <= 0 \/ loop.list = {}
  /\ loop' = Return
  /\ UNCHANGED <<rows, limit, running, lock, wake, closed, worker, canceledCtx, killPending, signals, restarts>>

\* Mutant: the task starts without looking at the project lock.
PickUnlocked ==
  /\ loop.pc = "pick"
  /\ loop.slots > 0
  /\ \E t \in Tasks :
        /\ Newest(t, loop.list)
        /\ loop' = [loop EXCEPT !.pc = "claim", !.list = @ \ {t}, !.cur = t]
        /\ lock' = [lock EXCEPT ![Key(t)] = t]
  /\ UNCHANGED <<rows, limit, running, wake, closed, worker, canceledCtx, killPending, signals, restarts>>

\* Mutant: the lock is recorded under the key instead of the task.
PickLocksKey ==
  /\ loop.pc = "pick"
  /\ loop.slots > 0
  /\ \E t \in Tasks :
        /\ Newest(t, loop.list)
        /\ lock[Key(t)] = NoTask
        /\ loop' = [loop EXCEPT !.pc = "claim", !.list = @ \ {t}, !.cur = t]
        /\ lock' = [lock EXCEPT ![Key(t)] = Key(t)]
  /\ UNCHANGED <<rows, limit, running, wake, closed, worker, canceledCtx, killPending, signals, restarts>>

\* The next listed task, newest first, is skipped when its project is busy.
Pick ==
  /\ loop.pc = "pick"
  /\ loop.slots > 0
  /\ \E t \in Tasks :
        /\ Newest(t, loop.list)
        /\ \/ /\ lock[Key(t)] # NoTask
              /\ loop' = [loop EXCEPT !.list = @ \ {t}]
              /\ lock' = lock
           \/ /\ lock[Key(t)] = NoTask
              /\ loop' = [loop EXCEPT !.pc = "claim", !.list = @ \ {t}, !.cur = t]
              /\ lock' = [lock EXCEPT ![Key(t)] = t]
  /\ UNCHANGED <<rows, limit, running, wake, closed, worker, canceledCtx, killPending, signals, restarts>>

BuildFails ==
  /\ "buildfault" \in Operations
  /\ loop.pc = "claim"
  /\ loop' = [loop EXCEPT !.pc = "abandon"]
  /\ UNCHANGED <<rows, limit, running, lock, wake, closed, worker, canceledCtx, killPending, signals, restarts>>

ClaimRefused ==
  /\ loop.pc = "claim"
  /\ ~CanClaimLegacyStart(rows[loop.cur])
  /\ loop' = [loop EXCEPT !.pc = "abandon"]
  /\ UNCHANGED <<rows, limit, running, lock, wake, closed, worker, canceledCtx, killPending, signals, restarts>>

\* The task is given up: its row fails if it is still queued ...
Abandon ==
  /\ loop.pc = "abandon"
  /\ rows' = IF CanFailQueuedTask(rows[loop.cur])
             THEN [rows EXCEPT ![loop.cur] = FailQueuedTask(@)] ELSE rows
  /\ loop' = [loop EXCEPT !.pc = "release"]
  /\ UNCHANGED <<limit, running, lock, wake, closed, worker, canceledCtx, killPending, signals, restarts>>

\* ... and then its project is released.
Release ==
  /\ loop.pc = "release"
  /\ lock' = [lock EXCEPT ![Key(loop.cur)] = NoTask]
  /\ loop' = [loop EXCEPT !.pc = "pick", !.cur = NoTask]
  /\ UNCHANGED <<rows, limit, running, wake, closed, worker, canceledCtx, killPending, signals, restarts>>

Claim ==
  /\ loop.pc = "claim"
  /\ CanClaimLegacyStart(rows[loop.cur])
  /\ rows' = [rows EXCEPT ![loop.cur] = ClaimLegacyStart(@)]
  /\ loop' = [loop EXCEPT !.pc = "register"]
  /\ UNCHANGED <<limit, running, lock, wake, closed, worker, canceledCtx, killPending, signals, restarts>>

\* Mutant: the slot of the started task is not taken.
RegisterKeepsSlot ==
  /\ loop.pc = "register"
  /\ running' = running \cup {loop.cur}
  /\ canceledCtx' = canceledCtx \ {loop.cur}
  /\ worker' = [worker EXCEPT ![<<"run", loop.cur>>] = [IdleWorker EXCEPT !.pc = "start"]]
  /\ loop' = [loop EXCEPT !.pc = "pick", !.cur = NoTask]
  /\ UNCHANGED <<rows, limit, lock, wake, closed, killPending, signals, restarts>>

Register ==
  /\ loop.pc = "register"
  /\ running' = running \cup {loop.cur}
  /\ canceledCtx' = canceledCtx \ {loop.cur}
  /\ worker' = [worker EXCEPT ![<<"run", loop.cur>>] = [IdleWorker EXCEPT !.pc = "start"]]
  /\ loop' = [loop EXCEPT !.pc = "pick", !.slots = loop.slots - 1, !.cur = NoTask]
  /\ UNCHANGED <<rows, limit, lock, wake, closed, killPending, signals, restarts>>

-----------------------------------------------------------------------------
(* The runner                                                              *)

Goto(w, pc) == worker' = [worker EXCEPT ![w].pc = pc]

\* Mutant: an early return skips the cleanup after Run.
LeaveAtOnce(w) == worker' = [worker EXCEPT ![w] = IdleWorker]

\* A run still has to leave the scheduler's tables; a retry just returns.
Leave(w) ==
  worker' = [worker EXCEPT ![w] = [IdleWorker EXCEPT !.pc = IF w \in Runs THEN "finish" ELSE "idle"]]

\* persistFailure: FailTask, which refuses a task that is already terminal.
PersistFailure(t) ==
  rows' = IF CanFailTask(rows[t]) THEN [rows EXCEPT ![t] = FailTask(@)] ELSE rows

\* finishExecutionTiming
FinishExecution(row, state) == FinishActivePhase(row, "codex_execution", state)

StartTask(t) ==
  LET w == <<"run", t>> IN
  /\ worker[w].pc = "start"
  /\ t \notin canceledCtx
  /\ rows' = [rows EXCEPT ![t] = Start(@)]
  /\ Goto(w, "exec")
  /\ UNCHANGED <<limit, running, lock, wake, closed, loop, canceledCtx, killPending, signals, restarts>>

\* The context was canceled before Start, or the store refused it: Run
\* returns the error, and the row keeps the status it has.
StartRefused(t) ==
  LET w == <<"run", t>> IN
  /\ worker[w].pc = "start"
  /\ t \in canceledCtx \/ "startfault" \in Operations
  /\ Leave(w)
  /\ UNCHANGED <<rows, limit, running, lock, wake, closed, loop, canceledCtx, killPending, signals, restarts>>

\* The process reports its session while it streams; only Resume asks for it.
ReportSession(t) ==
  /\ "resume" \in Operations
  /\ worker[<<"run", t>>].pc = "exec"
  /\ t \notin canceledCtx
  /\ ~rows[t].session
  /\ rows' = [rows EXCEPT ![t] = SetSession(@)]
  /\ UNCHANGED <<memory, restarts>>

\* Mutant: a canceled run goes on waiting for its process.
ExecCanceledWaits(t) ==
  LET w == <<"run", t>> IN
  /\ worker[w].pc = "exec"
  /\ t \in canceledCtx
  /\ rows' = [rows EXCEPT ![t] = FinishExecution(@, "canceled")]
  /\ UNCHANGED <<memory, restarts>>

\* Cancellation is looked at once, after the process has ended.
ExecCanceled(t) ==
  LET w == <<"run", t>> IN
  /\ worker[w].pc = "exec"
  /\ t \in canceledCtx
  /\ rows' = [rows EXCEPT ![t] = FinishExecution(@, "canceled")]
  /\ Leave(w)
  /\ UNCHANGED <<limit, running, lock, wake, closed, loop, canceledCtx, killPending, signals, restarts>>

\* The process could not start, failed, or its streams broke: the execution is
\* timed first ...
ExecFails(t) ==
  LET w == <<"run", t>> IN
  /\ "failed" \in Endings
  /\ worker[w].pc = "exec"
  /\ t \notin canceledCtx
  /\ \E state \in {"failed", "interrupted"} :
       rows' = [rows EXCEPT ![t] = FinishExecution(@, state)]
  /\ Goto(w, "fail")
  /\ UNCHANGED <<limit, running, lock, wake, closed, loop, canceledCtx, killPending, signals, restarts>>

\* ... and the task fails afterwards.
RunFails(t) ==
  LET w == <<"run", t>> IN
  /\ worker[w].pc = "fail"
  /\ PersistFailure(t)
  /\ Leave(w)
  /\ UNCHANGED <<limit, running, lock, wake, closed, loop, canceledCtx, killPending, signals, restarts>>

ExecEnds(t) ==
  LET w == <<"run", t>> IN
  /\ worker[w].pc = "exec"
  /\ t \notin canceledCtx
  /\ Goto(w, "validate")
  /\ UNCHANGED <<rows, limit, running, lock, wake, closed, loop, canceledCtx, killPending, signals, restarts>>

Validate(t) ==
  LET w == <<"run", t>> IN
  /\ worker[w].pc = "validate"
  /\ CanBeginResultValidation(rows[t])
  /\ rows' = [rows EXCEPT ![t] = BeginResultValidation(@)]
  /\ worker' = [worker EXCEPT ![w].pc = "result", ![w].v = ValidationAttempt(rows[t])]
  /\ UNCHANGED <<limit, running, lock, wake, closed, loop, canceledCtx, killPending, signals, restarts>>

\* validation_timing_failed
ValidateRefused(t) ==
  LET w == <<"run", t>> IN
  /\ worker[w].pc = "validate"
  /\ ~CanBeginResultValidation(rows[t])
  /\ PersistFailure(t)
  /\ Leave(w)
  /\ UNCHANGED <<limit, running, lock, wake, closed, loop, canceledCtx, killPending, signals, restarts>>

\* The envelope is rejected (output_invalid) or reports a failed result.
ResultFailed(w) ==
  LET t == w[2] IN
  /\ "rejected" \in Endings
  /\ worker[w].pc = "result"
  /\ \E error \in {"output_invalid", "other"} :
       IF CanWriteFailure(rows[t], worker[w].v, NoTurn)
       THEN rows' = [rows EXCEPT ![t] = WriteFailure(@, worker[w].v, error)]
       ELSE PersistFailure(t)
  /\ Leave(w)
  /\ UNCHANGED <<limit, running, lock, wake, closed, loop, canceledCtx, killPending, signals, restarts>>

ResultAccepted(w) ==
  /\ worker[w].pc = "result"
  /\ \E outcome \in Endings \cap {"awaiting_input", "completed"} :
       worker' = [worker EXCEPT ![w].pc = IF outcome = "completed" THEN "inputs" ELSE "commit",
                                ![w].outcome = outcome]
  /\ UNCHANGED <<rows, limit, running, lock, wake, closed, loop, canceledCtx, killPending, signals, restarts>>

\* ensureManifestInputsCurrent reads the project's current versions.
InputsCurrent(w) ==
  /\ worker[w].pc = "inputs"
  /\ Goto(w, "commit")
  /\ UNCHANGED <<rows, limit, running, lock, wake, closed, loop, canceledCtx, killPending, signals, restarts>>

InputsSuperseded(w) ==
  /\ "superseded" \in Endings
  /\ worker[w].pc = "inputs"
  /\ PersistFailure(w[2])
  /\ Leave(w)
  /\ UNCHANGED <<limit, running, lock, wake, closed, loop, canceledCtx, killPending, signals, restarts>>

CommitAssets(w) ==
  LET t == w[2] IN
  /\ worker[w].pc = "commit"
  /\ IF CanBeginAssetCommit(rows[t], worker[w].v)
     THEN /\ rows' = [rows EXCEPT ![t] = BeginAssetCommit(@, worker[w].v)]
          /\ Goto(w, "write")
     ELSE PersistFailure(t) /\ Leave(w)
  /\ UNCHANGED <<limit, running, lock, wake, closed, loop, canceledCtx, killPending, signals, restarts>>

WriteResult(w) ==
  LET t == w[2] IN
  /\ worker[w].pc = "write"
  /\ IF CanWriteSuccess(rows[t], worker[w].v, NoTurn)
     THEN rows' = [rows EXCEPT ![t] = WriteSuccess(@, worker[w].v, worker[w].outcome)]
     ELSE PersistFailure(t)
  /\ Leave(w)
  /\ UNCHANGED <<limit, running, lock, wake, closed, loop, canceledCtx, killPending, signals, restarts>>

\* The goroutine leaves the scheduler's tables under the mutex ...
FinishRun(t) ==
  /\ worker[<<"run", t>>].pc = "finish"
  /\ running' = running \ {t}
  /\ lock' = [lock EXCEPT ![Key(t)] = NoTask]
  /\ worker' = [worker EXCEPT ![<<"run", t>>] = IdleWorker]
  /\ signals' = signals \cup {t}
  /\ UNCHANGED <<rows, limit, wake, closed, loop, canceledCtx, killPending, restarts>>

\* Mutant: the run ends without waking the dispatcher.
EndSilently(t) ==
  /\ t \in signals
  /\ signals' = signals \ {t}
  /\ UNCHANGED <<rows, limit, running, lock, wake, closed, loop, worker, canceledCtx, killPending, restarts>>

\* ... and wakes the dispatcher afterwards.
SignalRun(t) ==
  /\ t \in signals
  /\ signals' = signals \ {t}
  /\ wake' = TRUE
  /\ UNCHANGED <<rows, limit, running, lock, closed, loop, worker, canceledCtx, killPending, restarts>>

-----------------------------------------------------------------------------
(* Shutdown and restart                                                    *)

Close ==
  /\ "close" \in Operations
  /\ ~closed
  /\ closed' = TRUE
  /\ UNCHANGED <<rows, limit, running, lock, wake, loop, worker, canceledCtx, killPending, signals, restarts>>

\* Once the loop is done, every registered run is canceled.
CloseRuns ==
  /\ closed
  /\ loop.pc = "done"
  /\ ~(running \subseteq canceledCtx)
  /\ canceledCtx' = canceledCtx \cup running
  /\ UNCHANGED <<rows, limit, running, lock, wake, closed, loop, worker, killPending, signals, restarts>>

\* The process ends at any point, or after Close, and a new one starts: its
\* memory is fresh and InterruptInFlight has run before the scheduler exists.
Restart ==
  /\ restarts < MaxRestart
  /\ restarts' = restarts + 1
  /\ rows' = [t \in Tasks |-> InterruptInFlight(rows[t], FALSE, FALSE)]
  /\ limit' \in Limits
  /\ running' = {}
  /\ lock' = [k \in Keys |-> NoTask]
  /\ wake' = FALSE
  /\ closed' = FALSE
  /\ loop' = FreshLoop
  /\ worker' = [w \in Workers |-> IdleWorker]
  /\ canceledCtx' = {}
  /\ killPending' = {}
  /\ signals' = {}

-----------------------------------------------------------------------------
Dispatcher ==
  \/ TakeWake \/ DispatchThenPark \/ Unpark \/ StopLoop
  \/ ListQueued \/ ListFails \/ EndDispatch \/ Pick
  \/ BuildFails \/ ClaimRefused \/ Abandon \/ Release \/ Claim \/ Register

Pipeline(w) ==
  \/ ResultFailed(w) \/ ResultAccepted(w) \/ InputsCurrent(w) \/ InputsSuperseded(w)
  \/ CommitAssets(w) \/ WriteResult(w)

Runner(t) ==
  \/ StartTask(t) \/ StartRefused(t) \/ ExecCanceled(t) \/ ExecFails(t) \/ RunFails(t) \/ ExecEnds(t)
  \/ Validate(t) \/ ValidateRefused(t) \/ Pipeline(<<"run", t>>)
  \/ FinishRun(t)

Client(t) ==
  \/ Prepare(t) \/ Enqueue(t) \/ AppServerEnqueue(t)
  \/ \E turn \in Turns : AppServerStart(t, turn)
  \/ Resume(t) \/ Cancel(t) \/ RetryOutput(t)

Next ==
  \/ \E t \in Tasks : Client(t) \/ CancelRun(t) \/ Runner(t) \/ SignalRun(t) \/ ReportSession(t)
                        \/ Pipeline(<<"retry", t>>)
  \/ (\E n \in Limits : SetLimit(n)) \/ SignalLimit
  \/ Dispatcher
  \/ Close \/ CloseRuns \/ Restart

Spec == Init /\ [][Next]_vars

\* The goroutines are scheduled by the Go runtime, a request that has begun
\* finishes, and a Codex process that has started ends.
Fairness ==
  /\ WF_vars(Dispatcher)
  /\ WF_vars(CloseRuns)
  /\ WF_vars(SignalLimit)
  /\ \A t \in Tasks : /\ WF_vars(Runner(t))
                      /\ WF_vars(SignalRun(t))
                      /\ WF_vars(CancelRun(t))
                      /\ WF_vars(Pipeline(<<"retry", t>>))

FairSpec == Spec /\ Fairness

-----------------------------------------------------------------------------
(* Properties                                                              *)

TypeOK ==
  /\ rows \in [Tasks -> Row]
  /\ limit \in Limits
  /\ running \subseteq Tasks
  /\ lock \in [Keys -> Tasks \cup {NoTask}]
  /\ wake \in BOOLEAN
  /\ closed \in BOOLEAN
  /\ loop \in LoopRecord
  /\ loop.cur # NoTask <=> loop.pc \in {"claim", "register", "abandon", "release"}
  /\ worker \in [Workers -> WorkerRecord]
  /\ canceledCtx \subseteq Tasks
  /\ killPending \subseteq Tasks
  /\ signals \subseteq Tasks \cup {NoTask}
  /\ restarts \in 0..MaxRestart

\* A goroutine of t is inside run, that is, may still touch the project.
Live(t) == worker[<<"run", t>>].pc # "idle"

\* Two runs never work on one project at the same time ("a real project needs
\* exclusive asset writes", scheduler.go): locks are taken by the dispatcher,
\* released by the runs, by a refused claim and by a failed build.
ProjectExclusive ==
  \A t, u \in Tasks : t # u /\ Live(t) /\ Live(u) => Key(t) # Key(u)

\* A run holds the lock of its task's key until it leaves the tables.
RunsHoldLocks == \A t \in Tasks : Live(t) => lock[Key(t)] = t

\* So does the dispatcher for the task it is starting, which has no run yet.
DispatcherHoldsLock ==
  loop.cur # NoTask => lock[Key(loop.cur)] = loop.cur /\ ~Live(loop.cur)

\* Whoever is registered or holds a project lock is a live run or the task the
\* dispatcher is starting: no path leaks an entry, which would block the
\* project or lose a slot until the console restarts.
TablesMatchRuns ==
  /\ running = {t \in Tasks : Live(t)}
  /\ \A k \in Keys : lock[k] # NoTask =>
       Key(lock[k]) = k /\ (Live(lock[k]) \/ loop.cur = lock[k])

\* The slots are read once per dispatch and the limit may change meanwhile,
\* yet the runs never outnumber the highest limit that may be configured.
SlotBound == \E n \in Limits : Cardinality(running) <= n

\* The slots a dispatch still has count against the limit it read.
SlotsReserved ==
  loop.pc \in {"list", "pick", "claim", "register", "abandon", "release"} =>
    /\ \E n \in Limits : Cardinality(running) + loop.slots <= n
    /\ loop.pc # "pick" => loop.slots > 0

\* When the dispatcher is parked without a token and no run is about to leave
\* one, nothing admitted is startable: its project is busy or no slot is free.
NoStrandedWork ==
  loop.pc = "park" /\ ~wake /\ ~closed /\ signals = {}
    => \A t \in Tasks \ AppServerTasks :
         rows[t].status = "queued" /\ Open(rows[t], "queue_wait") # {}
           => lock[Key(t)] # NoTask \/ Cardinality(running) >= limit

\* The timings of a task never overlap: of all its lifecycle phases at most
\* one run is open.
OnePhaseOpen ==
  \A t \in Tasks : \A k, l \in PhaseKeys :
    \A a \in Open(rows[t], k), b \in Open(rows[t], l) : k = l /\ a = b

\* A finished task has no phase whose clock still runs.
FinishedTasksAreTimed ==
  \A t \in Tasks : rows[t].status \in Finished =>
    \A k \in PhaseKeys : Open(rows[t], k) = {}

\* A committed attempt was validated first, also across retries and resumes.
CommitFollowsValidation ==
  \A t \in Tasks : \A a \in Attempts :
    rows[t].phases["asset_commit"][a] # "none"
      => rows[t].phases["result_validation"][a] = "completed"

\* A running row has somebody who will move it on: the dispatcher about to
\* register it, a live run, or a retry.  (A console that is closing leaves
\* running rows to the next start.)
RunningHasOwner ==
  \A t \in Tasks \ AppServerTasks : rows[t].status = "running" =>
    \/ closed
    \/ Live(t)
    \/ loop.pc = "register" /\ loop.cur = t
    \/ worker[<<"retry", t>>].pc # "idle"

\* A completed task is never reopened, failed, canceled or interrupted.
KeepsCompleted == \A t \in Tasks : rows[t].status = "completed" => rows'[t].status = "completed"
CompletedIsFinal == [][KeepsCompleted]_vars

\* The two ways to overtake a cancellation that the code leaves open: the run
\* was claimed before it and starts after it, or the process had ended by
\* itself, so that the validation of its result began after the cancellation
\* and its phase is open in a canceled row.
Overtakes(t) ==
  LET run == worker[<<"run", t>>] IN
  \/ run.pc = "start"
  \/ run.pc = "result" /\ rows[t].phases["result_validation"][run.v] = "running"
  \/ run.pc = "write" /\ rows[t].phases["asset_commit"][run.v] = "running"

\* Apart from these a canceled task stays so: a cancellation that lands while
\* the process runs, while a result is validated or committed, or during a
\* retry of the output closes the phases every later write of them needs.
KeepsCanceled ==
  \A t \in Tasks : rows[t].status = "canceled" /\ ~Overtakes(t) => rows'[t].status = "canceled"
CancelWins == [][KeepsCanceled]_vars

\* "Cancellation is authoritative here" (runner.go): a canceled task stays so.
\* The code does not keep it, as the run named after the cancellation shows.
CancelIsAuthoritative ==
  [][\A t \in Tasks : rows[t].status = "canceled" => rows'[t].status = "canceled"]_vars

\* The same of a run that has started. It does not hold either: a cancellation
\* after the last look at the context is overtaken. No run is spent on it.
CancelBeatsResult ==
  [][\A t \in Tasks : rows[t].status = "canceled" /\ worker[<<"run", t>>].pc # "start"
       => rows'[t].status = "canceled"]_vars

\* BeginResultValidation "starts a new host validation attempt": the runner of
\* a running task can always record the validation of its result. It cannot when
\* the number of the validation is in use; no run is spent on it.
ValidationCanStart ==
  \A t \in Tasks :
    worker[<<"run", t>>].pc = "validate" /\ rows[t].status = "running"
      => CanBeginResultValidation(rows[t])

\* An admitted task leaves the queue, unless the console is closing.
QueuedIsDispatched ==
  \A t \in Tasks \ AppServerTasks :
    (rows[t].status = "queued" /\ Open(rows[t], "queue_wait") # {})
      ~> (rows[t].status # "queued" \/ closed)

\* Close and every run come to an end: no goroutine keeps a project forever.
RunsEnd == \A t \in Tasks : Live(t) ~> ~Live(t)

\* The inductive invariant behind mutual exclusion, and the one behind the slots.
LockInv == TypeOK /\ TablesMatchRuns /\ RunsHoldLocks /\ DispatcherHoldsLock
SlotInv == LockInv /\ SlotsReserved /\ SlotBound

\* What clients of the scheduler may rely on, stated in TaskContract.
Contract == INSTANCE TaskContract WITH
  status    <- [t \in Tasks |-> rows[t].status],
  executing <- {t \in Tasks : Live(t)},
  KeyOf     <- [t \in Tasks |-> Key(t)]
MeetsContract == Contract!Spec
FollowsContract == [Contract!Next]_(Contract!contract)

-----------------------------------------------------------------------------
(* Observations: what the code says it keeps and this model shows it does  *)
(* not.  No run checks them; the README describes each trace.              *)

\* Only the App Server starts or fails what is queued for the App Server: the
\* dispatcher comment promises the persisted transport is used throughout.
TransportRespected ==
  [][\A t \in AppServerTasks : loop.cur = t => rows'[t] = rows[t]]_vars

\* Every execution was admitted to the queue under the same attempt
\* ("atomically makes a queued task visible together with its queue boundary").
ExecutionWasAdmitted ==
  \A t \in Tasks : \A a \in Attempts :
    rows[t].phases["codex_execution"][a] # "none"
      => rows[t].phases["queue_wait"][a] # "none"
=============================================================================

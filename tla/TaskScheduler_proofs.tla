------------------------- MODULE TaskScheduler_proofs -------------------------
(***************************************************************************)
(* For every set of tasks, projects and limits: the state is well typed,   *)
(* the tables of the scheduler match its goroutines, two runs never work   *)
(* for one project, and the runs never outnumber the highest limit; the    *)
(* scheduler implements the contract its clients rely on (scheduler.go,    *)
(* runner.go and internal/store/tasks.go against TaskContract), no step    *)
(* reopens a completed task, a running row has somebody who will move it   *)
(* on, the phases of a task are in order, and no admitted task is left     *)
(* behind by a dispatcher that sleeps.                                     *)
(***************************************************************************)
EXTENDS TaskScheduler, TaskStore_proofs, FiniteSetTheorems

LEMMA WorkerNames ==
  ASSUME NEW t \in Tasks
  PROVE  /\ <<"run", t>> \in Runs /\ <<"run", t>> \in Workers
         /\ <<"retry", t>> \in Retries /\ <<"retry", t>> \in Workers
         /\ <<"run", t>>[2] = t /\ <<"retry", t>>[2] = t
  BY DEF Runs, Retries, Workers

LEMMA KeyType == \A t \in Tasks : Key(t) \in Keys
  BY ProjectAssumption DEF Key, Keys

LEMMA RowsType ==
  ASSUME rows \in [Tasks -> Row], NEW t \in Tasks, NEW r \in Row
  PROVE  /\ rows[t] \in Row
         /\ [rows EXCEPT ![t] = r] \in [Tasks -> Row]
  OBVIOUS

\* A validation attempt that may be recorded is a number.
LEMMA ValidationAttemptType ==
  ASSUME NEW row \in Row, CanBeginResultValidation(row)
  PROVE  ValidationAttempt(row) \in Nat
  BY DEF CanBeginResultValidation, CanInsert, Attempts

LEMMA CardinalityType ==
  ASSUME running \subseteq Tasks
  PROVE  IsFiniteSet(running) /\ Cardinality(running) \in Nat
  BY TasksAssumption, FS_Subset, FS_CardinalityType

LEMMA LimitType == Limits \subseteq Int
  BY LimitsAssumption

\* Init is well typed.
LEMMA InitType == Init => TypeOK
<1> SUFFICES ASSUME Init PROVE TypeOK
  OBVIOUS
<1>1. rows \in [Tasks -> Row]
  BY AbsentRowType DEF Init, TransportOf, Transports
<1>2. loop \in LoopRecord /\ loop.cur = NoTask /\ loop.pc = "top"
  BY DEF Init, FreshLoop, LoopRecord, LoopStates
<1>3. worker \in [Workers -> WorkerRecord]
  BY DEF Init, IdleWorker, WorkerRecord, WorkerStates, Outcomes
<1>4. lock \in [Keys -> Tasks \cup {NoTask}] /\ restarts \in 0..MaxRestart
  BY MaxRestartAssumption DEF Init
<1>5. /\ limit \in Limits /\ wake \in BOOLEAN /\ closed \in BOOLEAN /\ running \subseteq Tasks
      /\ canceledCtx \subseteq Tasks /\ killPending \subseteq Tasks /\ signals \subseteq Tasks
  BY DEF Init
<1> QED
  BY <1>1, <1>2, <1>3, <1>4, <1>5 DEF TypeOK

\* A request leaves the state well typed.
LEMMA ClientType ==
  ASSUME TypeOK, NEW t \in Tasks, Client(t) \/ CancelRun(t)
  PROVE  TypeOK'
<1>0. rows[t] \in Row
  BY DEF TypeOK
<1>1. CASE Prepare(t)
  BY <1>0, <1>1, AdmitType, RowsType DEF Prepare, TypeOK, memory
<1>2. CASE Enqueue(t)
  BY <1>0, <1>2, AdmitType, RowsType DEF Enqueue, TypeOK
<1>3. CASE AppServerEnqueue(t)
  BY <1>0, <1>3, AdmitType, RowsType DEF AppServerEnqueue, TypeOK, memory
<1>4. CASE \E turn \in Turns : AppServerStart(t, turn)
  BY <1>0, <1>4, StartType, RowsType DEF AppServerStart, TypeOK, memory
<1>5. CASE Resume(t)
  BY <1>0, <1>5, AdmitType, RowsType DEF Resume, TypeOK
<1>6. CASE Cancel(t)
  BY <1>0, <1>6, TerminalType, RowsType DEF Cancel, TypeOK
<1>7. CASE CancelRun(t)
  BY <1>7 DEF CancelRun, TypeOK
<1>8. CASE RetryOutput(t)
  <2>1. ValidationAttempt(rows[t]) \in Nat
    BY <1>0, <1>8, ValidationAttemptType DEF RetryOutput, CanClaimOutputInvalidRetry
  <2>2. [IdleWorker EXCEPT !.pc = "result", !.v = ValidationAttempt(rows[t])] \in WorkerRecord
    BY <2>1 DEF IdleWorker, WorkerRecord, WorkerStates, Outcomes
  <2>3. worker' \in [Workers -> WorkerRecord]
    BY <1>8, <2>2 DEF RetryOutput, TypeOK
  <2>4. rows' \in [Tasks -> Row]
    BY <1>0, <1>8, ResultType, RowsType DEF RetryOutput, TypeOK
  <2> QED
    BY <1>8, <2>3, <2>4 DEF RetryOutput, TypeOK
<1> QED
  BY <1>1, <1>2, <1>3, <1>4, <1>5, <1>6, <1>7, <1>8 DEF Client

\* The state of the loop between two tasks.
Idle(l) == l \in LoopRecord /\ l.cur = NoTask /\ l.pc \notin {"claim", "register", "abandon", "release"}

LEMMA LoopUpdate ==
  ASSUME NEW l \in LoopRecord, NEW pc \in LoopStates, NEW after \in {"top", "park"},
         NEW slots \in Int, NEW list \in SUBSET Tasks
  PROVE  /\ [l EXCEPT !.pc = pc, !.after = after, !.slots = slots] \in LoopRecord
         /\ [l EXCEPT !.pc = pc, !.list = list, !.slots = slots] \in LoopRecord
  BY DEF LoopRecord

\* A step of the dispatch goroutine leaves the state well typed.
LEMMA DispatcherType ==
  ASSUME TypeOK, Dispatcher
  PROVE  TypeOK'
<1>0. /\ limit \in Int /\ Cardinality(running) \in Int /\ loop \in LoopRecord
      /\ loop.cur # NoTask <=> loop.pc \in {"claim", "register", "abandon", "release"}
  BY LimitType, CardinalityType DEF TypeOK
<1>1. ASSUME NEW after \in {"top", "park"}, loop.pc = "top", BeginDispatch(after)
      PROVE  Idle(loop')
  <2>1. loop.cur = NoTask /\ after \in LoopStates
    BY <1>0, <1>1 DEF LoopStates
  <2>2. [loop EXCEPT !.pc = after] \in LoopRecord
    BY <1>0, <2>1 DEF LoopRecord
  <2>3. [loop EXCEPT !.pc = "list", !.after = after, !.slots = limit - Cardinality(running)]
          \in LoopRecord
    <3>1. limit - Cardinality(running) \in Int /\ "list" \in LoopStates
      BY <1>0 DEF LoopStates
    <3> QED
      BY <1>0, <3>1, LoopUpdate
  <2> QED
    BY <1>0, <1>1, <2>1, <2>2, <2>3 DEF BeginDispatch, LoopRecord, Idle
<1>2. ASSUME loop.pc \in {"list", "pick"}
      PROVE  Idle(Return)
  <2>1. loop.cur = NoTask /\ loop.after \in {"top", "park"} /\ loop.after \in LoopStates
    BY <1>0, <1>2 DEF LoopRecord, LoopStates
  <2>2. Return \in LoopRecord
    <3>1. {} \in SUBSET Tasks /\ 0 \in Int
      OBVIOUS
    <3>2. [loop EXCEPT !.pc = loop.after, !.list = {}, !.slots = 0] \in LoopRecord
      BY <1>0, <2>1, <3>1, LoopUpdate
    <3> QED
      BY <3>2 DEF Return
  <2> QED
    BY <1>0, <2>1, <2>2 DEF Return, LoopRecord, Idle
<1>3. CASE TakeWake
  BY <1>1, <1>3 DEF TakeWake, TypeOK, Idle
<1>4. CASE DispatchThenPark
  BY <1>1, <1>4 DEF DispatchThenPark, TypeOK, Idle
<1>5. CASE Unpark \/ StopLoop
  <2>1. Idle(loop')
    BY <1>0, <1>5 DEF Unpark, StopLoop, LoopRecord, LoopStates, Idle
  <2> QED
    BY <1>5, <2>1 DEF Unpark, StopLoop, TypeOK, Idle
<1>6. CASE ListQueued
  <2>1. Idle(loop')
    BY <1>0, <1>6 DEF ListQueued, LoopRecord, LoopStates, Idle
  <2> QED
    BY <1>6, <2>1 DEF ListQueued, TypeOK, Idle
<1>7. CASE ListFails \/ EndDispatch
  BY <1>2, <1>7 DEF ListFails, EndDispatch, TypeOK, Idle
<1>8. CASE Pick
  <2>1. PICK t \in Tasks :
          \/ /\ loop' = [loop EXCEPT !.list = @ \ {t}]
             /\ lock' = lock
          \/ /\ loop' = [loop EXCEPT !.pc = "claim", !.list = @ \ {t}, !.cur = t]
             /\ lock' = [lock EXCEPT ![Key(t)] = t]
    BY <1>8 DEF Pick
  <2>2. loop' \in LoopRecord /\ (loop'.cur # NoTask <=> loop'.pc \in {"claim", "register", "abandon", "release"})
    <3>1. loop.pc = "pick" /\ loop.cur = NoTask /\ NoTask \notin Tasks
      BY <1>0, <1>8, TasksAssumption DEF Pick
    <3>2. CASE loop' = [loop EXCEPT !.list = @ \ {t}]
      BY <1>0, <3>1, <3>2 DEF LoopRecord
    <3>3. CASE loop' = [loop EXCEPT !.pc = "claim", !.list = @ \ {t}, !.cur = t]
      BY <1>0, <3>1, <3>3 DEF LoopRecord, LoopStates
    <3> QED
      BY <2>1, <3>2, <3>3
  <2>3. lock' \in [Keys -> Tasks \cup {NoTask}]
    BY <2>1 DEF TypeOK
  <2> QED
    BY <1>8, <2>2, <2>3 DEF Pick, TypeOK
<1>9. CASE BuildFails \/ ClaimRefused
  <2>1. loop' \in LoopRecord /\ loop'.cur # NoTask /\ loop'.pc = "abandon"
    BY <1>0, <1>9 DEF BuildFails, ClaimRefused, LoopRecord, LoopStates
  <2> QED
    BY <1>9, <2>1 DEF BuildFails, ClaimRefused, TypeOK
<1>12. CASE Abandon
  <2>1. loop.cur \in Tasks /\ rows[loop.cur] \in Row
    BY <1>0, <1>12 DEF Abandon, LoopRecord, TypeOK
  <2>2. rows' \in [Tasks -> Row]
    BY <1>12, <2>1, TerminalType, RowsType DEF Abandon, TypeOK
  <2>3. loop' \in LoopRecord /\ loop'.cur # NoTask /\ loop'.pc = "release"
    BY <1>0, <1>12 DEF Abandon, LoopRecord, LoopStates
  <2> QED
    BY <1>12, <2>2, <2>3 DEF Abandon, TypeOK
<1>13. CASE Release
  <2>1. lock' \in [Keys -> Tasks \cup {NoTask}]
    BY <1>13 DEF Release, TypeOK
  <2>2. Idle(loop')
    BY <1>0, <1>13 DEF Release, LoopRecord, LoopStates, Idle
  <2> QED
    BY <1>13, <2>1, <2>2 DEF Release, TypeOK, Idle
<1>10. CASE Claim
  <2>1. loop.cur \in Tasks /\ rows[loop.cur] \in Row
    BY <1>0, <1>10 DEF Claim, LoopRecord, TypeOK
  <2>2. rows' \in [Tasks -> Row]
    BY <1>10, <2>1, StartType, RowsType DEF Claim, TypeOK
  <2>3. loop' \in LoopRecord /\ loop'.cur # NoTask /\ loop'.pc = "register"
    BY <1>0, <1>10 DEF Claim, LoopRecord, LoopStates
  <2> QED
    BY <1>10, <2>2, <2>3 DEF Claim, TypeOK
<1>11. CASE Register
  <2>1. loop.cur \in Tasks
    BY <1>0, <1>11 DEF Register, LoopRecord
  <2>2. [IdleWorker EXCEPT !.pc = "start"] \in WorkerRecord
    BY DEF IdleWorker, WorkerRecord, WorkerStates, Outcomes
  <2>3. worker' \in [Workers -> WorkerRecord]
    BY <1>11, <2>2 DEF Register, TypeOK
  <2>4. Idle(loop')
    <3>1. loop.slots - 1 \in Int /\ "pick" \in LoopStates
      BY <1>0 DEF LoopRecord, LoopStates
    <3>2. loop' = [loop EXCEPT !.pc = "pick", !.slots = loop.slots - 1, !.cur = NoTask]
      BY <1>11 DEF Register
    <3> QED
      BY <1>0, <3>1, <3>2 DEF LoopRecord, Idle
  <2> QED
    BY <1>11, <2>1, <2>3, <2>4 DEF Register, TypeOK, Idle
<1> QED
  BY <1>3, <1>4, <1>5, <1>6, <1>7, <1>8, <1>9, <1>10, <1>11, <1>12, <1>13 DEF Dispatcher
\* A new phase of a goroutine, and the way out of it.
LEMMA WorkerUpdate ==
  ASSUME worker \in [Workers -> WorkerRecord], NEW w \in Workers
  PROVE  /\ \A pc \in WorkerStates : Goto(w, pc) => worker' \in [Workers -> WorkerRecord]
         /\ Leave(w) => worker' \in [Workers -> WorkerRecord]
<1>1. \A pc \in WorkerStates : [IdleWorker EXCEPT !.pc = pc] \in WorkerRecord
  BY DEF IdleWorker, WorkerRecord, Outcomes
<1>2. {"finish", "idle"} \subseteq WorkerStates
  BY DEF WorkerStates
<1>3. ASSUME NEW pc \in WorkerStates PROVE [worker[w] EXCEPT !.pc = pc] \in WorkerRecord
  BY DEF WorkerRecord
<1> QED
  BY <1>1, <1>2, <1>3 DEF Goto, Leave

LEMMA PersistFailureType ==
  ASSUME rows \in [Tasks -> Row], NEW t \in Tasks, PersistFailure(t)
  PROVE  rows' \in [Tasks -> Row]
  BY TerminalType DEF PersistFailure

LEMMA FinishExecutionType ==
  ASSUME NEW row \in Row, NEW state \in {"failed", "canceled", "interrupted"}
  PROVE  FinishExecution(row, state) \in Row
  BY FinishActivePhaseType DEF FinishExecution, PhaseKeys, PhaseStates

\* A step of the result pipeline leaves the state well typed.
LEMMA PipelineType ==
  ASSUME TypeOK, NEW w \in Workers, Pipeline(w)
  PROVE  TypeOK'
<1>0. /\ rows \in [Tasks -> Row] /\ worker \in [Workers -> WorkerRecord]
      /\ w[2] \in Tasks /\ rows[w[2]] \in Row
      /\ {"commit", "inputs", "write"} \subseteq WorkerStates
  BY DEF TypeOK, Workers, Runs, Retries, WorkerStates
<1>1. CASE ResultFailed(w)
  <2>1. rows' \in [Tasks -> Row]
    BY <1>0, <1>1, ResultType, PersistFailureType DEF ResultFailed, Errors
  <2>2. worker' \in [Workers -> WorkerRecord]
    BY <1>0, <1>1, WorkerUpdate DEF ResultFailed
  <2> QED
    BY <1>1, <2>1, <2>2 DEF ResultFailed, TypeOK
<1>2. CASE ResultAccepted(w)
  <2>1. PICK pc \in WorkerStates, outcome \in Outcomes :
          worker' = [worker EXCEPT ![w].pc = pc, ![w].outcome = outcome]
    BY <1>0, <1>2 DEF ResultAccepted, Outcomes
  <2>2. [worker[w] EXCEPT !.pc = pc, !.outcome = outcome] \in WorkerRecord
    BY <1>0 DEF WorkerRecord
  <2>3. worker' \in [Workers -> WorkerRecord]
    BY <1>0, <2>1, <2>2
  <2> QED
    BY <1>2, <2>3 DEF ResultAccepted, TypeOK
<1>3. CASE InputsCurrent(w)
  BY <1>0, <1>3, WorkerUpdate DEF InputsCurrent, TypeOK
<1>4. CASE InputsSuperseded(w)
  BY <1>0, <1>4, WorkerUpdate, PersistFailureType DEF InputsSuperseded, TypeOK
<1>5. CASE CommitAssets(w)
  <2>1. rows' \in [Tasks -> Row]
    BY <1>0, <1>5, ResultType, PersistFailureType DEF CommitAssets
  <2>2. worker' \in [Workers -> WorkerRecord]
    BY <1>0, <1>5, WorkerUpdate DEF CommitAssets
  <2> QED
    BY <1>5, <2>1, <2>2 DEF CommitAssets, TypeOK
<1>6. CASE WriteResult(w)
  <2>1. worker[w].outcome \in {"awaiting_input", "completed"}
    BY <1>0 DEF WorkerRecord, Outcomes
  <2>2. rows' \in [Tasks -> Row]
    <3>1. WriteSuccess(rows[w[2]], worker[w].v, worker[w].outcome) \in Row
      BY <1>0, <2>1, ResultType
    <3> QED
      BY <1>0, <1>6, <3>1, PersistFailureType DEF WriteResult
  <2>3. worker' \in [Workers -> WorkerRecord]
    BY <1>0, <1>6, WorkerUpdate DEF WriteResult
  <2> QED
    BY <1>6, <2>2, <2>3 DEF WriteResult, TypeOK
<1> QED
  BY <1>1, <1>2, <1>3, <1>4, <1>5, <1>6 DEF Pipeline
\* A step of a run leaves the state well typed.
LEMMA RunnerType ==
  ASSUME TypeOK, NEW t \in Tasks, Runner(t) \/ SignalRun(t) \/ ReportSession(t)
  PROVE  TypeOK'
<1> DEFINE w == <<"run", t>>
<1>0. /\ rows \in [Tasks -> Row] /\ worker \in [Workers -> WorkerRecord]
      /\ w \in Workers /\ rows[t] \in Row /\ Key(t) \in Keys
      /\ {"exec", "fail", "validate"} \subseteq WorkerStates
  BY WorkerNames, KeyType DEF TypeOK, WorkerStates
<1>1. CASE StartTask(t)
  BY <1>0, <1>1, StartType, WorkerUpdate DEF StartTask, TypeOK
<1>2. CASE StartRefused(t)
  BY <1>0, <1>2, WorkerUpdate DEF StartRefused, TypeOK
<1>3. CASE ExecCanceled(t)
  <2>1. FinishExecution(rows[t], "canceled") \in Row
    BY <1>0, FinishExecutionType
  <2> QED
    BY <1>0, <1>3, <2>1, WorkerUpdate DEF ExecCanceled, TypeOK
<1>4. CASE ExecFails(t)
  <2>1. PICK state \in {"failed", "interrupted"} :
          rows' = [rows EXCEPT ![t] = FinishExecution(rows[t], state)]
    BY <1>4 DEF ExecFails
  <2>2. rows' \in [Tasks -> Row]
    BY <1>0, <2>1, FinishExecutionType
  <2> QED
    BY <1>0, <1>4, <2>2, WorkerUpdate DEF ExecFails, TypeOK
<1>12. CASE RunFails(t)
  BY <1>0, <1>12, WorkerUpdate, PersistFailureType DEF RunFails, TypeOK
<1>5. CASE ExecEnds(t)
  BY <1>0, <1>5, WorkerUpdate DEF ExecEnds, TypeOK
<1>6. CASE Validate(t)
  <2>1. ValidationAttempt(rows[t]) \in Nat
    BY <1>0, <1>6, ValidationAttemptType DEF Validate
  <2>2. [worker[w] EXCEPT !.pc = "result", !.v = ValidationAttempt(rows[t])] \in WorkerRecord
    BY <1>0, <2>1 DEF WorkerRecord, WorkerStates
  <2>3. worker' \in [Workers -> WorkerRecord]
    BY <1>0, <1>6, <2>2 DEF Validate
  <2>4. rows' \in [Tasks -> Row]
    BY <1>0, <1>6, ResultType DEF Validate
  <2> QED
    BY <1>6, <2>3, <2>4 DEF Validate, TypeOK
<1>7. CASE ValidateRefused(t)
  BY <1>0, <1>7, WorkerUpdate, PersistFailureType DEF ValidateRefused, TypeOK
<1>8. CASE Pipeline(w)
  BY <1>0, <1>8, PipelineType
<1>9. CASE FinishRun(t)
  <2>1. worker' \in [Workers -> WorkerRecord]
    BY <1>0, <1>9 DEF FinishRun, IdleWorker, WorkerRecord, WorkerStates, Outcomes
  <2> QED
    BY <1>0, <1>9, <2>1 DEF FinishRun, TypeOK
<1>10. CASE SignalRun(t)
  BY <1>10 DEF SignalRun, TypeOK
<1>11. CASE ReportSession(t)
  BY <1>0, <1>11, StartType DEF ReportSession, TypeOK, memory
<1> QED
  BY <1>1, <1>2, <1>3, <1>4, <1>5, <1>6, <1>7, <1>8, <1>9, <1>10, <1>11, <1>12 DEF Runner

\* A restart finds well-typed rows and starts from a well-typed memory.
LEMMA RestartType ==
  ASSUME TypeOK, Restart
  PROVE  TypeOK'
<1>1. rows' \in [Tasks -> Row]
  BY TerminalType DEF Restart, TypeOK
<1>2. loop' \in LoopRecord /\ loop'.cur = NoTask /\ loop'.pc = "top"
  BY DEF Restart, FreshLoop, LoopRecord, LoopStates
<1>3. worker' \in [Workers -> WorkerRecord]
  BY DEF Restart, IdleWorker, WorkerRecord, WorkerStates, Outcomes
<1>4. lock' \in [Keys -> Tasks \cup {NoTask}]
  BY DEF Restart
<1>5. restarts' \in 0..MaxRestart
  BY MaxRestartAssumption DEF Restart, TypeOK
<1> QED
  BY <1>1, <1>2, <1>3, <1>4, <1>5 DEF Restart, TypeOK

LEMMA NextType == TypeOK /\ [Next]_vars => TypeOK'
<1> SUFFICES ASSUME TypeOK, [Next]_vars PROVE TypeOK'
  OBVIOUS
<1>1. ASSUME (\E n \in Limits : SetLimit(n)) \/ SignalLimit PROVE TypeOK'
  BY <1>1 DEF SetLimit, SignalLimit, TypeOK
<1>2. CASE Close
  BY <1>2 DEF Close, TypeOK
<1>3. CASE CloseRuns
  BY <1>3 DEF CloseRuns, TypeOK
<1>4. CASE UNCHANGED vars
  BY <1>4 DEF vars, memory, TypeOK
<1>5. ASSUME NEW t \in Tasks, Pipeline(<<"retry", t>>) PROVE TypeOK'
  BY <1>5, WorkerNames, PipelineType
<1> QED
  BY <1>1, <1>2, <1>3, <1>4, <1>5, ClientType, RunnerType, DispatcherType, RestartType DEF Next

\* Every reachable state is well typed, in particular every row keeps the
\* shape the repository gives it.
THEOREM TypeCorrect == Spec => []TypeOK
  BY InitType, NextType, PTL DEF Spec
-----------------------------------------------------------------------------
(* Mutual exclusion                                                        *)

LEMMA LockInit == Init => LockInv
<1> SUFFICES ASSUME Init PROVE LockInv
  OBVIOUS
<1>1. \A t \in Tasks : ~Live(t)
  BY WorkerNames DEF Init, Live, IdleWorker
<1> QED
  BY <1>1, InitType DEF Init, FreshLoop, LockInv, TablesMatchRuns, RunsHoldLocks, DispatcherHoldsLock

\* What the lock invariant speaks of stays put when no table, no loop and no
\* liveness of a run changes.
LEMMA LockFrame ==
  ASSUME LockInv, TypeOK', UNCHANGED <<running, lock>>, loop'.cur = loop.cur,
         \A t \in Tasks : Live(t)' = Live(t)
  PROVE  LockInv'
<1>0. /\ \A k \in Keys : lock[k] \in Tasks \cup {NoTask}
      /\ loop.cur \in Tasks \cup {NoTask}
  BY DEF LockInv, TypeOK, LoopRecord
<1>1. TablesMatchRuns'
  BY <1>0 DEF LockInv, TablesMatchRuns, Live
<1>2. RunsHoldLocks'
  BY DEF LockInv, RunsHoldLocks
<1>3. DispatcherHoldsLock'
  BY <1>0 DEF LockInv, DispatcherHoldsLock, Live
<1> QED
  BY <1>1, <1>2, <1>3 DEF LockInv

\* A worker that moves on without leaving keeps its run alive, and a retry
\* never touches a run.
LEMMA LiveFrame ==
  ASSUME NEW w \in Workers,
         \A u \in Workers \ {w} : worker'[u] = worker[u],
         \/ w \in Retries
         \/ worker[w].pc # "idle" /\ worker'[w].pc # "idle"
  PROVE  \A t \in Tasks : Live(t)' = Live(t)
<1> SUFFICES ASSUME NEW t \in Tasks PROVE Live(t)' <=> Live(t)
  BY DEF Live
<1>1. <<"run", t>> \in Workers /\ <<"run", t>> \notin Retries
  BY WorkerNames DEF Retries
<1> QED
  BY <1>1 DEF Live

\* No step of the pipeline touches the tables or ends a run.
LEMMA PipelineLive ==
  ASSUME TypeOK, NEW w \in Workers, Pipeline(w)
  PROVE  /\ UNCHANGED <<running, lock, loop>>
         /\ \A t \in Tasks : Live(t)' = Live(t)
<1>0. worker \in [Workers -> WorkerRecord]
  BY DEF TypeOK
<1>1. UNCHANGED <<running, lock, loop>>
  BY DEF Pipeline, ResultFailed, ResultAccepted, InputsCurrent, InputsSuperseded, CommitAssets, WriteResult
<1>2. worker[w].pc # "idle"
  BY DEF Pipeline, ResultFailed, ResultAccepted, InputsCurrent, InputsSuperseded, CommitAssets, WriteResult
<1>3. /\ \A u \in Workers \ {w} : worker'[u] = worker[u]
      /\ w \in Runs => worker'[w].pc # "idle"
  <2>1. ASSUME Leave(w)
        PROVE  /\ \A u \in Workers \ {w} : worker'[u] = worker[u]
               /\ w \in Runs => worker'[w].pc # "idle"
    BY <1>0, <2>1 DEF Leave, IdleWorker
  <2>2. ASSUME NEW pc \in {"commit", "inputs", "write"}, Goto(w, pc)
        PROVE  /\ \A u \in Workers \ {w} : worker'[u] = worker[u]
               /\ w \in Runs => worker'[w].pc # "idle"
    BY <1>0, <2>2 DEF Goto, WorkerRecord
  <2>3. ASSUME ResultAccepted(w)
        PROVE  /\ \A u \in Workers \ {w} : worker'[u] = worker[u]
               /\ worker'[w].pc # "idle"
    BY <1>0, <2>3 DEF ResultAccepted, WorkerRecord
  <2> QED
    BY <2>1, <2>2, <2>3
    DEF Pipeline, ResultFailed, InputsCurrent, InputsSuperseded, CommitAssets, WriteResult
<1> QED
  BY <1>1, <1>2, <1>3, LiveFrame DEF Workers
\* Two runs that hold their locks have different keys, so the lock a run
\* releases is nobody else's.
LEMMA KeysApart ==
  ASSUME RunsHoldLocks, NEW t \in Tasks, NEW u \in Tasks, Live(t), Live(u), Key(t) = Key(u)
  PROVE  t = u
  BY DEF RunsHoldLocks

LEMMA FinishRunLock ==
  ASSUME LockInv, TypeOK', NEW t \in Tasks, FinishRun(t)
  PROVE  LockInv'
<1> DEFINE w == <<"run", t>>
<1>0. /\ worker \in [Workers -> WorkerRecord] /\ lock \in [Keys -> Tasks \cup {NoTask}]
      /\ loop.cur \in Tasks \cup {NoTask} /\ Key(t) \in Keys /\ NoTask \notin Tasks
  BY KeyType, TasksAssumption DEF LockInv, TypeOK, LoopRecord
<1>1. /\ Live(t) /\ ~Live(t)'
      /\ \A u \in Tasks \ {t} : Live(u)' <=> Live(u)
  BY <1>0, WorkerNames DEF FinishRun, Live, IdleWorker
<1>2. /\ running' = running \ {t} /\ lock' = [lock EXCEPT ![Key(t)] = NoTask]
      /\ loop' = loop
  BY DEF FinishRun
<1>3. lock[Key(t)] = t /\ loop.cur # t
  BY <1>0, <1>1 DEF LockInv, RunsHoldLocks, DispatcherHoldsLock
<1>4. TablesMatchRuns'
  <2>1. running' = {u \in Tasks : Live(u)'}
    BY <1>1, <1>2 DEF LockInv, TablesMatchRuns
  <2>2. ASSUME NEW k \in Keys, lock'[k] # NoTask
        PROVE  Key(lock'[k]) = k /\ (Live(lock[k])' \/ loop'.cur = lock'[k])
    BY <1>0, <1>1, <1>2, <1>3, <2>2 DEF LockInv, TablesMatchRuns
  <2> QED
    BY <2>1, <2>2 DEF TablesMatchRuns
<1>5. RunsHoldLocks'
  <2> SUFFICES ASSUME NEW u \in Tasks, Live(u)' PROVE lock'[Key(u)] = u
    BY DEF RunsHoldLocks
  <2>1. u # t /\ Live(u) /\ Key(u) # Key(t)
    BY <1>1, KeysApart DEF LockInv
  <2> QED
    BY <1>0, <1>2, <2>1, KeyType DEF LockInv, RunsHoldLocks
<1>6. DispatcherHoldsLock'
  <2> SUFFICES ASSUME loop.cur # NoTask PROVE lock'[Key(loop.cur)] = loop.cur /\ ~Live(loop.cur)'
    BY <1>2 DEF DispatcherHoldsLock
  <2>1. loop.cur \in Tasks /\ lock[Key(loop.cur)] = loop.cur /\ ~Live(loop.cur)
    BY <1>0 DEF LockInv, DispatcherHoldsLock
  <2>2. Key(loop.cur) # Key(t) /\ Key(loop.cur) \in Keys
    BY <1>3, <2>1, KeyType
  <2> QED
    BY <1>0, <1>1, <1>2, <1>3, <2>1, <2>2
<1> QED
  BY <1>4, <1>5, <1>6 DEF LockInv

LEMMA RunnerLock ==
  ASSUME LockInv, TypeOK', NEW t \in Tasks, Runner(t)
  PROVE  LockInv'
<1> DEFINE w == <<"run", t>>
<1>0. w \in Runs /\ w \in Workers /\ TypeOK /\ worker \in [Workers -> WorkerRecord]
  BY WorkerNames DEF LockInv, TypeOK
<1>1. CASE Pipeline(w)
  BY <1>0, <1>1, PipelineLive, LockFrame
<1>2. CASE FinishRun(t)
  BY <1>2, FinishRunLock
<1>3. CASE StartTask(t) \/ StartRefused(t) \/ ExecCanceled(t) \/ ExecFails(t) \/ RunFails(t)
             \/ ExecEnds(t) \/ Validate(t) \/ ValidateRefused(t)
  <2>1. UNCHANGED <<running, lock, loop>> /\ worker[w].pc # "idle"
    BY <1>3 DEF StartTask, StartRefused, ExecCanceled, ExecFails, RunFails, ExecEnds, Validate, ValidateRefused
  <2>2. ASSUME \/ Leave(w)
               \/ \E pc \in {"exec", "fail", "validate"} : Goto(w, pc)
               \/ worker' = [worker EXCEPT ![w].pc = "result", ![w].v = ValidationAttempt(rows[t])]
        PROVE  /\ \A u \in Workers \ {w} : worker'[u] = worker[u]
               /\ worker'[w].pc # "idle"
    BY <1>0, <2>2 DEF Leave, Goto, IdleWorker, WorkerRecord
  <2>3. \/ Leave(w)
        \/ \E pc \in {"exec", "fail", "validate"} : Goto(w, pc)
        \/ worker' = [worker EXCEPT ![w].pc = "result", ![w].v = ValidationAttempt(rows[t])]
    BY <1>3 DEF StartTask, StartRefused, ExecCanceled, ExecFails, RunFails, ExecEnds, Validate, ValidateRefused
  <2>4. \A u \in Tasks : Live(u)' = Live(u)
    BY <1>0, <2>1, <2>2, <2>3, LiveFrame
  <2> QED
    BY <2>1, <2>4, LockFrame
<1> QED
  BY <1>1, <1>2, <1>3 DEF Runner
\* Steps of the dispatch goroutine.  Pick takes a free lock, Release gives back
\* the lock of the task being started, and Register hands that lock over to
\* the new run.
LEMMA DispatcherLock ==
  ASSUME LockInv, TypeOK', Dispatcher
  PROVE  LockInv'
<1>0. /\ worker \in [Workers -> WorkerRecord] /\ lock \in [Keys -> Tasks \cup {NoTask}]
      /\ loop \in LoopRecord /\ loop.cur \in Tasks \cup {NoTask} /\ NoTask \notin Tasks
      /\ loop.cur # NoTask <=> loop.pc \in {"claim", "register", "abandon", "release"}
  BY TasksAssumption DEF LockInv, TypeOK, LoopRecord
<1>1. ASSUME UNCHANGED <<running, lock, worker>>, loop'.cur = loop.cur PROVE LockInv'
  BY <1>1, LockFrame DEF Live
<1>2. CASE TakeWake \/ DispatchThenPark \/ Unpark \/ StopLoop
           \/ ListQueued \/ ListFails \/ EndDispatch \/ Claim
           \/ BuildFails \/ ClaimRefused \/ Abandon
  <2>1. UNCHANGED <<running, lock, worker>>
    BY <1>2 DEF TakeWake, DispatchThenPark, Unpark, StopLoop, ListQueued, ListFails, EndDispatch, Claim,
                BuildFails, ClaimRefused, Abandon
  <2>2. loop'.cur = loop.cur
    BY <1>0, <1>2
    DEF TakeWake, DispatchThenPark, BeginDispatch, Unpark, StopLoop, ListQueued, ListFails,
        EndDispatch, Return, Claim, BuildFails, ClaimRefused, Abandon, LoopRecord
  <2> QED
    BY <1>1, <2>1, <2>2
<1>3. CASE Pick
  <2>0. UNCHANGED <<running, worker>> /\ loop.cur = NoTask
    BY <1>0, <1>3 DEF Pick
  <2>1. PICK t \in Tasks :
          \/ /\ loop' = [loop EXCEPT !.list = @ \ {t}]
             /\ lock' = lock
          \/ /\ lock[Key(t)] = NoTask
             /\ loop' = [loop EXCEPT !.pc = "claim", !.list = @ \ {t}, !.cur = t]
             /\ lock' = [lock EXCEPT ![Key(t)] = t]
    BY <1>3 DEF Pick
  <2>2. CASE loop' = [loop EXCEPT !.list = @ \ {t}] /\ lock' = lock
    BY <1>0, <1>1, <2>0, <2>2 DEF LoopRecord
  <2>3. CASE /\ lock[Key(t)] = NoTask
             /\ loop' = [loop EXCEPT !.pc = "claim", !.list = @ \ {t}, !.cur = t]
             /\ lock' = [lock EXCEPT ![Key(t)] = t]
    <3>1. loop'.cur = t /\ Key(t) \in Keys /\ lock'[Key(t)] = t
          /\ \A k \in Keys \ {Key(t)} : lock'[k] = lock[k]
      BY <1>0, <2>3, KeyType DEF LoopRecord
    <3>2. \A u \in Tasks : Live(u) => Key(u) # Key(t) /\ Key(u) \in Keys
      BY <1>0, <2>3, KeyType DEF LockInv, RunsHoldLocks
    <3>3. TablesMatchRuns'
      BY <1>0, <2>0, <3>1 DEF LockInv, TablesMatchRuns, Live
    <3>4. RunsHoldLocks'
      BY <2>0, <3>1, <3>2 DEF LockInv, RunsHoldLocks, Live
    <3>5. DispatcherHoldsLock'
      BY <2>0, <3>1, <3>2 DEF DispatcherHoldsLock, Live
    <3> QED
      BY <3>3, <3>4, <3>5 DEF LockInv
  <2> QED
    BY <2>1, <2>2, <2>3
<1>4. CASE Release
  <2>0. UNCHANGED <<running, worker>> /\ loop.cur \in Tasks
    BY <1>0, <1>4 DEF Release
  <2> DEFINE c == loop.cur
  <2>1. loop'.cur = NoTask /\ lock' = [lock EXCEPT ![Key(c)] = NoTask]
    BY <1>0, <1>4, <2>0 DEF Release, LoopRecord
  <2>2. /\ lock[Key(c)] = c /\ ~Live(c) /\ Key(c) \in Keys
    BY <1>0, <2>0, KeyType DEF LockInv, DispatcherHoldsLock
  <2>3. /\ lock'[Key(c)] = NoTask
        /\ \A k \in Keys \ {Key(c)} : lock'[k] = lock[k]
    BY <1>0, <2>1, <2>2
  <2>4. TablesMatchRuns'
    BY <1>0, <2>0, <2>2, <2>3 DEF LockInv, TablesMatchRuns, Live
  <2>5. RunsHoldLocks'
    BY <2>0, <2>2, <2>3, KeyType DEF LockInv, RunsHoldLocks, Live
  <2>6. DispatcherHoldsLock'
    BY <2>1 DEF DispatcherHoldsLock
  <2> QED
    BY <2>4, <2>5, <2>6 DEF LockInv
<1>5. CASE Register
  <2>a. PICK c \in Tasks : c = loop.cur
    BY <1>0, <1>5 DEF Register
  <2> DEFINE w == <<"run", c>>
  <2>0. /\ UNCHANGED lock /\ c \in Tasks /\ w \in Workers /\ running' = running \cup {c}
        /\ loop'.cur = NoTask /\ lock[Key(c)] = c /\ Key(c) \in Keys
    BY <1>0, <1>5, <2>a, WorkerNames, KeyType DEF Register, LockInv, DispatcherHoldsLock, LoopRecord
  <2>1. Live(c)' /\ \A u \in Tasks \ {c} : Live(u)' <=> Live(u)
    <3>1. worker'[w].pc = "start" /\ \A u \in Workers \ {w} : worker'[u] = worker[u]
      BY <1>0, <1>5, <2>a, <2>0 DEF Register, IdleWorker
    <3>2. \A u \in Tasks \ {c} : <<"run", u>> \in Workers \ {w}
      BY WorkerNames
    <3>3. Live(c)'
      BY <3>1 DEF Live
    <3> QED
      BY <3>1, <3>2, <3>3 DEF Live
  <2>2. TablesMatchRuns'
    <3>1. running' = {u \in Tasks : Live(u)'}
      BY <2>0, <2>1 DEF LockInv, TablesMatchRuns
    <3>2. ASSUME NEW k \in Keys, lock'[k] # NoTask
          PROVE  Key(lock'[k]) = k /\ (Live(lock[k])' \/ loop'.cur = lock'[k])
      BY <1>0, <2>a, <2>0, <2>1, <3>2 DEF LockInv, TablesMatchRuns
    <3> QED
      BY <2>0, <3>1, <3>2 DEF TablesMatchRuns
  <2>3. RunsHoldLocks'
    BY <2>0, <2>1 DEF LockInv, RunsHoldLocks
  <2>4. DispatcherHoldsLock'
    BY <2>0 DEF DispatcherHoldsLock
  <2> QED
    BY <2>2, <2>3, <2>4 DEF LockInv
<1> QED
  BY <1>2, <1>3, <1>4, <1>5 DEF Dispatcher

LEMMA LockNext == LockInv /\ [Next]_vars => LockInv'
<1> SUFFICES ASSUME LockInv, [Next]_vars PROVE LockInv'
  OBVIOUS
<1>0. TypeOK /\ TypeOK'
  BY NextType DEF LockInv
<1>1. ASSUME UNCHANGED <<running, lock, worker, loop>> PROVE LockInv'
  BY <1>0, <1>1, LockFrame DEF Live
<1>2. ASSUME NEW t \in Tasks, Client(t) PROVE LockInv'
  <2>1. CASE RetryOutput(t)
    <3>1. /\ <<"retry", t>> \in Workers /\ <<"retry", t>> \in Retries
          /\ \A u \in Workers \ {<<"retry", t>>} : worker'[u] = worker[u]
      BY <1>0, <2>1, WorkerNames DEF RetryOutput, TypeOK
    <3>2. UNCHANGED <<running, lock, loop>>
      BY <2>1 DEF RetryOutput
    <3> QED
      BY <1>0, <3>1, <3>2, LiveFrame, LockFrame
  <2>2. CASE ~RetryOutput(t)
    BY <1>1, <1>2, <2>2
    DEF Client, Prepare, Enqueue, AppServerEnqueue, AppServerStart, Resume, Cancel, memory
  <2> QED
    BY <2>1, <2>2
<1>3. ASSUME NEW t \in Tasks, CancelRun(t) \/ SignalRun(t) \/ ReportSession(t) PROVE LockInv'
  BY <1>1, <1>3 DEF CancelRun, SignalRun, ReportSession, memory
<1>4. ASSUME NEW t \in Tasks, Pipeline(<<"retry", t>>) PROVE LockInv'
  BY <1>0, <1>4, WorkerNames, PipelineLive, LockFrame
<1>5. ASSUME (\E n \in Limits : SetLimit(n)) \/ SignalLimit PROVE LockInv'
  BY <1>1, <1>5 DEF SetLimit, SignalLimit
<1>6. CASE Close \/ CloseRuns
  BY <1>1, <1>6 DEF Close, CloseRuns
<1>7. CASE Restart
  <2>1. \A t \in Tasks : ~Live(t)'
    BY <1>7, WorkerNames DEF Restart, Live, IdleWorker
  <2> QED
    BY <1>0, <1>7, <2>1
    DEF Restart, FreshLoop, LockInv, TablesMatchRuns, RunsHoldLocks, DispatcherHoldsLock
<1>8. CASE UNCHANGED vars
  BY <1>1, <1>8 DEF vars, memory
<1> QED
  BY <1>0, <1>2, <1>3, <1>4, <1>5, <1>6, <1>7, <1>8, RunnerLock, DispatcherLock DEF Next

\* The tables of the scheduler always match its goroutines.
THEOREM TablesCorrect == Spec => []TablesMatchRuns
<1>1. Spec => []LockInv
  BY LockInit, LockNext, PTL DEF Spec
<1>2. LockInv => TablesMatchRuns
  BY DEF LockInv
<1> QED
  BY <1>1, <1>2, PTL

\* "A real project needs exclusive asset writes": no two runs share a key.
THEOREM MutualExclusion == Spec => []ProjectExclusive
<1>1. Spec => []LockInv
  BY LockInit, LockNext, PTL DEF Spec
<1>2. LockInv => ProjectExclusive
  BY KeysApart DEF LockInv, ProjectExclusive
<1> QED
  BY <1>1, <1>2, PTL
-----------------------------------------------------------------------------
(* The slots                                                               *)

LEMMA SlotInit == Init => SlotInv
<1> SUFFICES ASSUME Init PROVE SlotInv
  OBVIOUS
<1>1. Cardinality(running) = 0 /\ limit \in Limits /\ loop.pc = "top"
  BY FS_EmptySet DEF Init, FreshLoop
<1>2. \E n \in Limits : 0 <= n
  BY <1>1, LimitsAssumption
<1> QED
  BY <1>1, <1>2, LockInit DEF SlotInv, SlotsReserved, SlotBound

\* A step that adds no run and leaves the loop where it is.
LEMMA SlotFrame ==
  ASSUME SlotInv, running' \subseteq running, loop' = loop, loop.pc \in LoopStates
  PROVE  SlotsReserved' /\ SlotBound'
<1>1. /\ Cardinality(running') \in Int /\ Cardinality(running) \in Int /\ loop.slots \in Int
      /\ Cardinality(running') <= Cardinality(running)
  BY CardinalityType, FS_Subset, FS_CardinalityType
  DEF SlotInv, LockInv, TypeOK, LoopRecord
<1>2. SlotBound'
  BY <1>1, LimitType DEF SlotInv, SlotBound
<1>3. SlotsReserved'
  BY <1>1, LimitType DEF SlotInv, SlotsReserved
<1> QED
  BY <1>2, <1>3

LEMMA SlotDispatcher ==
  ASSUME SlotInv, Dispatcher
  PROVE  SlotsReserved' /\ SlotBound'
<1>0. /\ Cardinality(running) \in Int /\ limit \in Limits /\ limit \in Int
      /\ loop \in LoopRecord /\ loop.slots \in Int /\ loop.after \in {"top", "park"}
      /\ IsFiniteSet(running) /\ Limits \subseteq Int
  BY CardinalityType, LimitType DEF SlotInv, LockInv, TypeOK, LoopRecord
<1>1. ASSUME UNCHANGED running PROVE SlotBound'
  BY <1>1 DEF SlotInv, SlotBound
<1>2. CASE TakeWake \/ DispatchThenPark
  <2>1. PICK after \in {"top", "park"} : BeginDispatch(after)
    BY <1>2 DEF TakeWake, DispatchThenPark
  <2>2. UNCHANGED <<running, limit>>
    BY <1>2 DEF TakeWake, DispatchThenPark
  <2>3. \/ loop'.pc \in {"top", "park"}
        \/ loop'.pc = "list" /\ loop'.slots = limit - Cardinality(running) /\ loop'.slots > 0
    BY <1>0, <2>1 DEF BeginDispatch, LoopRecord
  <2>4. limit - Cardinality(running) + Cardinality(running) <= limit
        /\ Cardinality(running) + (limit - Cardinality(running)) <= limit
    BY <1>0
  <2>5. SlotsReserved'
    BY <1>0, <2>2, <2>3, <2>4 DEF SlotsReserved
  <2> QED
    BY <1>1, <2>2, <2>5
<1>3. CASE Unpark \/ StopLoop \/ ListFails \/ EndDispatch
  <2>1. UNCHANGED running /\ loop'.pc \in {"top", "park", "done"}
    BY <1>0, <1>3 DEF Unpark, StopLoop, ListFails, EndDispatch, Return, LoopRecord
  <2> QED
    BY <1>1, <2>1 DEF SlotsReserved
<1>4. CASE ListQueued \/ Pick \/ Claim \/ BuildFails \/ ClaimRefused \/ Abandon
  <2>1. /\ UNCHANGED running /\ loop'.slots = loop.slots
        /\ loop.pc \in {"list", "pick", "claim", "abandon"}
        /\ loop'.pc # "pick" => loop.slots > 0
    BY <1>0, <1>4 DEF ListQueued, Pick, Claim, BuildFails, ClaimRefused, Abandon, LoopRecord, SlotInv, SlotsReserved
  <2> QED
    BY <1>1, <2>1 DEF SlotInv, SlotsReserved
<1>5. CASE Release
  <2>1. /\ UNCHANGED running /\ loop'.slots = loop.slots
        /\ loop.pc = "release" /\ loop'.pc = "pick"
    BY <1>0, <1>5 DEF Release, LoopRecord
  <2> QED
    BY <1>1, <2>1 DEF SlotInv, SlotsReserved
<1>6. CASE Register
  <2>1. /\ running' = running \cup {loop.cur} /\ loop'.slots = loop.slots - 1
        /\ loop.pc = "register" /\ loop'.pc = "pick"
    BY <1>0, <1>6 DEF Register, LoopRecord
  <2>2. Cardinality(running') \in Int /\ Cardinality(running') <= Cardinality(running) + 1
    <3>1. Cardinality(running \cup {loop.cur}) =
            IF loop.cur \in running THEN Cardinality(running) ELSE Cardinality(running) + 1
      BY <1>0, FS_AddElement
    <3> QED
      BY <1>0, <2>1, <3>1
  <2>3. PICK n \in Limits : Cardinality(running) + loop.slots <= n /\ loop.slots > 0
    BY <2>1 DEF SlotInv, SlotsReserved
  <2>4. n \in Int
    BY <1>0
  <2>5. Cardinality(running') + (loop.slots - 1) <= n /\ Cardinality(running') <= n
    BY <1>0, <2>2, <2>3, <2>4
  <2> QED
    BY <2>1, <2>5 DEF SlotsReserved, SlotBound
<1> QED
  BY <1>2, <1>3, <1>4, <1>5, <1>6 DEF Dispatcher

LEMMA SlotNext == SlotInv /\ [Next]_vars => SlotInv'
<1> SUFFICES ASSUME SlotInv, [Next]_vars PROVE SlotInv'
  OBVIOUS
<1>0. LockInv' /\ TypeOK /\ loop.pc \in LoopStates
  BY LockNext DEF SlotInv, LockInv, TypeOK, LoopRecord
<1>1. ASSUME running' \subseteq running, loop' = loop PROVE SlotInv'
  BY <1>0, <1>1, SlotFrame DEF SlotInv
<1>2. ASSUME NEW t \in Tasks, Client(t) \/ CancelRun(t) \/ SignalRun(t) \/ ReportSession(t)
      PROVE  UNCHANGED <<running, loop>>
  BY <1>2
  DEF Client, Prepare, Enqueue, AppServerEnqueue, AppServerStart, Resume, Cancel, RetryOutput,
      CancelRun, SignalRun, ReportSession, memory
<1>3. ASSUME NEW t \in Tasks, Runner(t) PROVE running' \subseteq running /\ loop' = loop
  BY <1>0, <1>3, WorkerNames, PipelineLive
  DEF Runner, StartTask, StartRefused, ExecCanceled, ExecFails, RunFails, ExecEnds, Validate, ValidateRefused,
      FinishRun
<1>4. ASSUME NEW t \in Tasks, Pipeline(<<"retry", t>>) PROVE UNCHANGED <<running, loop>>
  BY <1>0, <1>4, WorkerNames, PipelineLive
<1>5. ASSUME (\E n \in Limits : SetLimit(n)) \/ SignalLimit PROVE UNCHANGED <<running, loop>>
  BY <1>5 DEF SetLimit, SignalLimit
<1>6. CASE Close \/ CloseRuns \/ UNCHANGED vars
  BY <1>1, <1>6 DEF Close, CloseRuns, vars, memory
<1>7. CASE Restart
  <2>1. running' = {} /\ loop'.pc = "top"
    BY <1>7 DEF Restart, FreshLoop
  <2>2. Cardinality(running') = 0
    BY <2>1, FS_EmptySet
  <2>3. \E n \in Limits : 0 <= n
    <3>1. PICK n \in Limits : TRUE
      BY LimitsAssumption
    <3>2. 0 <= n
      BY <3>1, LimitsAssumption
    <3> QED
      BY <3>1, <3>2
  <2> QED
    BY <1>0, <2>1, <2>2, <2>3 DEF SlotInv, SlotsReserved, SlotBound
<1>8. CASE Dispatcher
  BY <1>0, <1>8, SlotDispatcher DEF SlotInv
<1> QED
  BY <1>1, <1>2, <1>3, <1>4, <1>5, <1>6, <1>7, <1>8 DEF Next

\* The slots a dispatch reads are never handed out twice: whatever the limit
\* does meanwhile, the runs stay below the highest limit that may be set.
THEOREM SlotsBounded == Spec => []SlotBound
<1>1. Spec => []SlotInv
  BY SlotInit, SlotNext, PTL DEF Spec
<1>2. SlotInv => SlotBound
  BY DEF SlotInv
<1> QED
  BY <1>1, <1>2, PTL

-----------------------------------------------------------------------------
(* What the transactions of the store do to the status of a row            *)

\* A row keeps its transport and takes this status.
Becomes(r, row, status) == r.status = status /\ r.transport = row.transport

LEMMA PhasesKeepStatus ==
  ASSUME NEW row \in Row, NEW key \in PhaseKeys, NEW a, NEW state
  PROVE  /\ Becomes(SetPhase(row, key, a, state), row, row.status)
         /\ Becomes(FinishActivePhase(row, key, state), row, row.status)
         /\ Becomes(FinishActiveLifecyclePhases(row, state), row, row.status)
<1>1. ASSUME NEW b PROVE Becomes(SetPhase(row, key, b, state), row, row.status)
  BY DEF SetPhase, Becomes, Row
<1>2. Becomes(FinishActiveLifecyclePhases(row, state), row, row.status)
  <2> DEFINE phases == [k \in PhaseKeys |-> [b \in Attempts |->
                          IF b \in Open(row, k) /\ b = Highest(Open(row, k)) THEN state ELSE row.phases[k][b]]]
  <2> HIDE DEF phases
  <2>1. Becomes([row EXCEPT !.phases = phases], row, row.status)
    BY DEF Becomes, Row
  <2> QED
    BY <2>1 DEF FinishActiveLifecyclePhases, phases
<1> QED
  BY <1>1, <1>2 DEF FinishActivePhase, Becomes

LEMMA QueueStatus ==
  ASSUME NEW row \in Row
  PROVE  /\ Becomes(EnsurePreparedTask(row), row, "queued")
         /\ Becomes(AdmitQueuedTask(row), row, "queued")
         /\ Becomes(BeginLegacyResume(row), row, "queued")
         /\ Becomes(FailQueuedTask(row), row, "failed")
<1>1. /\ [row EXCEPT !.status = "queued"] \in Row
      /\ [row EXCEPT !.status = "queued", !.prepared = TRUE] \in Row
      /\ [row EXCEPT !.status = "queued", !.error = "none"] \in Row
  BY ScalarType DEF Statuses, Errors
<1>2. ASSUME NEW r \in Row, r.status = "queued", r.transport = row.transport
      PROVE  Becomes(AdmitQueue(r), row, "queued")
  BY <1>2, PhasesKeepStatus DEF AdmitQueue, Becomes, PhaseKeys
<1>3. /\ Becomes([row EXCEPT !.status = "queued"], row, "queued")
      /\ Becomes([row EXCEPT !.status = "queued", !.prepared = TRUE], row, "queued")
      /\ Becomes([row EXCEPT !.status = "queued", !.error = "none"], row, "queued")
  BY DEF Becomes, Row
<1>4. Becomes(FailQueuedTask(row), row, "failed")
  <2> DEFINE r == FinishActivePhase(row, "queue_wait", "failed")
  <2>1. r \in Row /\ Becomes(r, row, row.status)
    BY FinishActivePhaseType, PhasesKeepStatus DEF PhaseKeys, PhaseStates
  <2> HIDE DEF r
  <2>2. Becomes([r EXCEPT !.status = "failed", !.error = "other"], row, "failed")
    BY <2>1 DEF Becomes, Row
  <2> QED
    BY <2>2 DEF FailQueuedTask, r
<1> QED
  BY <1>1, <1>2, <1>3, <1>4 DEF EnsurePreparedTask, AdmitQueuedTask, BeginLegacyResume, Becomes

LEMMA ExecutionStatus ==
  ASSUME NEW row \in Row
  PROVE  /\ Becomes(ClaimLegacyStart(row), row, "running")
         /\ Becomes(Start(row), row, "running")
         /\ Becomes(SetSession(row), row, row.status)
         /\ \A turn \in Turns : Becomes(StartAppServerTurn(row, turn), row, row.status)
                                \/ Becomes(StartAppServerTurn(row, turn), row, "running")
         /\ \A state \in PhaseStates : Becomes(FinishExecution(row, state), row, row.status)
<1> DEFINE r == OpenExecution(row)
<1>1. r \in Row /\ Becomes(r, row, row.status)
  <2>1. /\ FinishActivePhase(row, "queue_wait", "completed") \in Row
        /\ Becomes(FinishActivePhase(row, "queue_wait", "completed"), row, row.status)
    BY FinishActivePhaseType, PhasesKeepStatus DEF PhaseKeys, PhaseStates
  <2> QED
    BY <2>1, StartType, PhasesKeepStatus DEF OpenExecution, PhaseKeys, Becomes
<1> HIDE DEF r
<1>2. Becomes([r EXCEPT !.status = "running", !.error = "none", !.started = TRUE], row, "running")
  BY <1>1 DEF Becomes, Row
<1>3. ASSUME NEW turn
      PROVE  Becomes([r EXCEPT !.status = "running", !.turn = turn,
                               !.cphase = "agent_running", !.started = TRUE], row, "running")
  BY <1>1 DEF Becomes, Row
<1>4. Becomes(Start(row), row, "running") /\ Becomes(SetSession(row), row, row.status)
  BY DEF Start, SetSession, Becomes, Row
<1>5. ASSUME NEW state \in PhaseStates PROVE Becomes(FinishExecution(row, state), row, row.status)
  BY PhasesKeepStatus DEF FinishExecution, PhaseKeys
<1>6. Becomes(ClaimLegacyStart(row), row, "running")
  BY <1>2 DEF ClaimLegacyStart, r
<1>7. ASSUME NEW turn \in Turns
      PROVE  Becomes(StartAppServerTurn(row, turn), row, row.status)
             \/ Becomes(StartAppServerTurn(row, turn), row, "running")
  BY <1>3 DEF StartAppServerTurn, r, Becomes
<1> QED
  BY <1>4, <1>5, <1>6, <1>7

LEMMA ResultStatus ==
  ASSUME NEW row \in Row, NEW v
  PROVE  /\ Becomes(BeginResultValidation(row), row, row.status)
         /\ Becomes(BeginAssetCommit(row, v), row, row.status)
         /\ \A error : Becomes(WriteFailure(row, v, error), row, "failed")
         /\ \A status : Becomes(WriteSuccess(row, v, status), row, status)
         /\ row.transport = "legacy_exec" => Becomes(ClaimOutputInvalidRetry(row), row, "running")
<1>0. /\ {"codex_execution", "result_validation", "asset_commit"} \subseteq PhaseKeys
      /\ {"running", "completed", "failed"} \subseteq PhaseStates
  BY DEF PhaseKeys, PhaseStates
<1>1. BeginResultValidation(row) \in Row /\ Becomes(BeginResultValidation(row), row, row.status)
  <2>1. /\ FinishActivePhase(row, "codex_execution", "completed") \in Row
        /\ Becomes(FinishActivePhase(row, "codex_execution", "completed"), row, row.status)
    BY <1>0, FinishActivePhaseType, PhasesKeepStatus
  <2> QED
    BY <1>0, <2>1, ResultType, PhasesKeepStatus DEF BeginResultValidation, Becomes
<1>2. Becomes(BeginAssetCommit(row, v), row, row.status)
  <2>1. /\ SetPhase(row, "result_validation", v, "completed") \in Row
        /\ Becomes(SetPhase(row, "result_validation", v, "completed"), row, row.status)
    BY <1>0, SetPhaseType, PhasesKeepStatus
  <2> QED
    BY <1>0, <2>1, PhasesKeepStatus DEF BeginAssetCommit, Becomes
<1>3. ASSUME NEW error PROVE Becomes(WriteFailure(row, v, error), row, "failed")
  <2> DEFINE r == SetPhase(row, "result_validation", v, "failed")
  <2>1. r \in Row /\ Becomes(r, row, row.status)
    BY <1>0, SetPhaseType, PhasesKeepStatus
  <2> HIDE DEF r
  <2>2. Becomes([r EXCEPT !.status = "failed", !.error = error], row, "failed")
    BY <2>1 DEF Becomes, Row
  <2> QED
    BY <2>2 DEF WriteFailure, r
<1>4. ASSUME NEW status PROVE Becomes(WriteSuccess(row, v, status), row, status)
  <2> DEFINE r == SetPhase(row, "asset_commit", v, "completed")
  <2>1. r \in Row /\ Becomes(r, row, row.status)
    BY <1>0, SetPhaseType, PhasesKeepStatus
  <2> HIDE DEF r
  <2>2. Becomes([r EXCEPT !.status = status, !.error = "none"], row, status)
    BY <2>1 DEF Becomes, Row
  <2> QED
    BY <2>2 DEF WriteSuccess, r
<1>5. ASSUME row.transport = "legacy_exec" PROVE Becomes(ClaimOutputInvalidRetry(row), row, "running")
  <2> DEFINE r == BeginResultValidation(row)
  <2>1. r \in Row /\ Becomes(r, row, row.status)
    BY <1>1
  <2> HIDE DEF r
  <2>2. Becomes([r EXCEPT !.status = "running", !.error = "none"], row, "running")
    BY <2>1 DEF Becomes, Row
  <2> QED
    BY <1>5, <2>2 DEF ClaimOutputInvalidRetry, r
<1> QED
  BY <1>1, <1>2, <1>3, <1>4, <1>5

LEMMA TerminalStatus ==
  ASSUME NEW row \in Row
  PROVE  /\ Becomes(FailTask(row), row, "failed")
         /\ Becomes(CancelTask(row), row, "canceled")
         /\ Becomes(InterruptInFlight(row, FALSE, FALSE), row,
                    IF row.status \in {"running", "resuming"} THEN "interrupted" ELSE row.status)
<1>1. ASSUME NEW status \in {"failed", "canceled", "interrupted"}
      PROVE  Becomes(Closed(row, status, "other"), row, status)
  <2> DEFINE r == FinishActiveLifecyclePhases(row, status)
  <2>1. r \in Row /\ Becomes(r, row, row.status)
    BY FinishLifecycleType, PhasesKeepStatus DEF PhaseStates, PhaseKeys
  <2> HIDE DEF r
  <2>2. Becomes([r EXCEPT !.status = status, !.error = "other"], row, status)
    BY <2>1 DEF Becomes, Row
  <2> QED
    BY <2>2 DEF Closed, r
<1>2. Becomes(FailTask(row), row, "failed") /\ Becomes(CancelTask(row), row, "canceled")
  BY <1>1 DEF FailTask, CancelTask
<1> QED
  BY <1>1, <1>2 DEF InterruptInFlight, Becomes

-----------------------------------------------------------------------------
(* The invariant                                                           *)

RunWrites(t)   == worker[<<"run", t>>].pc \notin {"idle", "finish"}
RetryWrites(t) == worker[<<"retry", t>>].pc # "idle"
Claimed(t)     == loop.pc = "register" /\ loop.cur = t

\* At most one goroutine writes the row of a task: the dispatcher that claimed
\* it, its run, or a retry; and then the row is running, unless somebody
\* canceled it.
Fine(t) ==
  /\ rows[t].transport = TransportOf(t)
  /\ rows[t].status # "resuming"
  /\ rows[t].status = "canceled" => "cancel" \in Operations
  /\ ~(RunWrites(t) /\ RetryWrites(t)) /\ ~(Claimed(t) /\ RetryWrites(t)) /\ ~(Claimed(t) /\ RunWrites(t))
  /\ RunWrites(t) \/ RetryWrites(t) \/ Claimed(t) => rows[t].status \in {"running", "canceled"}

WriterInv == LockInv /\ \A t \in Tasks : Fine(t)

\* The step moves the row along the life cycle; with cancellations it may
\* leave it, but not for the queue.
Changes(t) ==
  \/ rows'[t].status = rows[t].status
  \/ <<rows[t].status, rows'[t].status>> \in Contract!Moves
  \/ /\ rows[t].status # "completed" /\ "cancel" \in Operations
     /\ rows'[t].status # "queued"

\* The step is about task t.
About(t) ==
  \A u \in Tasks : u # t =>
    /\ rows'[u] = rows[u]
    /\ worker'[<<"run", u>>] = worker[<<"run", u>>] /\ worker'[<<"retry", u>>] = worker[<<"retry", u>>]
    /\ Claimed(u)' => Claimed(u)

\* ... and serves it well.
Serves(t) == About(t) /\ Fine(t)' /\ Changes(t)

LEMMA WriterInit == Init => WriterInv
<1> SUFFICES ASSUME Init PROVE WriterInv
  OBVIOUS
<1>1. \A t \in Tasks : ~RunWrites(t) /\ ~RetryWrites(t) /\ ~Claimed(t)
  BY WorkerNames DEF Init, RunWrites, RetryWrites, Claimed, IdleWorker, FreshLoop
<1>2. \A t \in Tasks : rows[t].transport = TransportOf(t) /\ rows[t].status = "absent"
  BY DEF Init, AbsentRow
<1> QED
  BY <1>1, <1>2, LockInit DEF WriterInv, Fine

LEMMA ServesKeeps ==
  ASSUME WriterInv, NEW t \in Tasks, Serves(t)
  PROVE  \A u \in Tasks : Fine(u)' /\ Changes(u)
<1> SUFFICES ASSUME NEW u \in Tasks, u # t PROVE Fine(u)' /\ Changes(u)
  BY DEF Serves
<1> QED
  BY DEF WriterInv, Serves, About, Fine, Changes, RunWrites, RetryWrites

\* A step that changes the row of t, or the goroutines of t, alone.
LEMMA AboutOne ==
  ASSUME TypeOK, NEW t \in Tasks,
         rows' = rows \/ \E r : rows' = [rows EXCEPT ![t] = r],
         \/ worker' = worker
         \/ \E w \in {<<"run", t>>, <<"retry", t>>} : \E x : worker' = [worker EXCEPT ![w] = x],
         \A u \in Tasks : u # t => (Claimed(u)' => Claimed(u))
  PROVE  About(t)
  BY WorkerNames DEF About, TypeOK

\* Nobody begins to write the row.
NoNewWriter(t) ==
  (RunWrites(t)' => RunWrites(t)) /\ (RetryWrites(t)' => RetryWrites(t)) /\ (Claimed(t)' => Claimed(t))

LEMMA RowStep ==
  ASSUME WriterInv, NEW t \in Tasks, About(t), NoNewWriter(t), Changes(t),
         rows'[t].transport = rows[t].transport,
         rows'[t].status # "resuming",
         rows'[t].status = "canceled" => "cancel" \in Operations,
         RunWrites(t)' \/ RetryWrites(t)' \/ Claimed(t)' => rows'[t].status \in {"running", "canceled"}
  PROVE  Serves(t)
  BY DEF WriterInv, Fine, Serves, NoNewWriter, TransportOf

\* A row that keeps its status and its transport.
LEMMA SameStatus ==
  ASSUME WriterInv, NEW t \in Tasks, About(t), NoNewWriter(t), Becomes(rows'[t], rows[t], rows[t].status)
  PROVE  Serves(t)
  BY RowStep DEF WriterInv, Fine, NoNewWriter, Changes, Becomes

\* The requests.
LEMMA ClientServes ==
  ASSUME WriterInv, NEW t \in Tasks, Client(t)
  PROVE  Serves(t)
<1>0. /\ TypeOK /\ rows[t] \in Row /\ rows \in [Tasks -> Row] /\ Fine(t)
      /\ worker \in [Workers -> WorkerRecord]
  BY DEF WriterInv, LockInv, TypeOK
<1>1. CASE Prepare(t) \/ Enqueue(t) \/ AppServerEnqueue(t) \/ Resume(t)
  <2>1. /\ Becomes(rows'[t], rows[t], "queued")
        /\ rows[t].status \in {"absent", "queued", "awaiting_input"}
        /\ \E r : rows' = [rows EXCEPT ![t] = r]
    BY <1>0, <1>1, QueueStatus
       DEF Prepare, Enqueue, AppServerEnqueue, Resume, CanAdmit, CanBeginLegacyResume
  <2>2. UNCHANGED <<worker, loop>>
    BY <1>1 DEF Prepare, Enqueue, AppServerEnqueue, Resume, memory
  <2>3. About(t) /\ NoNewWriter(t)
    BY <1>0, <2>1, <2>2, AboutOne DEF NoNewWriter, Claimed, RunWrites, RetryWrites
  <2>4. ~(RunWrites(t) \/ RetryWrites(t) \/ Claimed(t))
    BY <1>0, <2>1 DEF Fine
  <2>5. Changes(t)
    BY <2>1 DEF Changes, Becomes, Contract!Moves
  <2> QED
    BY <2>1, <2>3, <2>4, <2>5, RowStep DEF NoNewWriter, Becomes
<1>2. CASE \E turn \in Turns : AppServerStart(t, turn)
  <2>1. /\ Becomes(rows'[t], rows[t], rows[t].status) \/ Becomes(rows'[t], rows[t], "running")
        /\ rows[t].status = "queued"
        /\ \E r : rows' = [rows EXCEPT ![t] = r]
    BY <1>0, <1>2, ExecutionStatus DEF AppServerStart
  <2>2. UNCHANGED <<worker, loop>>
    BY <1>2 DEF AppServerStart, memory
  <2>3. About(t) /\ NoNewWriter(t)
    BY <1>0, <2>1, <2>2, AboutOne DEF NoNewWriter, Claimed, RunWrites, RetryWrites
  <2>4. ~(RunWrites(t) \/ RetryWrites(t) \/ Claimed(t))
    BY <1>0, <2>1 DEF Fine
  <2>5. Changes(t)
    BY <2>1 DEF Changes, Becomes, Contract!Moves
  <2> QED
    BY <2>1, <2>3, <2>4, <2>5, RowStep DEF NoNewWriter, Becomes
<1>3. CASE Cancel(t)
  <2>1. /\ Becomes(rows'[t], rows[t], "canceled") /\ "cancel" \in Operations
        /\ rows[t].status # "completed"
        /\ \E r : rows' = [rows EXCEPT ![t] = r]
    BY <1>0, <1>3, TerminalStatus DEF Cancel, CanCancelTask, Finished
  <2>2. UNCHANGED <<worker, loop>>
    BY <1>3 DEF Cancel
  <2>3. About(t) /\ NoNewWriter(t)
    BY <1>0, <2>1, <2>2, AboutOne DEF NoNewWriter, Claimed, RunWrites, RetryWrites
  <2> QED
    BY <2>1, <2>3, RowStep DEF Changes, Becomes
<1>4. CASE RetryOutput(t)
  <2>1. /\ rows[t].status = "failed" /\ rows[t].transport = "legacy_exec"
        /\ rows' = [rows EXCEPT ![t] = ClaimOutputInvalidRetry(rows[t])]
        /\ worker' = [worker EXCEPT ![<<"retry", t>>] =
                        [IdleWorker EXCEPT !.pc = "result", !.v = ValidationAttempt(rows[t])]]
        /\ UNCHANGED loop
    BY <1>0, <1>4 DEF RetryOutput, CanClaimOutputInvalidRetry, Fine, TransportOf
  <2>2. Becomes(rows'[t], rows[t], "running")
    BY <1>0, <2>1, ResultStatus
  <2>3. About(t)
    BY <1>0, <2>1, AboutOne DEF Claimed
  <2>4. ~RunWrites(t) /\ ~Claimed(t)
    BY <1>0, <2>1 DEF Fine
  <2>5. ~RunWrites(t)' /\ ~Claimed(t)'
    BY <1>0, <2>1, <2>4, WorkerNames DEF RunWrites, Claimed
  <2>6. Fine(t)'
    BY <1>0, <2>2, <2>5 DEF Fine, Becomes, TransportOf
  <2>7. Changes(t)
    BY <2>1, <2>2 DEF Changes, Becomes, Contract!Moves
  <2> QED
    BY <2>3, <2>6, <2>7 DEF Serves
<1> QED
  BY <1>1, <1>2, <1>3, <1>4 DEF Client

\* A goroutine that writes the row and goes on.
LEMMA WriterGoes ==
  ASSUME TypeOK, NEW t \in Tasks, NEW w \in {<<"run", t>>, <<"retry", t>>}, NEW x,
         w = <<"run", t>> => worker[w].pc \notin {"idle", "finish"},
         w = <<"retry", t>> => worker[w].pc # "idle",
         worker' = [worker EXCEPT ![w] = x], UNCHANGED loop,
         rows' = rows \/ \E r : rows' = [rows EXCEPT ![t] = r]
  PROVE  About(t) /\ NoNewWriter(t) /\ (RunWrites(t) \/ RetryWrites(t))
<1>1. About(t)
  BY AboutOne DEF Claimed
<1>2. worker \in [Workers -> WorkerRecord]
  BY DEF TypeOK
<1> QED
  BY <1>1, <1>2, WorkerNames DEF NoNewWriter, RunWrites, RetryWrites, Claimed

\* The goroutines of a task that may write its row.
Goroutines(t) == {<<"run", t>>, <<"retry", t>>}
Writing(t, w) == w \in Goroutines(t) /\ worker[w].pc \notin {"idle", "finish"}

LEMMA WriterStays ==
  ASSUME WriterInv, NEW t \in Tasks, NEW w, Writing(t, w), NEW x,
         worker' = [worker EXCEPT ![w] = x], UNCHANGED loop,
         rows' = rows \/ \E r : rows' = [rows EXCEPT ![t] = r],
         Becomes(rows'[t], rows[t], rows[t].status)
  PROVE  Serves(t)
  BY WriterGoes, SameStatus DEF WriterInv, LockInv, Writing, Goroutines

LEMMA LeaveEnds ==
  ASSUME WriterInv, NEW t \in Tasks, NEW w, Writing(t, w), Leave(w), UNCHANGED loop,
         rows' = rows \/ \E r : rows' = [rows EXCEPT ![t] = r]
  PROVE  /\ About(t) /\ NoNewWriter(t) /\ (RunWrites(t) \/ RetryWrites(t))
         /\ ~RunWrites(t)' /\ ~RetryWrites(t)' /\ ~Claimed(t)'
<1>0. /\ TypeOK /\ Fine(t) /\ worker \in [Workers -> WorkerRecord] /\ w \in Goroutines(t) /\ w \in Workers
  BY WorkerNames DEF WriterInv, LockInv, TypeOK, Writing, Goroutines
<1> DEFINE x == [IdleWorker EXCEPT !.pc = IF w \in Runs THEN "finish" ELSE "idle"]
<1>1. worker' = [worker EXCEPT ![w] = x] /\ x.pc \in {"finish", "idle"} /\ (w \notin Runs => x.pc = "idle")
  BY DEF Leave, IdleWorker
<1> HIDE DEF x
<1>2. About(t) /\ NoNewWriter(t) /\ (RunWrites(t) \/ RetryWrites(t))
  BY <1>0, <1>1, WriterGoes DEF Writing, Goroutines
<1>3. ~RunWrites(t)' /\ ~RetryWrites(t)' /\ ~Claimed(t)'
  <2>1. CASE w = <<"run", t>>
    BY <1>0, <1>1, <1>2, <2>1, WorkerNames DEF Writing, RunWrites, RetryWrites, Claimed, Fine, NoNewWriter
  <2>2. CASE w = <<"retry", t>>
    <3>1. w \notin Runs
      BY <2>2 DEF Runs
    <3> QED
      BY <1>0, <1>1, <1>2, <2>2, <3>1, WorkerNames DEF Writing, RunWrites, RetryWrites, Claimed, Fine, NoNewWriter
  <2> QED
    BY <1>0, <2>1, <2>2 DEF Goroutines
<1> QED
  BY <1>2, <1>3

LEMMA WriterLeaves ==
  ASSUME WriterInv, NEW t \in Tasks, NEW w, Writing(t, w), Leave(w), UNCHANGED loop,
         rows' = rows \/ \E r : rows' = [rows EXCEPT ![t] = r],
         rows'[t].transport = rows[t].transport,
         rows'[t].status \in {rows[t].status, "failed", "completed", "awaiting_input"}
  PROVE  Serves(t)
<1>1. Fine(t)
  BY DEF WriterInv
<1>2. /\ About(t) /\ NoNewWriter(t) /\ (RunWrites(t) \/ RetryWrites(t))
      /\ ~RunWrites(t)' /\ ~RetryWrites(t)' /\ ~Claimed(t)'
  BY LeaveEnds
<1>3. rows[t].status \in {"running", "canceled"} /\ (rows[t].status = "canceled" => "cancel" \in Operations)
  BY <1>1, <1>2 DEF Fine
<1>4. Changes(t)
  BY <1>3 DEF Changes, Contract!Moves
<1> QED
  BY <1>2, <1>3, <1>4, RowStep

LEMMA PersistFailureStatus ==
  ASSUME TypeOK, NEW t \in Tasks, PersistFailure(t)
  PROVE  /\ rows' = rows \/ \E r : rows' = [rows EXCEPT ![t] = r]
         /\ rows'[t].transport = rows[t].transport
         /\ rows'[t].status \in {rows[t].status, "failed"}
  BY TerminalStatus DEF TypeOK, PersistFailure, Becomes

\* The result of an execution, or of a retry.
LEMMA PipelineServes ==
  ASSUME WriterInv, NEW t \in Tasks, NEW w \in Goroutines(t), Pipeline(w)
  PROVE  Serves(t)
<1>0. /\ TypeOK /\ rows \in [Tasks -> Row] /\ rows[t] \in Row /\ worker \in [Workers -> WorkerRecord]
      /\ w[2] = t /\ Writing(t, w) /\ UNCHANGED loop
  BY WorkerNames
     DEF WriterInv, LockInv, TypeOK, Goroutines, Writing, Pipeline,
         ResultFailed, ResultAccepted, InputsCurrent, InputsSuperseded, CommitAssets, WriteResult
<1>1. CASE ResultFailed(w)
  <2>1. Leave(w)
    BY <1>1 DEF ResultFailed
  <2>2. /\ rows' = rows \/ \E r : rows' = [rows EXCEPT ![t] = r]
        /\ rows'[t].transport = rows[t].transport
        /\ rows'[t].status \in {rows[t].status, "failed"}
    <3>1. ASSUME NEW error, rows' = [rows EXCEPT ![t] = WriteFailure(@, worker[w].v, error)]
          PROVE  Becomes(rows'[t], rows[t], "failed")
      BY <1>0, <3>1, ResultStatus
    <3>2. PersistFailure(t) \/ \E error : rows' = [rows EXCEPT ![t] = WriteFailure(@, worker[w].v, error)]
      BY <1>0, <1>1 DEF ResultFailed
    <3> QED
      BY <1>0, <3>1, <3>2, PersistFailureStatus DEF Becomes
  <2> QED
    BY <1>0, <2>1, <2>2, WriterLeaves
<1>2. CASE ResultAccepted(w) \/ InputsCurrent(w)
  <2>1. rows' = rows /\ Becomes(rows'[t], rows[t], rows[t].status)
    BY <1>2 DEF ResultAccepted, InputsCurrent, Becomes
  <2>2. \E x : worker' = [worker EXCEPT ![w] = x]
    BY <1>2 DEF ResultAccepted, InputsCurrent, Goto
  <2> QED
    BY <1>0, <2>1, <2>2, WriterStays
<1>3. CASE InputsSuperseded(w)
  BY <1>0, <1>3, PersistFailureStatus, WriterLeaves DEF InputsSuperseded
<1>4. CASE CommitAssets(w)
  <2>1. CASE CanBeginAssetCommit(rows[t], worker[w].v)
    <3>1. rows' = [rows EXCEPT ![t] = BeginAssetCommit(@, worker[w].v)] /\ Goto(w, "write")
      BY <1>0, <1>4, <2>1 DEF CommitAssets
    <3>2. Becomes(rows'[t], rows[t], rows[t].status)
      BY <1>0, <3>1, ResultStatus
    <3> QED
      BY <1>0, <3>1, <3>2, WriterStays DEF Goto
  <2>2. CASE ~CanBeginAssetCommit(rows[t], worker[w].v)
    BY <1>0, <1>4, <2>2, PersistFailureStatus, WriterLeaves DEF CommitAssets
  <2> QED
    BY <2>1, <2>2
<1>5. CASE WriteResult(w)
  <2>1. Leave(w)
    BY <1>5 DEF WriteResult
  <2>2. CASE CanWriteSuccess(rows[t], worker[w].v, NoTurn)
    <3>1. rows' = [rows EXCEPT ![t] = WriteSuccess(@, worker[w].v, worker[w].outcome)]
      BY <1>0, <1>5, <2>2 DEF WriteResult
    <3>2. Becomes(rows'[t], rows[t], worker[w].outcome)
      BY <1>0, <3>1, ResultStatus
    <3>3. worker[w].outcome \in {"awaiting_input", "completed"}
      BY <1>0, WorkerNames DEF WorkerRecord, Outcomes, Writing, Goroutines
    <3> QED
      BY <1>0, <2>1, <3>1, <3>2, <3>3, WriterLeaves DEF Becomes
  <2>3. CASE ~CanWriteSuccess(rows[t], worker[w].v, NoTurn)
    BY <1>0, <1>5, <2>1, <2>3, PersistFailureStatus, WriterLeaves DEF WriteResult
  <2> QED
    BY <2>2, <2>3
<1> QED
  BY <1>1, <1>2, <1>3, <1>4, <1>5 DEF Pipeline

\* The goroutine of a run.
LEMMA RunnerServes ==
  ASSUME WriterInv, NEW t \in Tasks, Runner(t) \/ ReportSession(t)
  PROVE  Serves(t)
<1> DEFINE w == <<"run", t>>
<1>0. /\ TypeOK /\ rows \in [Tasks -> Row] /\ rows[t] \in Row /\ worker \in [Workers -> WorkerRecord] /\ Fine(t)
      /\ w \in Goroutines(t) /\ w \in Workers /\ {"failed", "canceled", "interrupted"} \subseteq PhaseStates
  BY WorkerNames DEF WriterInv, LockInv, TypeOK, Goroutines, PhaseStates
<1>1. CASE StartTask(t)
  <2>1. /\ Becomes(rows'[t], rows[t], "running") /\ \E r : rows' = [rows EXCEPT ![t] = r]
        /\ UNCHANGED loop /\ worker[w].pc = "start" /\ Goto(w, "exec")
    BY <1>0, <1>1, ExecutionStatus DEF StartTask
  <2>2. About(t) /\ NoNewWriter(t) /\ (RunWrites(t) \/ RetryWrites(t))
    BY <1>0, <2>1, WriterGoes DEF Goto
  <2>3. Changes(t)
    BY <1>0, <2>1, <2>2 DEF Changes, Fine, Becomes
  <2> QED
    BY <2>1, <2>2, <2>3, RowStep DEF Becomes
<1>2. CASE StartRefused(t) \/ RunFails(t) \/ ValidateRefused(t)
  <2>1. Writing(t, w) /\ UNCHANGED loop /\ Leave(w) /\ (rows' = rows \/ PersistFailure(t))
    BY <1>0, <1>2 DEF StartRefused, RunFails, ValidateRefused, Writing
  <2> QED
    BY <1>0, <2>1, PersistFailureStatus, WriterLeaves
<1>3. CASE ExecCanceled(t)
  <2>1. /\ Writing(t, w) /\ UNCHANGED loop /\ Leave(w)
        /\ rows' = [rows EXCEPT ![t] = FinishExecution(@, "canceled")]
    BY <1>0, <1>3 DEF ExecCanceled, Writing
  <2>2. Becomes(rows'[t], rows[t], rows[t].status)
    BY <1>0, <2>1, ExecutionStatus
  <2> QED
    BY <2>1, <2>2, WriterLeaves DEF Becomes
<1>4. CASE ExecFails(t)
  <2>1. /\ Writing(t, w) /\ UNCHANGED loop /\ Goto(w, "fail")
        /\ \E state \in {"failed", "interrupted"} :
             rows' = [rows EXCEPT ![t] = FinishExecution(@, state)]
    BY <1>0, <1>4 DEF ExecFails, Writing
  <2>2. Becomes(rows'[t], rows[t], rows[t].status)
    BY <1>0, <2>1, ExecutionStatus
  <2> QED
    BY <2>1, <2>2, WriterStays DEF Goto
<1>5. CASE ExecEnds(t) \/ Validate(t)
  <2>1. Writing(t, w) /\ UNCHANGED loop /\ \E x : worker' = [worker EXCEPT ![w] = x]
    BY <1>0, <1>5 DEF ExecEnds, Validate, Writing, Goto
  <2>2. rows' = rows \/ rows' = [rows EXCEPT ![t] = BeginResultValidation(@)]
    BY <1>5 DEF ExecEnds, Validate
  <2>3. Becomes(rows'[t], rows[t], rows[t].status)
    BY <1>0, <2>2, ResultStatus DEF Becomes
  <2> QED
    BY <2>1, <2>2, <2>3, WriterStays
<1>6. CASE Pipeline(w)
  BY <1>0, <1>6, PipelineServes
<1>7. CASE FinishRun(t)
  <2>1. UNCHANGED <<rows, loop>> /\ worker' = [worker EXCEPT ![w] = IdleWorker] /\ worker[w].pc = "finish"
    BY <1>7 DEF FinishRun
  <2>2. About(t)
    BY <1>0, <2>1, AboutOne DEF Claimed, Goroutines
  <2>3. NoNewWriter(t)
    BY <1>0, <2>1, WorkerNames DEF NoNewWriter, RunWrites, RetryWrites, Claimed, IdleWorker
  <2> QED
    BY <2>1, <2>2, <2>3, SameStatus DEF Becomes
<1>8. CASE ReportSession(t)
  <2>1. rows' = [rows EXCEPT ![t] = SetSession(@)] /\ UNCHANGED <<worker, loop>>
    BY <1>8 DEF ReportSession, memory
  <2>2. Becomes(rows'[t], rows[t], rows[t].status)
    BY <1>0, <2>1, ExecutionStatus
  <2>3. About(t) /\ NoNewWriter(t)
    BY <1>0, <2>1, AboutOne DEF NoNewWriter, RunWrites, RetryWrites, Claimed
  <2> QED
    BY <2>2, <2>3, SameStatus
<1> QED
  BY <1>1, <1>2, <1>3, <1>4, <1>5, <1>6, <1>7, <1>8 DEF Runner

\* The dispatcher, when it gives up, claims or starts a task.
LEMMA DispatcherServes ==
  ASSUME WriterInv, Abandon \/ Claim \/ Register
  PROVE  loop.cur \in Tasks /\ Serves(loop.cur)
<1>0. /\ TypeOK /\ rows \in [Tasks -> Row] /\ worker \in [Workers -> WorkerRecord] /\ loop \in LoopRecord
      /\ loop.cur \in Tasks /\ ~Live(loop.cur) /\ NoTask \notin Tasks
  BY TasksAssumption
     DEF WriterInv, LockInv, TypeOK, DispatcherHoldsLock, LoopRecord, Abandon, Claim, Register
<1> SUFFICES ASSUME NEW t \in Tasks, t = loop.cur PROVE Serves(t)
  BY <1>0
<1>1. rows[t] \in Row /\ Fine(t) /\ ~RunWrites(t)
  BY <1>0 DEF WriterInv, Live, RunWrites
<1>2. CASE Abandon
  <2>1. /\ loop.pc = "abandon" /\ UNCHANGED worker
        /\ rows' = IF CanFailQueuedTask(rows[t]) THEN [rows EXCEPT ![t] = FailQueuedTask(@)] ELSE rows
        /\ loop'.pc = "release"
    BY <1>0, <1>2 DEF Abandon, LoopRecord
  <2>2. About(t) /\ NoNewWriter(t) /\ ~Claimed(t)'
    BY <1>0, <2>1, AboutOne DEF NoNewWriter, RunWrites, RetryWrites, Claimed
  <2>3. CASE CanFailQueuedTask(rows[t])
    <3>1. Becomes(rows'[t], rows[t], "failed") /\ rows[t].status = "queued"
      BY <1>0, <1>1, <2>1, <2>3, QueueStatus DEF CanFailQueuedTask
    <3>2. ~RunWrites(t)' /\ ~RetryWrites(t)'
      BY <1>1, <2>2, <3>1 DEF Fine, NoNewWriter
    <3>3. Changes(t)
      BY <3>1 DEF Changes, Becomes, Contract!Moves
    <3> QED
      BY <2>2, <3>1, <3>2, <3>3, RowStep DEF Becomes
  <2>4. CASE ~CanFailQueuedTask(rows[t])
    BY <2>1, <2>2, <2>4, SameStatus DEF Becomes
  <2> QED
    BY <2>3, <2>4
<1>3. CASE Claim
  <2>1. /\ UNCHANGED worker /\ rows' = [rows EXCEPT ![t] = ClaimLegacyStart(@)]
        /\ rows[t].status = "queued" /\ loop'.cur = t
    BY <1>0, <1>3 DEF Claim, CanClaimLegacyStart, LoopRecord
  <2>2. Becomes(rows'[t], rows[t], "running")
    BY <1>0, <1>1, <2>1, ExecutionStatus
  <2>3. About(t)
    BY <1>0, <2>1, AboutOne DEF Claimed
  <2>4. ~RunWrites(t)' /\ ~RetryWrites(t)'
    BY <1>1, <2>1 DEF Fine, RunWrites, RetryWrites
  <2>5. Fine(t)' /\ Changes(t)
    BY <1>1, <2>1, <2>2, <2>4 DEF Fine, Becomes, Changes, Contract!Moves, TransportOf
  <2> QED
    BY <2>3, <2>5 DEF Serves
<1>4. CASE Register
  <2>1. /\ rows' = rows /\ loop.pc = "register" /\ loop'.pc = "pick"
        /\ worker' = [worker EXCEPT ![<<"run", t>>] = [IdleWorker EXCEPT !.pc = "start"]]
    BY <1>0, <1>4 DEF Register, LoopRecord
  <2>2. About(t)
    BY <1>0, <2>1, AboutOne DEF Claimed
  <2>3. Claimed(t) /\ ~Claimed(t)' /\ ~RetryWrites(t)'
    BY <1>0, <1>1, <2>1, WorkerNames DEF Claimed, Fine, RetryWrites
  <2>4. Fine(t)' /\ Changes(t)
    BY <1>1, <2>1, <2>3 DEF Fine, Changes
  <2> QED
    BY <2>2, <2>4 DEF Serves
<1> QED
  BY <1>2, <1>3, <1>4

\* Everything else that is not a restart leaves rows and goroutines alone.
LEMMA IdleSteps ==
  ASSUME WriterInv, UNCHANGED <<rows, worker>>, loop'.pc # "register" \/ UNCHANGED loop
  PROVE  \A t \in Tasks : Fine(t)' /\ Changes(t)
  BY DEF WriterInv, Fine, Changes, RunWrites, RetryWrites, Claimed

LEMMA RestartServes ==
  ASSUME WriterInv, Restart
  PROVE  \A t \in Tasks :
           /\ Fine(t)'
           /\ rows'[t].status = IF rows[t].status = "running" THEN "interrupted" ELSE rows[t].status
<1> SUFFICES ASSUME NEW t \in Tasks
             PROVE  /\ Fine(t)'
                    /\ rows'[t].status = IF rows[t].status = "running" THEN "interrupted" ELSE rows[t].status
  OBVIOUS
<1>1. rows[t] \in Row /\ Fine(t) /\ rows'[t] = InterruptInFlight(rows[t], FALSE, FALSE)
  BY DEF WriterInv, LockInv, TypeOK, Restart
<1>2. ~RunWrites(t)' /\ ~RetryWrites(t)' /\ ~Claimed(t)'
  BY WorkerNames DEF Restart, RunWrites, RetryWrites, Claimed, IdleWorker, FreshLoop
<1>3. rows'[t].transport = rows[t].transport
      /\ rows'[t].status = IF rows[t].status = "running" THEN "interrupted" ELSE rows[t].status
  BY <1>1, TerminalStatus DEF Becomes, Fine
<1>4. rows'[t].status # "resuming" /\ (rows'[t].status = "canceled" => "cancel" \in Operations)
  BY <1>1, <1>3 DEF Fine
<1> QED
  BY <1>1, <1>2, <1>3, <1>4 DEF Fine, TransportOf

\* Requests and results about one task, steps that touch no row, and the restart.
LEMMA StepKinds ==
  ASSUME WriterInv, [Next]_vars
  PROVE  \/ \E t \in Tasks : Client(t) \/ Runner(t) \/ ReportSession(t) \/ Pipeline(<<"retry", t>>)
         \/ Abandon \/ Claim \/ Register
         \/ UNCHANGED <<rows, worker>> /\ ((loop.pc # "register" /\ loop'.pc # "register") \/ UNCHANGED loop)
         \/ Restart
<1>0. TypeOK /\ loop \in LoopRecord /\ (loop.cur # NoTask <=> loop.pc \in {"claim", "register", "abandon", "release"})
  BY DEF WriterInv, LockInv, TypeOK
<1>1. ASSUME NEW t \in Tasks, CancelRun(t) \/ SignalRun(t) PROVE UNCHANGED <<rows, worker, loop>>
  BY <1>1 DEF CancelRun, SignalRun
<1>2. ASSUME (\E n \in Limits : SetLimit(n)) \/ SignalLimit \/ Close \/ CloseRuns \/ UNCHANGED vars
      PROVE  UNCHANGED <<rows, worker, loop>>
  BY <1>2 DEF SetLimit, SignalLimit, Close, CloseRuns, vars, memory
<1>3. ASSUME \/ TakeWake \/ DispatchThenPark \/ Unpark \/ StopLoop \/ ListQueued \/ ListFails \/ EndDispatch \/ Pick
             \/ BuildFails \/ ClaimRefused \/ Release
      PROVE  UNCHANGED <<rows, worker>> /\ loop.pc # "register" /\ loop'.pc # "register"
  <2>1. UNCHANGED <<rows, worker>>
    BY <1>3 DEF TakeWake, DispatchThenPark, Unpark, StopLoop, ListQueued, ListFails, EndDispatch, Pick,
                BuildFails, ClaimRefused, Release
  <2>2. loop.pc # "register" /\ loop'.pc # "register"
    BY <1>0, <1>3
       DEF TakeWake, DispatchThenPark, BeginDispatch, Unpark, StopLoop, ListQueued, ListFails, EndDispatch, Return,
           Pick, BuildFails, ClaimRefused, Release, LoopRecord
  <2> QED
    BY <2>1, <2>2
<1> QED
  BY <1>1, <1>2, <1>3 DEF Next, Dispatcher

LEMMA StepServes ==
  ASSUME WriterInv, [Next]_vars
  PROVE  \/ \E t \in Tasks : Serves(t)
         \/ UNCHANGED <<rows, worker>> /\ (loop'.pc # "register" \/ UNCHANGED loop)
         \/ Restart
<1>1. ASSUME NEW t \in Tasks, Client(t) \/ Runner(t) \/ ReportSession(t) \/ Pipeline(<<"retry", t>>)
      PROVE  Serves(t)
  BY <1>1, ClientServes, RunnerServes, PipelineServes DEF Goroutines
<1> QED
  BY <1>1, StepKinds, DispatcherServes

LEMMA WriterNext == WriterInv /\ [Next]_vars => WriterInv'
<1> SUFFICES ASSUME WriterInv, [Next]_vars PROVE \A t \in Tasks : Fine(t)'
  BY LockNext DEF WriterInv
<1> QED
  BY StepServes, ServesKeeps, IdleSteps, RestartServes

-----------------------------------------------------------------------------
(* The refinement                                                          *)

\* Only the registration of a run and its end change who executes.
LEMMA LiveStays ==
  ASSUME WriterInv, [Next]_vars, ~Register, ~Restart, \A t \in Tasks : ~FinishRun(t)
  PROVE  \A u \in Tasks : Live(u)' <=> Live(u)
<1>0. TypeOK /\ worker \in [Workers -> WorkerRecord]
  BY DEF WriterInv, LockInv, TypeOK
<1>1. ASSUME NEW t \in Tasks, Runner(t) PROVE \A u \in Tasks : Live(u)' <=> Live(u)
  <2> DEFINE w == <<"run", t>>
  <2>0. w \in Runs /\ w \in Workers
    BY WorkerNames
  <2>1. CASE Pipeline(w)
    BY <1>0, <2>0, <2>1, PipelineLive
  <2>2. CASE ~Pipeline(w)
    <3>1. \/ Leave(w)
          \/ \E pc \in {"exec", "fail", "validate"} : Goto(w, pc)
          \/ worker' = [worker EXCEPT ![w].pc = "result", ![w].v = ValidationAttempt(rows[t])]
      BY <1>1, <2>2
         DEF Runner, StartTask, StartRefused, ExecCanceled, ExecFails, RunFails, ExecEnds, Validate, ValidateRefused
    <3>2. worker[w].pc # "idle"
      BY <1>1, <2>2
         DEF Runner, StartTask, StartRefused, ExecCanceled, ExecFails, RunFails, ExecEnds, Validate, ValidateRefused
    <3>3. /\ \A u \in Workers \ {w} : worker'[u] = worker[u]
          /\ worker'[w].pc # "idle"
      BY <1>0, <2>0, <3>1 DEF Leave, Goto, IdleWorker, WorkerRecord
    <3> QED
      BY <2>0, <3>2, <3>3, LiveFrame
  <2> QED
    BY <2>1, <2>2
<1>2. ASSUME NEW t \in Tasks, RetryOutput(t) PROVE \A u \in Tasks : Live(u)' <=> Live(u)
  <2>1. /\ <<"retry", t>> \in Workers /\ <<"retry", t>> \in Retries
        /\ \A u \in Workers \ {<<"retry", t>>} : worker'[u] = worker[u]
    BY <1>0, <1>2, WorkerNames DEF RetryOutput
  <2> QED
    BY <2>1, LiveFrame
<1>3. ASSUME NEW t \in Tasks, Pipeline(<<"retry", t>>) PROVE \A u \in Tasks : Live(u)' <=> Live(u)
  BY <1>0, <1>3, WorkerNames, PipelineLive
<1>4. ASSUME UNCHANGED worker PROVE \A u \in Tasks : Live(u)' <=> Live(u)
  BY <1>4 DEF Live
<1>5. ASSUME NEW t \in Tasks, Client(t), ~RetryOutput(t) PROVE UNCHANGED worker
  BY <1>5 DEF Client, Prepare, Enqueue, AppServerEnqueue, AppServerStart, Resume, Cancel, memory
<1>6. ASSUME \/ \E t \in Tasks : CancelRun(t) \/ SignalRun(t) \/ ReportSession(t)
             \/ (\E n \in Limits : SetLimit(n)) \/ SignalLimit
             \/ Dispatcher \/ Close \/ CloseRuns \/ UNCHANGED vars
      PROVE  UNCHANGED worker
  BY <1>6
     DEF CancelRun, SignalRun, ReportSession, SetLimit, SignalLimit, Close, CloseRuns, vars, memory, Dispatcher,
         TakeWake, DispatchThenPark, Unpark, StopLoop, ListQueued, ListFails, EndDispatch, Pick,
         BuildFails, ClaimRefused, Abandon, Release, Claim
<1> QED
  BY <1>1, <1>2, <1>3, <1>4, <1>5, <1>6 DEF Next

LEMMA ContractInit == Init => Contract!Init
<1> SUFFICES ASSUME Init PROVE Contract!Init
  OBVIOUS
<1>1. \A t \in Tasks : rows[t].status = "absent" /\ ~Live(t)
  BY WorkerNames DEF Init, AbsentRow, Live, IdleWorker
<1> QED
  BY <1>1 DEF Contract!Init

LEMMA ContractNext ==
  ASSUME "cancel" \notin Operations, WriterInv, [Next]_vars
  PROVE  FollowsContract
<1>0. /\ TypeOK /\ TypeOK' /\ worker \in [Workers -> WorkerRecord] /\ loop \in LoopRecord /\ NoTask \notin Tasks
      /\ \A t \in Tasks : Fine(t)
  BY NextType, TasksAssumption DEF WriterInv, LockInv, TypeOK
<1>1. CASE Register
  <2>0. PICK t \in Tasks : t = loop.cur
    BY <1>0, <1>1 DEF Register, LoopRecord, TypeOK
  <2>1. /\ rows' = rows /\ worker' = [worker EXCEPT ![<<"run", t>>] = [IdleWorker EXCEPT !.pc = "start"]]
        /\ Claimed(t) /\ ~Live(t) /\ lock[Key(t)] = t
    BY <1>0, <1>1, <2>0 DEF Register, Claimed, WriterInv, LockInv, DispatcherHoldsLock
  <2>2. Live(t)' /\ \A u \in Tasks : u # t => (Live(u)' <=> Live(u))
    BY <1>0, <2>1, WorkerNames DEF Live, IdleWorker
  <2>3. \A u \in Tasks : Live(u) => Key(u) # Key(t)
    BY <2>1 DEF WriterInv, LockInv, RunsHoldLocks
  <2>4. rows[t].status = "running"
    BY <1>0, <2>1 DEF Fine
  <2>5. Contract!Occupy(t)
    BY <2>1, <2>2, <2>3, <2>4 DEF Contract!Occupy
  <2> QED
    BY <2>5 DEF FollowsContract, Contract!Next
<1>2. ASSUME NEW t \in Tasks, FinishRun(t) PROVE FollowsContract
  <2>1. rows' = rows /\ Live(t) /\ ~Live(t)' /\ \A u \in Tasks : u # t => (Live(u)' <=> Live(u))
    BY <1>0, <1>2, WorkerNames DEF FinishRun, Live, IdleWorker
  <2>2. Contract!Release(t)
    BY <2>1 DEF Contract!Release
  <2> QED
    BY <2>2 DEF FollowsContract, Contract!Next
<1>3. CASE Restart
  <2>1. \A t \in Tasks : ~Live(t)'
    BY <1>3, WorkerNames DEF Restart, Live, IdleWorker
  <2>2. \A t \in Tasks :
          rows'[t].status = IF rows[t].status = "running" THEN "interrupted" ELSE rows[t].status
    BY <1>3, RestartServes
  <2>3. Contract!Restart
    BY <2>1, <2>2 DEF Contract!Restart
  <2> QED
    BY <2>3 DEF FollowsContract, Contract!Next
<1>4. CASE ~Register /\ ~Restart /\ \A t \in Tasks : ~FinishRun(t)
  <2>1. \A u \in Tasks : Live(u)' <=> Live(u)
    BY <1>4, LiveStays
  <2>2. {t \in Tasks : Live(t)}' = {t \in Tasks : Live(t)}
    BY <2>1
  <2>3. ASSUME NEW t \in Tasks, Serves(t) PROVE FollowsContract
    <3>1. \A u \in Tasks : u # t => rows'[u] = rows[u]
      BY <2>3 DEF Serves, About
    <3>2. CASE rows'[t].status = rows[t].status
      BY <2>2, <3>1, <3>2 DEF FollowsContract, Contract!contract
    <3>3. CASE <<rows[t].status, rows'[t].status>> \in Contract!Moves
      <4>1. PICK move \in Contract!Moves : rows[t].status = move[1] /\ rows'[t].status = move[2]
        BY <3>3
      <4>2. [u \in Tasks |-> rows'[u].status] = [[u \in Tasks |-> rows[u].status] EXCEPT ![t] = move[2]]
        BY <3>1, <4>1
      <4>3. Contract!Move(t)
        BY <2>2, <4>1, <4>2 DEF Contract!Move
      <4> QED
        BY <4>3 DEF FollowsContract, Contract!Next
    <3> QED
      BY <2>3, <3>2, <3>3 DEF Serves, Changes
  <2>4. ASSUME UNCHANGED rows PROVE FollowsContract
    BY <2>2, <2>4 DEF FollowsContract, Contract!contract
  <2> QED
    BY <1>4, <2>3, <2>4, StepServes
<1> QED
  BY <1>1, <1>2, <1>3, <1>4

\* As long as nobody cancels, whatever tasks, projects, limits, faults and
\* restarts there are, clients see a task move along the life cycle of
\* TaskContract and at most one task of a key in execution: every step of the
\* dispatcher, the runs, the retries and the store is one of its steps, or none.
THEOREM ContractMet == "cancel" \notin Operations => (Spec => MeetsContract)
<1> SUFFICES ASSUME "cancel" \notin Operations PROVE Spec => MeetsContract
  OBVIOUS
<1>1. WriterInv /\ [Next]_vars => [Contract!Next]_(Contract!contract)
  BY ContractNext DEF FollowsContract
<1> QED
  BY <1>1, WriterInit, WriterNext, ContractInit, PTL DEF Spec, MeetsContract, Contract!Spec

\* A completed task is never reopened, failed, canceled or interrupted: with
\* or without cancellations, late results and restarts (Start and the result
\* writes have no condition on the status, and rely on who calls them).
THEOREM CompletedStays == Spec => CompletedIsFinal
<1>1. ASSUME WriterInv, [Next]_vars PROVE KeepsCompleted
  <2>1. ASSUME NEW t \in Tasks, \A u \in Tasks : Changes(u), rows[t].status = "completed"
        PROVE  rows'[t].status = "completed"
    BY <2>1 DEF Changes, Contract!Moves
  <2> QED
    BY <1>1, <2>1, StepServes, ServesKeeps, IdleSteps, RestartServes DEF KeepsCompleted
<1> QED
  BY <1>1, WriterInit, WriterNext, PTL DEF Spec, CompletedIsFinal

-----------------------------------------------------------------------------
(* Running rows have an owner                                              *)

Owned(t) ==
  t \notin AppServerTasks /\ rows[t].status = "running"
    => closed \/ RunWrites(t) \/ RetryWrites(t) \/ Claimed(t)

\* Without cancellations only Close cancels the context of a run.
OwnerInv ==
  /\ WriterInv
  /\ killPending = {}
  /\ canceledCtx # {} => closed
  /\ \A t \in Tasks : Owned(t)

LEMMA PersistFailureEnds ==
  ASSUME TypeOK, NEW t \in Tasks, rows[t].status = "running", PersistFailure(t)
  PROVE  rows'[t].status = "failed"
<1>1. CanFailTask(rows[t]) /\ rows \in [Tasks -> Row] /\ rows[t] \in Row
  BY DEF CanFailTask, Finished, TypeOK
<1> QED
  BY <1>1, TerminalStatus DEF PersistFailure, Becomes

\* A goroutine that stops writing leaves a row that is not running.
LEMMA PipelineOwned ==
  ASSUME OwnerInv, NEW t \in Tasks, NEW w \in Goroutines(t), Pipeline(w), "cancel" \notin Operations
  PROVE  Owned(t)'
<1>0. /\ TypeOK /\ rows \in [Tasks -> Row] /\ rows[t] \in Row /\ worker \in [Workers -> WorkerRecord]
      /\ w[2] = t /\ w \in Workers /\ Writing(t, w) /\ Fine(t)
  BY WorkerNames
     DEF OwnerInv, WriterInv, LockInv, TypeOK, Goroutines, Writing, Pipeline,
         ResultFailed, ResultAccepted, InputsCurrent, InputsSuperseded, CommitAssets, WriteResult
<1>1. rows[t].status = "running"
  BY <1>0 DEF Fine, Writing, Goroutines, RunWrites, RetryWrites
<1>2. ASSUME worker'[w].pc \notin {"idle", "finish"} PROVE Owned(t)'
  BY <1>2 DEF Owned, RunWrites, RetryWrites, Goroutines
<1>3. CASE ResultFailed(w)
  <2>1. CASE PersistFailure(t)
    BY <1>0, <1>1, <2>1, PersistFailureEnds DEF Owned
  <2>2. CASE ~PersistFailure(t)
    <3>1. PICK error : rows' = [rows EXCEPT ![t] = WriteFailure(@, worker[w].v, error)]
      BY <1>0, <1>3, <2>2 DEF ResultFailed
    <3>2. Becomes(rows'[t], rows[t], "failed")
      BY <1>0, <3>1, ResultStatus
    <3> QED
      BY <3>2 DEF Becomes, Owned
  <2> QED
    BY <2>1, <2>2
<1>4. CASE ResultAccepted(w) \/ InputsCurrent(w)
  BY ZenonT(60), <1>0, <1>2, <1>4 DEF ResultAccepted, InputsCurrent, Goto, WorkerRecord
<1>5. CASE InputsSuperseded(w)
  BY <1>0, <1>1, <1>5, PersistFailureEnds DEF InputsSuperseded, Owned
<1>6. CASE CommitAssets(w)
  <2>1. CASE Goto(w, "write")
    BY <1>0, <1>2, <2>1 DEF Goto, WorkerRecord
  <2>2. CASE PersistFailure(t)
    BY <1>0, <1>1, <2>2, PersistFailureEnds DEF Owned
  <2> QED
    BY <1>0, <1>6, <2>1, <2>2 DEF CommitAssets
<1>7. CASE WriteResult(w)
  <2>1. CASE PersistFailure(t)
    BY <1>0, <1>1, <2>1, PersistFailureEnds DEF Owned
  <2>2. CASE ~PersistFailure(t)
    <3>1. rows' = [rows EXCEPT ![t] = WriteSuccess(@, worker[w].v, worker[w].outcome)]
      BY <1>0, <1>7, <2>2 DEF WriteResult
    <3>2. Becomes(rows'[t], rows[t], worker[w].outcome)
      BY <1>0, <3>1, ResultStatus
    <3>3. worker[w].outcome \in {"awaiting_input", "completed"}
      BY <1>0 DEF WorkerRecord, Outcomes
    <3> QED
      BY <3>2, <3>3 DEF Becomes, Owned
  <2> QED
    BY <2>1, <2>2
<1> QED
  BY <1>3, <1>4, <1>5, <1>6, <1>7 DEF Pipeline

LEMMA RunnerOwned ==
  ASSUME OwnerInv, ~closed, NEW t \in Tasks, Runner(t) \/ ReportSession(t),
         {"cancel", "startfault"} \cap Operations = {}
  PROVE  Owned(t)'
<1> DEFINE w == <<"run", t>>
<1>0. /\ TypeOK /\ rows \in [Tasks -> Row] /\ rows[t] \in Row /\ worker \in [Workers -> WorkerRecord]
      /\ w \in Goroutines(t) /\ w \in Workers /\ Fine(t) /\ t \notin canceledCtx /\ Owned(t)
  BY WorkerNames DEF OwnerInv, WriterInv, LockInv, TypeOK, Goroutines
<1>1. ASSUME worker'[w].pc \notin {"idle", "finish"} PROVE Owned(t)'
  BY <1>1 DEF Owned, RunWrites
<1>2. CASE StartTask(t) \/ ExecEnds(t) \/ Validate(t) \/ ReportSession(t)
  BY <1>0, <1>1, <1>2 DEF StartTask, ExecEnds, Validate, ReportSession, memory, Goto, WorkerRecord
<1>3. CASE StartRefused(t) \/ ExecCanceled(t)
  BY <1>0, <1>3 DEF StartRefused, ExecCanceled
<1>4. CASE RunFails(t) \/ ValidateRefused(t)
  <2>1. rows[t].status = "running"
    BY <1>0, <1>4 DEF RunFails, ValidateRefused, Fine, RunWrites
  <2> QED
    BY <1>0, <1>4, <2>1, PersistFailureEnds DEF RunFails, ValidateRefused, Owned
<1>5. CASE ExecFails(t)
  BY <1>0, <1>1, <1>5 DEF ExecFails, Goto, WorkerRecord
<1>6. CASE Pipeline(w)
  BY <1>0, <1>6, PipelineOwned
<1>7. CASE FinishRun(t)
  <2>1. /\ rows' = rows /\ UNCHANGED <<loop, closed>>
        /\ worker'[<<"retry", t>>] = worker[<<"retry", t>>] /\ worker[w].pc = "finish"
    BY <1>0, <1>7 DEF FinishRun
  <2> QED
    BY <1>0, <2>1 DEF Owned, RunWrites, RetryWrites, Claimed
<1> QED
  BY <1>2, <1>3, <1>4, <1>5, <1>6, <1>7 DEF Runner

LEMMA ClientOwned ==
  ASSUME OwnerInv, NEW t \in Tasks, Client(t), "cancel" \notin Operations
  PROVE  Owned(t)'
<1>0. rows \in [Tasks -> Row] /\ rows[t] \in Row /\ worker \in [Workers -> WorkerRecord]
  BY DEF OwnerInv, WriterInv, LockInv, TypeOK
<1>1. CASE Prepare(t) \/ Enqueue(t) \/ Resume(t)
  <2>1. Becomes(rows'[t], rows[t], "queued")
    BY <1>0, <1>1, QueueStatus DEF Prepare, Enqueue, Resume
  <2> QED
    BY <2>1 DEF Becomes, Owned
<1>2. CASE AppServerEnqueue(t) \/ \E turn \in Turns : AppServerStart(t, turn)
  BY <1>2 DEF AppServerEnqueue, AppServerStart, Owned
<1>3. CASE RetryOutput(t)
  <2>1. worker'[<<"retry", t>>].pc = "result"
    BY <1>0, <1>3, WorkerNames DEF RetryOutput, IdleWorker
  <2> QED
    BY <2>1 DEF Owned, RetryWrites
<1> QED
  BY <1>1, <1>2, <1>3 DEF Client, Cancel

LEMMA DispatcherOwned ==
  ASSUME OwnerInv, ~closed, NEW t \in Tasks, t = loop.cur, Abandon \/ Claim \/ Register
  PROVE  Owned(t)'
<1>0. /\ rows \in [Tasks -> Row] /\ rows[t] \in Row /\ worker \in [Workers -> WorkerRecord]
      /\ loop \in LoopRecord /\ Owned(t) /\ Fine(t)
  BY DEF OwnerInv, WriterInv, LockInv, TypeOK
<1>1. CASE Abandon
  <2>1. /\ UNCHANGED <<worker, closed>> /\ loop.pc = "abandon"
        /\ rows' = IF CanFailQueuedTask(rows[t]) THEN [rows EXCEPT ![t] = FailQueuedTask(@)] ELSE rows
    BY <1>1 DEF Abandon
  <2>2. rows'[t].status = "failed" \/ rows' = rows
    BY <1>0, <2>1, QueueStatus DEF Becomes
  <2> QED
    BY <1>0, <2>1, <2>2 DEF Owned, RunWrites, RetryWrites, Claimed
<1>2. CASE Claim
  BY <1>0, <1>2 DEF Claim, Owned, Claimed, LoopRecord
<1>3. CASE Register
  <2>1. worker'[<<"run", t>>].pc = "start"
    BY <1>0, <1>3, WorkerNames DEF Register, IdleWorker
  <2> QED
    BY <2>1 DEF Owned, RunWrites
<1> QED
  BY <1>1, <1>2, <1>3

\* The other tasks keep their owners.
LEMMA OwnedFrame ==
  ASSUME OwnerInv, NEW t \in Tasks, About(t), UNCHANGED loop \/ loop.cur = t, UNCHANGED closed, Owned(t)'
  PROVE  \A u \in Tasks : Owned(u)'
<1> SUFFICES ASSUME NEW u \in Tasks, u # t PROVE Owned(u)'
  OBVIOUS
<1>1. Claimed(u) => Claimed(u)'
  BY DEF Claimed
<1> QED
  BY <1>1 DEF OwnerInv, About, Owned, RunWrites, RetryWrites

LEMMA OwnerInit == Init => OwnerInv
  BY WriterInit DEF Init, OwnerInv, Owned, AbsentRow

LEMMA ContextsCanceled ==
  ASSUME OwnerInv, [Next]_vars, ~Restart, "cancel" \notin Operations
  PROVE  killPending' = {} /\ (canceledCtx' # {} => closed') /\ (closed => closed')
<1>1. ASSUME NEW t \in Tasks, Client(t) PROVE UNCHANGED <<killPending, canceledCtx, closed>>
  BY <1>1 DEF Client, Prepare, Enqueue, AppServerEnqueue, AppServerStart, Resume, Cancel, RetryOutput, memory
<1>2. ASSUME NEW t \in Tasks, Runner(t) \/ ReportSession(t) \/ SignalRun(t)
      PROVE  UNCHANGED <<killPending, canceledCtx, closed>>
  BY <1>2 DEF Runner, StartTask, StartRefused, ExecCanceled, ExecFails, RunFails, ExecEnds, Validate, ValidateRefused, Pipeline,
              ResultFailed, ResultAccepted, InputsCurrent, InputsSuperseded, CommitAssets, WriteResult,
              FinishRun, ReportSession, SignalRun, memory
<1>3. ASSUME NEW t \in Tasks, Pipeline(<<"retry", t>>) PROVE UNCHANGED <<killPending, canceledCtx, closed>>
  BY <1>3 DEF Pipeline, ResultFailed, ResultAccepted, InputsCurrent, InputsSuperseded, CommitAssets, WriteResult
<1>4. ASSUME Dispatcher PROVE UNCHANGED <<killPending, closed>> /\ canceledCtx' \subseteq canceledCtx
  BY <1>4 DEF Dispatcher, TakeWake, DispatchThenPark, Unpark, StopLoop, ListQueued, ListFails, EndDispatch, Pick,
              BuildFails, ClaimRefused, Abandon, Release, Claim, Register
<1>5. ASSUME NEW t \in Tasks PROVE ~CancelRun(t)
  BY DEF OwnerInv, CancelRun
<1>6. ASSUME Close \/ CloseRuns \/ (\E n \in Limits : SetLimit(n)) \/ SignalLimit \/ UNCHANGED vars
      PROVE  killPending' = {} /\ (canceledCtx' # {} => closed') /\ (closed => closed')
  BY <1>6 DEF Close, CloseRuns, SetLimit, SignalLimit, vars, memory, OwnerInv
<1> QED
  BY <1>1, <1>2, <1>3, <1>4, <1>5, <1>6 DEF Next, OwnerInv

LEMMA OwnerNext ==
  ASSUME {"cancel", "startfault"} \cap Operations = {}, OwnerInv, [Next]_vars
  PROVE  OwnerInv'
<1>0. WriterInv /\ WriterInv' /\ "cancel" \notin Operations
  BY WriterNext DEF OwnerInv
<1>1. CASE Restart
  <2>1. \A t \in Tasks : rows'[t].status # "running"
    BY <1>0, <1>1, RestartServes
  <2> QED
    BY <1>0, <1>1, <2>1 DEF OwnerInv, Owned, Restart
<1>2. CASE ~Restart /\ ~closed'
  <2>0. ~closed /\ UNCHANGED closed
    <3>1. closed \in BOOLEAN /\ closed' \in BOOLEAN
      BY <1>0 DEF WriterInv, LockInv, TypeOK
    <3>2. closed => closed'
      BY <1>0, <1>2, ContextsCanceled
    <3> QED
      BY <1>2, <3>1, <3>2
  <2>1. ASSUME NEW t \in Tasks, Client(t) \/ Runner(t) \/ ReportSession(t) \/ Pipeline(<<"retry", t>>)
        PROVE  \A u \in Tasks : Owned(u)'
    <3>1. About(t)
      BY <1>0, <2>1, ClientServes, RunnerServes, PipelineServes DEF Goroutines, Serves
    <3>2. Owned(t)'
      BY <1>0, <2>0, <2>1, ClientOwned, RunnerOwned, PipelineOwned DEF Goroutines
    <3>3. UNCHANGED loop
      BY <2>1 DEF Client, Prepare, Enqueue, AppServerEnqueue, AppServerStart, Resume, Cancel, RetryOutput, memory,
                  Runner, StartTask, StartRefused, ExecCanceled, ExecFails, RunFails, ExecEnds, Validate, ValidateRefused,
                  Pipeline, ResultFailed, ResultAccepted, InputsCurrent, InputsSuperseded, CommitAssets, WriteResult,
                  FinishRun, ReportSession
    <3> QED
      BY <2>0, <3>1, <3>2, <3>3, OwnedFrame
  <2>2. ASSUME Abandon \/ Claim \/ Register PROVE \A u \in Tasks : Owned(u)'
    <3>1. PICK t \in Tasks : t = loop.cur /\ About(t)
      BY <1>0, <2>2, DispatcherServes DEF Serves
    <3>2. Owned(t)'
      BY <2>0, <2>2, <3>1, DispatcherOwned
    <3> QED
      BY <2>0, <3>1, <3>2, OwnedFrame
  <2>3. ASSUME UNCHANGED <<rows, worker>>, UNCHANGED loop \/ loop.pc # "register" PROVE \A u \in Tasks : Owned(u)'
    <3>1. \A u \in Tasks : Claimed(u) => Claimed(u)'
      BY <2>3 DEF Claimed
    <3> QED
      BY <2>0, <2>3, <3>1 DEF OwnerInv, Owned, RunWrites, RetryWrites
  <2> QED
    BY <1>0, <1>2, <2>1, <2>2, <2>3, StepKinds, ContextsCanceled DEF OwnerInv
<1>3. CASE ~Restart /\ closed'
  BY <1>0, <1>3, ContextsCanceled DEF OwnerInv, Owned
<1> QED
  BY <1>1, <1>2, <1>3

\* As long as nobody cancels and the store accepts the start of every claimed
\* task, a running row has somebody who will move it on (RunningHasOwner): a
\* run, a retry, the dispatcher about to register it, or a closing console.
\* Both hypotheses are needed: Run returns before it persists a failure when
\* Start is refused, and a canceled task may be set to running again.
THEOREM OwnerExists == {"cancel", "startfault"} \cap Operations = {} => (Spec => []RunningHasOwner)
<1> SUFFICES ASSUME {"cancel", "startfault"} \cap Operations = {} PROVE Spec => []RunningHasOwner
  OBVIOUS
<1>1. OwnerInv => RunningHasOwner
  BY DEF OwnerInv, Owned, RunWrites, RetryWrites, Claimed, Live, RunningHasOwner
<1>2. OwnerInv /\ [Next]_vars => OwnerInv'
  BY OwnerNext
<1> QED
  BY <1>1, <1>2, OwnerInit, PTL DEF Spec

-----------------------------------------------------------------------------
(***************************************************************************)
(* Phases: the timings of a task never overlap, a commit follows its       *)
(* validation, a finished task is timed, and the result of a canceled task *)
(* is refused.                                                             *)
(***************************************************************************)
-----------------------------------------------------------------------------
(* Rows                                                                    *)

\* At most one phase of all is open.
Single(row) ==
  \A k, l \in PhaseKeys, a, b \in Attempts :
    row.phases[k][a] = "running" /\ row.phases[l][b] = "running" => k = l /\ a = b

\* Nothing outside these keys is open.
Quiet(row, keys) == \A k \in PhaseKeys \ keys, a \in Attempts : row.phases[k][a] # "running"

\* A committed attempt was validated.
Committed(row) ==
  \A a \in Attempts : row.phases["asset_commit"][a] # "none" => row.phases["result_validation"][a] = "completed"

Sound(row) == row \in Row /\ Single(row) /\ Committed(row)

\* The phases of a row after a write.
Writes(r, row, key, a, state) ==
  \A k \in PhaseKeys, b \in Attempts :
    r.phases[k][b] = IF k = key /\ b = a THEN state ELSE row.phases[k][b]
Closes(r, row, keys, state) ==
  \A k \in PhaseKeys, b \in Attempts :
    r.phases[k][b] = IF k \in keys /\ row.phases[k][b] = "running" THEN state ELSE row.phases[k][b]

LEMMA SetPhaseWrites ==
  ASSUME NEW row \in Row, NEW key \in PhaseKeys, NEW a, NEW state
  PROVE  Writes(SetPhase(row, key, a, state), row, key, a, state)
  BY DEF SetPhase, Writes, Row

\* With one open phase, the newest open run of a key is the only one.
LEMMA HighestOpen ==
  ASSUME NEW row \in Row, Single(row), NEW key \in PhaseKeys, NEW a \in Attempts,
         row.phases[key][a] = "running"
  PROVE  Open(row, key) = {a} /\ Highest(Open(row, key)) = a
<1>1. Open(row, key) = {a}
  BY DEF Open, Single
<1>2. a \in Int
  BY MaxAttemptAssumption DEF Attempts
<1> QED
  BY <1>1, <1>2 DEF Highest

LEMMA FinishActiveCloses ==
  ASSUME NEW row \in Row, Single(row), NEW key \in PhaseKeys, NEW state
  PROVE  Closes(FinishActivePhase(row, key, state), row, {key}, state)
<1>1. CASE Open(row, key) = {}
  BY <1>1 DEF FinishActivePhase, Closes, Open
<1>2. CASE Open(row, key) # {}
  <2>1. PICK a \in Attempts : row.phases[key][a] = "running"
    BY <1>2 DEF Open
  <2>2. FinishActivePhase(row, key, state) = SetPhase(row, key, a, state)
    BY <1>2, <2>1, HighestOpen DEF FinishActivePhase
  <2>3. Writes(SetPhase(row, key, a, state), row, key, a, state)
    BY SetPhaseWrites
  <2> QED
    BY <2>1, <2>2, <2>3 DEF Writes, Closes, Single
<1> QED
  BY <1>1, <1>2

LEMMA FinishLifecycleCloses ==
  ASSUME NEW row \in Row, Single(row), NEW state
  PROVE  Closes(FinishActiveLifecyclePhases(row, state), row, PhaseKeys, state)
<1> DEFINE r == FinishActiveLifecyclePhases(row, state)
<1>1. ASSUME NEW k \in PhaseKeys, NEW b \in Attempts
      PROVE  r.phases[k][b] = IF row.phases[k][b] = "running" THEN state ELSE row.phases[k][b]
  <2>1. r.phases[k][b] = IF b \in Open(row, k) /\ b = Highest(Open(row, k)) THEN state ELSE row.phases[k][b]
    BY DEF FinishActiveLifecyclePhases, Row
  <2>2. b \in Open(row, k) <=> row.phases[k][b] = "running"
    BY DEF Open
  <2> QED
    BY <2>1, <2>2, HighestOpen
<1> QED
  BY <1>1 DEF Closes

\* A write that opens nothing keeps a sound row sound.
LEMMA ClosesSound ==
  ASSUME NEW row, Sound(row), NEW r \in Row, NEW keys \in SUBSET PhaseKeys, NEW quiet,
         NEW state \in {"completed", "failed", "canceled", "interrupted"},
         Closes(r, row, keys, state), Quiet(row, quiet)
  PROVE  Sound(r) /\ Quiet(r, quiet) /\ Quiet(r, quiet \ keys)
<1>1. Single(r) /\ Quiet(r, quiet) /\ Quiet(r, quiet \ keys)
  BY DEF Sound, Closes, Single, Quiet
<1>2. Committed(r)
  BY DEF Sound, Closes, Committed, PhaseKeys
<1> QED
  BY <1>1, <1>2 DEF Sound

\* A row with the same phases.
LEMMA SamePhases ==
  ASSUME NEW row, Sound(row), NEW r \in Row, r.phases = row.phases, NEW quiet, Quiet(row, quiet)
  PROVE  Sound(r) /\ Quiet(r, quiet)
  BY DEF Sound, Single, Committed, Quiet

\* The first phase of a row without open phases.
LEMMA OpensOne ==
  ASSUME NEW row, Sound(row), Quiet(row, {}), NEW r \in Row,
         NEW key \in {"queue_wait", "codex_execution", "result_validation"}, NEW a,
         Writes(r, row, key, a, "running"),
         key = "result_validation" => a \in Attempts /\ row.phases[key][a] = "none"
  PROVE  Sound(r) /\ Quiet(r, {key})
<1>1. Single(r) /\ Quiet(r, {key})
  BY DEF Writes, Single, Quiet
<1>2. Committed(r)
  BY DEF Sound, Writes, Committed, PhaseKeys
<1> QED
  BY <1>1, <1>2 DEF Sound

LEMMA QueuePhases ==
  ASSUME NEW row, Sound(row)
  PROVE  /\ Quiet(row, {}) => Sound(EnsurePreparedTask(row)) /\ Quiet(EnsurePreparedTask(row), {})
         /\ Quiet(row, {"queue_wait"}) =>
              /\ Sound(EnsurePreparedTask(row)) /\ Quiet(EnsurePreparedTask(row), {"queue_wait"})
              /\ Sound(AdmitQueuedTask(row)) /\ Quiet(AdmitQueuedTask(row), {"queue_wait"})
              /\ Sound(BeginLegacyResume(row)) /\ Quiet(BeginLegacyResume(row), {"queue_wait"})
              /\ Sound(FailQueuedTask(row)) /\ Quiet(FailQueuedTask(row), {})
<1>0. row \in Row /\ "queue_wait" \in PhaseKeys /\ "failed" \in PhaseStates
  BY DEF Sound, PhaseKeys, PhaseStates
<1>1. ASSUME NEW r, Sound(r), Quiet(r, {"queue_wait"})
      PROVE  Sound(AdmitQueue(r)) /\ Quiet(AdmitQueue(r), {"queue_wait"})
  <2>1. CASE Open(r, "queue_wait") # {}
    BY <1>1, <2>1 DEF AdmitQueue
  <2>2. CASE Open(r, "queue_wait") = {}
    <3>1. Quiet(r, {})
      BY <1>1, <2>2 DEF Quiet, Open
    <3> DEFINE a == NextQueueAttempt(r)
    <3>2. AdmitQueue(r) = SetPhase(r, "queue_wait", a, "running") /\ AdmitQueue(r) \in Row /\ r \in Row
      BY <1>1, <2>2, AdmitType DEF AdmitQueue, Sound
    <3> HIDE DEF a
    <3>3. Writes(AdmitQueue(r), r, "queue_wait", a, "running")
      BY <1>0, <3>2, SetPhaseWrites
    <3> QED
      BY <1>1, <3>1, <3>2, <3>3, OpensOne
  <2> QED
    BY <2>1, <2>2
<1>2. ASSUME NEW quiet, Quiet(row, quiet)
      PROVE  /\ Sound([row EXCEPT !.status = "queued"]) /\ Quiet([row EXCEPT !.status = "queued"], quiet)
             /\ Sound([row EXCEPT !.status = "queued", !.prepared = TRUE])
             /\ Quiet([row EXCEPT !.status = "queued", !.prepared = TRUE], quiet)
             /\ Sound([row EXCEPT !.status = "queued", !.error = "none"])
             /\ Quiet([row EXCEPT !.status = "queued", !.error = "none"], quiet)
  <2>1. /\ [row EXCEPT !.status = "queued"] \in Row
        /\ [row EXCEPT !.status = "queued", !.prepared = TRUE] \in Row
        /\ [row EXCEPT !.status = "queued", !.error = "none"] \in Row
    BY <1>0, ScalarType DEF Statuses, Errors
  <2>2. /\ [row EXCEPT !.status = "queued"].phases = row.phases
        /\ [row EXCEPT !.status = "queued", !.prepared = TRUE].phases = row.phases
        /\ [row EXCEPT !.status = "queued", !.error = "none"].phases = row.phases
    BY <1>0 DEF Row
  <2> QED
    BY <1>2, <2>1, <2>2, SamePhases
<1>3. ASSUME Quiet(row, {"queue_wait"}) PROVE Sound(FailQueuedTask(row)) /\ Quiet(FailQueuedTask(row), {})
  <2> DEFINE r == FinishActivePhase(row, "queue_wait", "failed")
  <2>1. r \in Row /\ Closes(r, row, {"queue_wait"}, "failed")
    BY <1>0, FinishActivePhaseType, FinishActiveCloses DEF Sound
  <2> HIDE DEF r
  <2>2. Sound(r) /\ Quiet(r, {"queue_wait"} \ {"queue_wait"})
    BY <1>0, <1>3, <2>1, ClosesSound
  <2>3. "failed" \in Statuses /\ "other" \in Errors
    BY DEF Statuses, Finished, Errors
  <2>5. [r EXCEPT !.status = "failed", !.error = "other"] \in Row
    BY <2>1, <2>3, ScalarType
  <2>6. [r EXCEPT !.status = "failed", !.error = "other"].phases = r.phases
    BY <2>1 DEF Row
  <2>4. Quiet(r, {})
    BY <2>2 DEF Quiet
  <2> QED
    BY <2>2, <2>4, <2>5, <2>6, SamePhases DEF FailQueuedTask, r
<1> QED
  BY <1>1, <1>2, <1>3 DEF EnsurePreparedTask, AdmitQueuedTask, BeginLegacyResume

LEMMA ExecutionPhases ==
  ASSUME NEW row, Sound(row), Quiet(row, {"queue_wait"})
  PROVE  /\ Sound(ClaimLegacyStart(row)) /\ Quiet(ClaimLegacyStart(row), {"codex_execution"})
         /\ \A turn \in Turns : Sound(StartAppServerTurn(row, turn))
<1>0. row \in Row /\ {"queue_wait", "codex_execution"} \subseteq PhaseKeys /\ "completed" \in PhaseStates
  BY DEF Sound, PhaseKeys, PhaseStates
<1> DEFINE waited == FinishActivePhase(row, "queue_wait", "completed")
           r == OpenExecution(row)
<1>1. Sound(waited) /\ Quiet(waited, {})
  <2>1. waited \in Row /\ Closes(waited, row, {"queue_wait"}, "completed")
    BY <1>0, FinishActivePhaseType, FinishActiveCloses DEF Sound
  <2> HIDE DEF waited
  <2>2. Sound(waited) /\ Quiet(waited, {"queue_wait"} \ {"queue_wait"})
    BY <1>0, <2>1, ClosesSound
  <2> QED
    BY <2>2 DEF Quiet
<1>2. Sound(r) /\ Quiet(r, {"codex_execution"})
  <2>1. r \in Row /\ r = SetPhase(waited, "codex_execution", ExecutionAttempt(row), "running")
    BY <1>0, StartType DEF OpenExecution
  <2> HIDE DEF r, waited
  <2>2. Writes(r, waited, "codex_execution", ExecutionAttempt(row), "running")
    BY <1>0, <1>1, <2>1, SetPhaseWrites DEF Sound
  <2> QED
    BY <1>1, <2>1, <2>2, OpensOne
<1> HIDE DEF r
<1>3. Sound(ClaimLegacyStart(row)) /\ Quiet(ClaimLegacyStart(row), {"codex_execution"})
  <2>1. ClaimLegacyStart(row) \in Row /\ ClaimLegacyStart(row).phases = r.phases
    BY <1>0, <1>2, StartType DEF ClaimLegacyStart, r, Sound, Row
  <2> QED
    BY <1>2, <2>1, SamePhases
<1>4. ASSUME NEW turn \in Turns PROVE Sound(StartAppServerTurn(row, turn))
  <2>1. StartAppServerTurn(row, turn) \in Row
    BY <1>0, StartType
  <2>2. \/ StartAppServerTurn(row, turn) = row
        \/ StartAppServerTurn(row, turn).phases = r.phases
    BY <1>2 DEF StartAppServerTurn, r, Sound, Row
  <2> QED
    BY <1>2, <2>1, <2>2, SamePhases
<1> QED
  BY <1>3, <1>4

LEMMA ClosedPhases ==
  ASSUME NEW row, Sound(row), NEW status \in {"failed", "canceled", "interrupted"}
  PROVE  /\ Sound(Closed(row, status, "other")) /\ Quiet(Closed(row, status, "other"), {})
         /\ Closes(Closed(row, status, "other"), row, PhaseKeys, status)
<1> DEFINE r == FinishActiveLifecyclePhases(row, status)
<1>1. row \in Row /\ r \in Row /\ Closes(r, row, PhaseKeys, status)
  BY FinishLifecycleType, FinishLifecycleCloses DEF Sound, PhaseStates
<1> HIDE DEF r
<1>2. Quiet(row, PhaseKeys)
  BY DEF Quiet
<1>3. Sound(r) /\ Quiet(r, PhaseKeys \ PhaseKeys)
  BY <1>1, <1>2, ClosesSound
<1>4. Quiet(r, {})
  BY <1>3 DEF Quiet
<1>5. status \in Statuses /\ "other" \in Errors
  BY DEF Statuses, Finished, Errors
<1>6. [r EXCEPT !.status = status, !.error = "other"] \in Row
  BY <1>1, <1>5, ScalarType
<1>7. [r EXCEPT !.status = status, !.error = "other"].phases = r.phases
  BY <1>1 DEF Row
<1> QED
  BY <1>1, <1>3, <1>4, <1>6, <1>7, SamePhases DEF Closed, r, Closes

\* The end of an execution.
LEMMA FinishExecutionPhases ==
  ASSUME NEW row, Sound(row), Quiet(row, {"codex_execution"}),
         NEW state \in {"failed", "canceled", "interrupted"}
  PROVE  Sound(FinishExecution(row, state)) /\ Quiet(FinishExecution(row, state), {})
<1> DEFINE r == FinishExecution(row, state)
<1>1. row \in Row /\ "codex_execution" \in PhaseKeys
  BY DEF Sound, PhaseKeys
<1>2. r \in Row /\ Closes(r, row, {"codex_execution"}, state)
  BY <1>1, FinishExecutionType, FinishActiveCloses DEF FinishExecution, Sound
<1> HIDE DEF r
<1>3. Sound(r) /\ Quiet(r, {"codex_execution"} \ {"codex_execution"})
  BY <1>1, <1>2, ClosesSound
<1> QED
  BY <1>3 DEF Quiet, r

\* The row while attempt v is validated, and while its assets are committed.
Validating(row, v) ==
  /\ v \in Attempts
  /\ row.phases["result_validation"][v] = "running"
  /\ row.phases["asset_commit"][v] = "none"
Committing(row, v) ==
  /\ v \in Attempts
  /\ row.phases["result_validation"][v] = "completed"
  /\ row.phases["asset_commit"][v] = "running"

LEMMA ValidationPhases ==
  ASSUME NEW row, Sound(row), Quiet(row, {"codex_execution"}), CanBeginResultValidation(row)
  PROVE  /\ Sound(BeginResultValidation(row))
         /\ Validating(BeginResultValidation(row), ValidationAttempt(row))
<1> DEFINE executed == FinishActivePhase(row, "codex_execution", "completed")
           r == BeginResultValidation(row)
           v == ValidationAttempt(row)
<1>1. /\ row \in Row /\ {"codex_execution", "result_validation", "asset_commit"} \subseteq PhaseKeys
      /\ "completed" \in PhaseStates
  BY DEF Sound, PhaseKeys, PhaseStates
<1>2. executed \in Row /\ Closes(executed, row, {"codex_execution"}, "completed")
  BY <1>1, FinishActivePhaseType, FinishActiveCloses DEF Sound
<1>3. r \in Row /\ r = SetPhase(executed, "result_validation", v, "running")
  BY <1>1, ResultType DEF BeginResultValidation
<1>4. v \in Attempts /\ row.phases["result_validation"][v] = "none"
  BY DEF CanBeginResultValidation, CanInsert
<1> HIDE DEF executed, r, v
<1>5. Sound(executed) /\ Quiet(executed, {"codex_execution"} \ {"codex_execution"})
  BY <1>1, <1>2, ClosesSound
<1>6. Quiet(executed, {})
  BY <1>5 DEF Quiet
<1>7. executed.phases["result_validation"][v] = "none"
  BY <1>1, <1>2, <1>4 DEF Closes
<1>8. executed.phases["asset_commit"][v] = "none"
  BY <1>4, <1>5, <1>7 DEF Sound, Committed
<1>9. Writes(r, executed, "result_validation", v, "running")
  BY <1>1, <1>2, <1>3, SetPhaseWrites
<1>10. Sound(r)
  BY <1>3, <1>4, <1>5, <1>6, <1>7, <1>9, OpensOne
<1>11. Validating(r, v)
  BY <1>1, <1>4, <1>8, <1>9 DEF Writes, Validating
<1> QED
  BY <1>10, <1>11 DEF r, v

LEMMA RetryPhases ==
  ASSUME NEW row, Sound(row), Quiet(row, {}), CanBeginResultValidation(row)
  PROVE  /\ Sound(ClaimOutputInvalidRetry(row))
         /\ Validating(ClaimOutputInvalidRetry(row), ValidationAttempt(row))
<1> DEFINE r == BeginResultValidation(row)
           claimed == ClaimOutputInvalidRetry(row)
<1>1. Quiet(row, {"codex_execution"}) /\ row \in Row
  BY DEF Quiet, Sound
<1>2. Sound(r) /\ Validating(r, ValidationAttempt(row))
  BY <1>1, ValidationPhases
<1>3. claimed \in Row
  BY <1>1, ResultType
<1>4. claimed.phases = r.phases
  BY <1>2 DEF ClaimOutputInvalidRetry, Sound, Row
<1>5. Quiet(r, PhaseKeys)
  BY DEF Quiet
<1> HIDE DEF r, claimed
<1>6. Sound(claimed)
  BY <1>2, <1>3, <1>4, <1>5, SamePhases
<1> QED
  BY <1>2, <1>4, <1>6 DEF Validating, claimed

LEMMA CommitPhases ==
  ASSUME NEW row, Sound(row), NEW v, Validating(row, v)
  PROVE  Sound(BeginAssetCommit(row, v)) /\ Committing(BeginAssetCommit(row, v), v)
<1> DEFINE validated == SetPhase(row, "result_validation", v, "completed")
           r == BeginAssetCommit(row, v)
<1>1. /\ row \in Row /\ {"result_validation", "asset_commit"} \subseteq PhaseKeys
      /\ "completed" \in PhaseStates /\ v \in Attempts
  BY DEF Sound, PhaseKeys, PhaseStates, Validating
<1>2. validated \in Row /\ Writes(validated, row, "result_validation", v, "completed")
  BY <1>1, SetPhaseType, SetPhaseWrites
<1>3. validated.phases["asset_commit"][v] = "none"
  BY <1>1, <1>2 DEF Writes, Validating
<1>4. r \in Row /\ r = SetPhase(validated, "asset_commit", v, "running")
  BY <1>1, <1>3, ResultType DEF BeginAssetCommit
<1> HIDE DEF validated, r
<1>5. Writes(r, validated, "asset_commit", v, "running")
  BY <1>1, <1>2, <1>4, SetPhaseWrites
<1>6. /\ r.phases["result_validation"][v] = "completed"
      /\ r.phases["asset_commit"][v] = "running"
      /\ \A k \in PhaseKeys, b \in Attempts :
            b # v \/ k \notin {"result_validation", "asset_commit"} => r.phases[k][b] = row.phases[k][b]
  BY <1>1, <1>2, <1>5 DEF Writes
<1>7. Single(r)
  BY <1>1, <1>6 DEF Single, Sound, Validating
<1>8. Committed(r)
  BY <1>1, <1>6 DEF Committed, Sound
<1> QED
  BY <1>1, <1>4, <1>6, <1>7, <1>8 DEF Sound, Committing, r

\* Both ways to write a result close the one open phase.
LEMMA ResultPhases ==
  ASSUME NEW row, Sound(row), NEW v
  PROVE  /\ Validating(row, v) => \A error \in Errors :
              Sound(WriteFailure(row, v, error)) /\ Quiet(WriteFailure(row, v, error), {})
         /\ Committing(row, v) => \A status \in {"awaiting_input", "completed"} :
              Sound(WriteSuccess(row, v, status)) /\ Quiet(WriteSuccess(row, v, status), {})
<1>1. /\ row \in Row /\ {"result_validation", "asset_commit"} \subseteq PhaseKeys
      /\ {"completed", "failed"} \subseteq PhaseStates
  BY DEF Sound, PhaseKeys, PhaseStates
<1>2. ASSUME Validating(row, v), NEW error \in Errors
      PROVE  Sound(WriteFailure(row, v, error)) /\ Quiet(WriteFailure(row, v, error), {})
  <2> DEFINE r == SetPhase(row, "result_validation", v, "failed")
             failed == WriteFailure(row, v, error)
  <2>1. r \in Row /\ Writes(r, row, "result_validation", v, "failed") /\ failed \in Row
    BY <1>1, SetPhaseType, SetPhaseWrites, ResultType
  <2>2. failed.phases = r.phases
    BY <2>1 DEF WriteFailure, Row
  <2> HIDE DEF r, failed
  <2>3. Writes(failed, row, "result_validation", v, "failed")
    BY <2>1, <2>2 DEF Writes
  <2>4. Single(failed) /\ Quiet(failed, {})
    BY <1>1, <1>2, <2>3 DEF Writes, Single, Quiet, Sound, Validating
  <2>5. Committed(failed)
    BY <1>1, <1>2, <2>3 DEF Writes, Committed, Sound, Validating
  <2> QED
    BY <2>1, <2>4, <2>5 DEF Sound, failed
<1>3. ASSUME Committing(row, v), NEW status \in {"awaiting_input", "completed"}
      PROVE  Sound(WriteSuccess(row, v, status)) /\ Quiet(WriteSuccess(row, v, status), {})
  <2> DEFINE r == SetPhase(row, "asset_commit", v, "completed")
             written == WriteSuccess(row, v, status)
  <2>1. r \in Row /\ Writes(r, row, "asset_commit", v, "completed") /\ written \in Row
    BY <1>1, SetPhaseType, SetPhaseWrites, ResultType
  <2>2. written.phases = r.phases
    BY <2>1 DEF WriteSuccess, Row
  <2> HIDE DEF r, written
  <2>3. Writes(written, row, "asset_commit", v, "completed")
    BY <2>1, <2>2 DEF Writes
  <2>4. Single(written) /\ Quiet(written, {})
    BY <1>1, <1>3, <2>3 DEF Writes, Single, Quiet, Sound, Committing
  <2>5. Committed(written)
    BY <1>1, <1>3, <2>3 DEF Writes, Committed, Sound, Committing
  <2> QED
    BY <2>1, <2>4, <2>5 DEF Sound, written
<1> QED
  BY <1>2, <1>3

-----------------------------------------------------------------------------
(* The invariant                                                           *)

\* What a goroutine in the result pipeline finds: its attempt, unless a
\* cancellation has closed it.
Holds(row, x) ==
  /\ x.pc \in {"result", "inputs", "commit"} =>
       x.v \in Attempts /\ (Validating(row, x.v) \/ row.phases["result_validation"][x.v] = "canceled")
  /\ x.pc = "write" =>
       x.v \in Attempts /\ (Committing(row, x.v) \/ row.phases["asset_commit"][x.v] = "canceled")

\* The execution has not been handed to the validation.
Executes(t) == Claimed(t) \/ worker[<<"run", t>>].pc \in {"start", "exec", "validate"}

\* A canceled task is no rest: its run may still open a validation.
Rests(row) == row.status \in {"absent", "awaiting_input", "completed", "failed", "interrupted"}

Timed(t) ==
  /\ Sound(rows[t])
  /\ Rests(rows[t]) => Quiet(rows[t], {})
  /\ rows[t].status = "queued" => Quiet(rows[t], {"queue_wait"})
  /\ Executes(t) => Quiet(rows[t], {"codex_execution"})
  /\ \A w \in Goroutines(t) : Holds(rows[t], worker[w])

PhaseInv == WriterInv /\ \A t \in Tasks : Timed(t)

LEMMA TimedFrame ==
  ASSUME PhaseInv, NEW t \in Tasks, About(t), Timed(t)'
  PROVE  \A u \in Tasks : Timed(u)'
<1> SUFFICES ASSUME NEW u \in Tasks, u # t PROVE Timed(u)'
  OBVIOUS
<1>1. /\ rows'[u] = rows[u] /\ (Executes(u)' => Executes(u)) /\ Timed(u)
      /\ \A w \in Goroutines(u) : worker'[w] = worker[w]
  BY DEF PhaseInv, About, Executes, Goroutines
<1> QED
  BY <1>1 DEF Timed, Goroutines

\* Nobody works on the task any more, or yet.
LEMMA RestTimed ==
  ASSUME NEW t \in Tasks, ~RunWrites(t)', ~RetryWrites(t)', ~Claimed(t)', Sound(rows'[t]),
         Rests(rows'[t]) => Quiet(rows'[t], {}),
         rows'[t].status = "queued" => Quiet(rows'[t], {"queue_wait"})
  PROVE  Timed(t)'
<1>1. ~Executes(t)'
  BY DEF Executes, RunWrites
<1>2. \A w \in Goroutines(t) : Holds(rows'[t], worker'[w])
  BY DEF Goroutines, Holds, RunWrites, RetryWrites
<1> QED
  BY <1>1, <1>2 DEF Timed, Goroutines

\* A step of goroutine w, which goes on.
LEMMA WorkTimed ==
  ASSUME PhaseInv, NEW t \in Tasks, NEW w \in Goroutines(t), Fine(t)', Sound(rows'[t]),
         rows'[t].status \in {"running", "canceled"},
         \A u \in Goroutines(t) \ {w} : worker[u].pc \in {"idle", "finish"} /\ worker'[u] = worker[u],
         Executes(t)' => Quiet(rows'[t], {"codex_execution"}),
         Holds(rows'[t], worker'[w])
  PROVE  Timed(t)'
<1>1. \A u \in Goroutines(t) : Holds(rows'[t], worker'[u])
  BY DEF Holds
<1> QED
  BY <1>1 DEF Timed, Rests, Goroutines

LEMMA PhaseInit == Init => PhaseInv
<1> SUFFICES ASSUME Init, NEW t \in Tasks PROVE Timed(t)
  BY WriterInit DEF PhaseInv
<1>1. rows[t] \in Row /\ \A k \in PhaseKeys, a \in Attempts : rows[t].phases[k][a] = "none"
  BY InitType DEF Init, AbsentRow, TypeOK
<1>2. Sound(rows[t])
  BY <1>1 DEF Sound, Single, Committed, PhaseKeys
<1>3. \A keys : Quiet(rows[t], keys)
  BY <1>1 DEF Quiet
<1>4. \A w \in Goroutines(t) : worker[w] = IdleWorker
  BY WorkerNames DEF Init, Goroutines
<1> QED
  BY <1>2, <1>3, <1>4 DEF Timed, Holds, IdleWorker

\* The goroutine that writes the row is alone.
LEMMA Alone ==
  ASSUME NEW t \in Tasks, Fine(t), NEW w, Writing(t, w)
  PROVE  /\ rows[t].status \in {"running", "canceled"} /\ ~Claimed(t)
         /\ \A u \in Goroutines(t) \ {w} : worker[u].pc \in {"idle", "finish"}
  BY DEF Fine, Writing, Goroutines, RunWrites, RetryWrites

LEMMA ClientTimed ==
  ASSUME PhaseInv, NEW t \in Tasks, Client(t), Fine(t)'
  PROVE  Timed(t)'
<1>0. /\ TypeOK /\ rows[t] \in Row /\ rows \in [Tasks -> Row] /\ Fine(t) /\ Timed(t)
      /\ worker \in [Workers -> WorkerRecord] /\ Sound(rows[t])
  BY DEF PhaseInv, WriterInv, LockInv, TypeOK, Timed
<1>1. CASE Prepare(t) \/ Enqueue(t) \/ AppServerEnqueue(t) \/ Resume(t)
  <2>1. /\ UNCHANGED <<worker, loop>> /\ rows[t].status \in {"absent", "queued", "awaiting_input"}
        /\ Becomes(rows'[t], rows[t], "queued")
        /\ rows'[t] \in {EnsurePreparedTask(rows[t]), AdmitQueuedTask(rows[t]), BeginLegacyResume(rows[t])}
    BY <1>0, <1>1, QueueStatus
       DEF Prepare, Enqueue, AppServerEnqueue, Resume, CanAdmit, CanBeginLegacyResume, memory
  <2>2. ~RunWrites(t)' /\ ~RetryWrites(t)' /\ ~Claimed(t)'
    BY <1>0, <2>1 DEF Fine, RunWrites, RetryWrites, Claimed
  <2>3. Quiet(rows[t], {"queue_wait"})
    BY <1>0, <2>1 DEF Timed, Rests, Quiet
  <2>4. Sound(rows'[t]) /\ Quiet(rows'[t], {"queue_wait"})
    BY <1>0, <2>1, <2>3, QueuePhases
  <2> QED
    BY <2>1, <2>2, <2>4, RestTimed DEF Rests, Becomes
<1>2. CASE \E turn \in Turns : AppServerStart(t, turn)
  <2>1. /\ UNCHANGED <<worker, loop>> /\ rows[t].status = "queued"
        /\ \E turn \in Turns : rows'[t] = StartAppServerTurn(rows[t], turn)
    BY <1>0, <1>2 DEF AppServerStart, memory
  <2>2. ~RunWrites(t)' /\ ~RetryWrites(t)' /\ ~Claimed(t)'
    BY <1>0, <2>1 DEF Fine, RunWrites, RetryWrites, Claimed
  <2>3. Quiet(rows[t], {"queue_wait"})
    BY <1>0, <2>1 DEF Timed
  <2>4. Sound(rows'[t]) /\ rows'[t].status \in {"queued", "running"}
    BY <1>0, <2>1, <2>3, ExecutionPhases, ExecutionStatus DEF Becomes
  <2>5. rows'[t].status = "queued" => Quiet(rows'[t], {"queue_wait"})
    <3>1. PICK turn \in Turns : rows'[t] = StartAppServerTurn(rows[t], turn)
      BY <2>1
    <3>2. CASE TurnAlreadyStarted(rows[t], turn)
      BY <2>3, <3>1, <3>2 DEF StartAppServerTurn
    <3>3. CASE ~TurnAlreadyStarted(rows[t], turn)
      <4> DEFINE r == OpenExecution(rows[t])
      <4>1. r \in Row
        BY <1>0, StartType
      <4>2. rows'[t] = [r EXCEPT !.status = "running", !.turn = turn,
                                 !.cphase = "agent_running", !.started = TRUE]
        BY <3>1, <3>3 DEF StartAppServerTurn
      <4> HIDE DEF r
      <4>3. rows'[t].status = "running"
        BY <4>1, <4>2 DEF Row
      <4> QED
        BY <4>3
    <3> QED
      BY <3>2, <3>3
  <2> QED
    BY <2>2, <2>4, <2>5, RestTimed DEF Rests
<1>3. CASE Cancel(t)
  <2>1. UNCHANGED <<worker, loop>> /\ rows'[t] = Closed(rows[t], "canceled", "other")
    BY <1>0, <1>3 DEF Cancel, CancelTask
  <2>2. /\ Sound(rows'[t]) /\ Quiet(rows'[t], {})
        /\ Closes(rows'[t], rows[t], PhaseKeys, "canceled")
    BY <1>0, <2>1, ClosedPhases
  <2>3. \A keys : Quiet(rows'[t], keys)
    BY <2>2 DEF Quiet
  <2>4. \A w \in Goroutines(t) : Holds(rows'[t], worker'[w])
    BY <1>0, <2>1, <2>2 DEF Timed, Holds, Closes, Validating, Committing, PhaseKeys
  <2> QED
    BY <2>1, <2>2, <2>3, <2>4 DEF Timed, Goroutines
<1>4. CASE RetryOutput(t)
  <2> DEFINE w == <<"retry", t>>
             x == [IdleWorker EXCEPT !.pc = "result", !.v = ValidationAttempt(rows[t])]
  <2>1. /\ rows[t].status = "failed" /\ CanBeginResultValidation(rows[t])
        /\ rows'[t] = ClaimOutputInvalidRetry(rows[t]) /\ UNCHANGED loop
        /\ worker' = [worker EXCEPT ![w] = x]
    BY <1>0, <1>4 DEF RetryOutput, CanClaimOutputInvalidRetry
  <2>2. Sound(rows'[t]) /\ Validating(rows'[t], ValidationAttempt(rows[t]))
    BY <1>0, <2>1, RetryPhases DEF Timed, Rests
  <2>3. x.pc = "result" /\ x.v = ValidationAttempt(rows[t])
    BY DEF IdleWorker
  <2>4. ~RunWrites(t) /\ ~Claimed(t)
    BY <1>0, <2>1 DEF Fine
  <2> HIDE DEF x
  <2>5. worker'[w] = x /\ worker'[<<"run", t>>] = worker[<<"run", t>>] /\ w \in Goroutines(t)
    BY <1>0, <2>1, WorkerNames DEF Goroutines
  <2>6. Holds(rows'[t], worker'[w])
    BY <2>2, <2>3, <2>5 DEF Holds, Validating
  <2>7. ~Executes(t)'
    BY <2>1, <2>4, <2>5 DEF Executes, RunWrites, Claimed
  <2>8. rows'[t].status \in {"running", "canceled"}
    BY <2>3, <2>5 DEF Fine, RetryWrites
  <2> QED
    BY <2>2, <2>4, <2>5, <2>6, <2>7, <2>8, WorkTimed DEF Goroutines, RunWrites
<1> QED
  BY <1>1, <1>2, <1>3, <1>4 DEF Client

\* The last write of a goroutine: a status that rests comes with closed phases.
LEMMA LeaveTimed ==
  ASSUME PhaseInv, NEW t \in Tasks, NEW w, Writing(t, w), Leave(w), UNCHANGED loop,
         rows' = rows \/ \E r : rows' = [rows EXCEPT ![t] = r],
         Sound(rows'[t]),
         rows'[t].status = rows[t].status \/ (Quiet(rows'[t], {}) /\ rows'[t].status # "queued")
  PROVE  Timed(t)'
<1>1. ~RunWrites(t)' /\ ~RetryWrites(t)' /\ ~Claimed(t)' /\ rows[t].status \in {"running", "canceled"}
  BY LeaveEnds, Alone DEF PhaseInv, WriterInv
<1> QED
  BY <1>1, RestTimed DEF Rests

LEMMA PersistFailurePhases ==
  ASSUME PhaseInv, NEW t \in Tasks, PersistFailure(t)
  PROVE  /\ rows' = rows \/ \E r : rows' = [rows EXCEPT ![t] = r]
         /\ Sound(rows'[t])
         /\ rows'[t].status = rows[t].status \/ (Quiet(rows'[t], {}) /\ rows'[t].status # "queued")
<1>0. rows \in [Tasks -> Row] /\ rows[t] \in Row /\ Sound(rows[t])
  BY DEF PhaseInv, WriterInv, LockInv, TypeOK, Timed
<1>1. CASE rows' = rows
  BY <1>0, <1>1
<1>2. CASE rows' = [rows EXCEPT ![t] = FailTask(@)]
  <2>1. rows'[t] = FailTask(rows[t]) /\ rows'[t].status = "failed"
    BY <1>0, <1>2, TerminalStatus DEF Becomes
  <2> QED
    BY <1>0, <1>2, <2>1, ClosedPhases DEF FailTask
<1> QED
  BY <1>1, <1>2 DEF PersistFailure

\* The result of an execution, or of a retry.
LEMMA PipelineTimed ==
  ASSUME PhaseInv, NEW t \in Tasks, NEW w \in Goroutines(t), Pipeline(w), Fine(t)'
  PROVE  Timed(t)'
<1>0. /\ TypeOK /\ rows \in [Tasks -> Row] /\ rows[t] \in Row /\ worker \in [Workers -> WorkerRecord]
      /\ w[2] = t /\ w \in Workers /\ Writing(t, w) /\ UNCHANGED loop
      /\ Sound(rows[t]) /\ Holds(rows[t], worker[w])
  BY WorkerNames
     DEF PhaseInv, WriterInv, LockInv, TypeOK, Timed, Goroutines, Writing, Pipeline,
         ResultFailed, ResultAccepted, InputsCurrent, InputsSuperseded, CommitAssets, WriteResult
<1>1. /\ rows[t].status \in {"running", "canceled"} /\ ~Claimed(t)
      /\ \A u \in Goroutines(t) \ {w} : worker[u].pc \in {"idle", "finish"}
  BY <1>0, Alone DEF PhaseInv, WriterInv
<1>2. ASSUME NEW x, worker' = [worker EXCEPT ![w] = x], x.pc \in {"inputs", "commit", "write"},
             Sound(rows'[t]), Becomes(rows'[t], rows[t], rows[t].status), Holds(rows'[t], x)
      PROVE  Timed(t)'
  <2>1. worker'[w] = x /\ \A u \in Goroutines(t) \ {w} : worker'[u] = worker[u]
    BY <1>0, <1>2, WorkerNames DEF Goroutines
  <2>2. ~Executes(t)'
    BY <1>0, <1>1, <1>2, <2>1 DEF Executes, Claimed, Goroutines
  <2> QED
    BY <1>1, <1>2, <2>1, <2>2, WorkTimed DEF Becomes
<1>3. CASE ResultFailed(w)
  <2>1. CASE PersistFailure(t)
    BY <1>0, <1>3, <2>1, PersistFailurePhases, LeaveTimed DEF ResultFailed
  <2>2. CASE ~PersistFailure(t)
    <3>1. PICK error \in {"output_invalid", "other"} :
             /\ CanWriteFailure(rows[t], worker[w].v, NoTurn)
             /\ rows' = [rows EXCEPT ![t] = WriteFailure(@, worker[w].v, error)]
      BY <1>0, <1>3, <2>2 DEF ResultFailed
    <3>2. Validating(rows[t], worker[w].v)
      BY <1>0, <1>3, <3>1 DEF ResultFailed, Holds, CanWriteFailure, CanFinishPhaseByID
    <3>3. rows'[t] = WriteFailure(rows[t], worker[w].v, error) /\ error \in Errors
      BY <1>0, <3>1 DEF Errors
    <3>4. Sound(rows'[t]) /\ Quiet(rows'[t], {}) /\ rows'[t].status = "failed"
      BY <1>0, <3>2, <3>3, ResultPhases, ResultStatus DEF Becomes
    <3> QED
      BY <1>0, <1>3, <3>1, <3>4, LeaveTimed DEF ResultFailed
  <2> QED
    BY <2>1, <2>2
<1>4. CASE ResultAccepted(w) \/ InputsCurrent(w)
  <2>1. PICK x : /\ worker' = [worker EXCEPT ![w] = x] /\ x.v = worker[w].v /\ x.pc \in {"inputs", "commit"}
                 /\ worker[w].pc \in {"result", "inputs"}
    <3>1. worker[w] \in WorkerRecord
      BY <1>0
    <3>2. CASE ResultAccepted(w)
      <4>1. PICK outcome : worker' = [worker EXCEPT ![w].pc = IF outcome = "completed" THEN "inputs" ELSE "commit",
                                                    ![w].outcome = outcome]
        BY <3>2 DEF ResultAccepted
      <4> DEFINE x == [worker[w] EXCEPT !.pc = IF outcome = "completed" THEN "inputs" ELSE "commit",
                                        !.outcome = outcome]
      <4>2. x.v = worker[w].v /\ x.pc \in {"inputs", "commit"}
        BY <3>1 DEF WorkerRecord
      <4>3. worker' = [worker EXCEPT ![w] = x] /\ worker[w].pc = "result"
        BY <1>0, <3>2, <4>1 DEF ResultAccepted
      <4> QED
        BY <4>2, <4>3
    <3>3. CASE InputsCurrent(w)
      <4> DEFINE x == [worker[w] EXCEPT !.pc = "commit"]
      <4>1. x.v = worker[w].v /\ x.pc = "commit"
        BY <3>1 DEF WorkerRecord
      <4>2. worker' = [worker EXCEPT ![w] = x] /\ worker[w].pc = "inputs"
        BY <1>0, <3>3 DEF InputsCurrent, Goto
      <4> QED
        BY <4>1, <4>2
    <3> QED
      BY <1>4, <3>2, <3>3
  <2>2. rows' = rows
    BY <1>4 DEF ResultAccepted, InputsCurrent
  <2> QED
    BY <1>0, <1>2, <2>1, <2>2 DEF Holds, Becomes
<1>5. CASE InputsSuperseded(w)
  BY <1>0, <1>5, PersistFailurePhases, LeaveTimed DEF InputsSuperseded
<1>6. CASE CommitAssets(w)
  <2>1. CASE CanBeginAssetCommit(rows[t], worker[w].v)
    <3>1. /\ rows'[t] = BeginAssetCommit(rows[t], worker[w].v) /\ worker[w].pc = "commit"
          /\ worker' = [worker EXCEPT ![w] = [worker[w] EXCEPT !.pc = "write"]]
      BY <1>0, <1>6, <2>1 DEF CommitAssets, Goto
    <3>2. Validating(rows[t], worker[w].v)
      BY <1>0, <2>1, <3>1 DEF Holds, CanBeginAssetCommit, CanFinishPhaseByID
    <3>3. Sound(rows'[t]) /\ Committing(rows'[t], worker[w].v)
      BY <1>0, <3>1, <3>2, CommitPhases
    <3> DEFINE x == [worker[w] EXCEPT !.pc = "write"]
    <3>4. x.pc = "write" /\ x.v = worker[w].v
      BY <1>0 DEF WorkerRecord
    <3>5. Becomes(rows'[t], rows[t], rows[t].status)
      BY <1>0, <3>1, ResultStatus
    <3>6. worker' = [worker EXCEPT ![w] = x]
      BY <3>1
    <3> HIDE DEF x
    <3>7. Holds(rows'[t], x)
      BY <3>3, <3>4 DEF Holds, Committing
    <3> QED
      BY <1>2, <3>3, <3>4, <3>5, <3>6, <3>7
  <2>2. CASE ~CanBeginAssetCommit(rows[t], worker[w].v)
    BY <1>0, <1>6, <2>2, PersistFailurePhases, LeaveTimed DEF CommitAssets
  <2> QED
    BY <2>1, <2>2
<1>7. CASE WriteResult(w)
  <2>1. CASE CanWriteSuccess(rows[t], worker[w].v, NoTurn)
    <3>1. rows' = [rows EXCEPT ![t] = WriteSuccess(@, worker[w].v, worker[w].outcome)]
      BY <1>0, <1>7, <2>1 DEF WriteResult
    <3>2. Committing(rows[t], worker[w].v)
      BY <1>0, <1>7, <2>1 DEF WriteResult, Holds, CanWriteSuccess, CanFinishPhaseByID
    <3>3. worker[w].outcome \in {"awaiting_input", "completed"}
      BY <1>0 DEF WorkerRecord, Outcomes
    <3>4. rows'[t] = WriteSuccess(rows[t], worker[w].v, worker[w].outcome)
      BY <1>0, <3>1
    <3>5. Sound(rows'[t]) /\ Quiet(rows'[t], {})
      BY <1>0, <3>2, <3>3, <3>4, ResultPhases
    <3>6. Becomes(rows'[t], rows[t], worker[w].outcome)
      BY <1>0, <3>4, ResultStatus
    <3>7. rows'[t].status # "queued"
      BY <3>3, <3>6 DEF Becomes
    <3> QED
      BY <1>0, <1>7, <3>1, <3>5, <3>7, LeaveTimed DEF WriteResult
  <2>2. CASE ~CanWriteSuccess(rows[t], worker[w].v, NoTurn)
    BY <1>0, <1>7, <2>2, PersistFailurePhases, LeaveTimed DEF WriteResult
  <2> QED
    BY <2>1, <2>2
<1> QED
  BY <1>3, <1>4, <1>5, <1>6, <1>7 DEF Pipeline

\* The goroutine of a run.
LEMMA RunnerTimed ==
  ASSUME PhaseInv, NEW t \in Tasks, Runner(t) \/ ReportSession(t), Fine(t)'
  PROVE  Timed(t)'
<1> DEFINE w == <<"run", t>>
<1>0. /\ TypeOK /\ rows \in [Tasks -> Row] /\ rows[t] \in Row /\ worker \in [Workers -> WorkerRecord]
      /\ w \in Goroutines(t) /\ w \in Workers /\ Sound(rows[t]) /\ Timed(t) /\ Fine(t)
  BY WorkerNames DEF PhaseInv, WriterInv, LockInv, TypeOK, Goroutines, Timed
<1>1. ASSUME NEW x, worker' = [worker EXCEPT ![w] = x], UNCHANGED loop, Writing(t, w), Sound(rows'[t]),
             rows'[t].status \in {"running", "canceled"},
             x.pc \in {"start", "exec", "validate"} => Quiet(rows'[t], {"codex_execution"}),
             Holds(rows'[t], x)
      PROVE  Timed(t)'
  <2>1. worker'[w] = x /\ \A u \in Goroutines(t) \ {w} : worker'[u] = worker[u]
    BY <1>0, <1>1, WorkerNames DEF Goroutines
  <2>2. Executes(t)' => Quiet(rows'[t], {"codex_execution"})
    BY <1>0, <1>1, <2>1, Alone DEF Executes, Claimed
  <2> QED
    BY <1>0, <1>1, <2>1, <2>2, Alone, WorkTimed
<1>2. CASE StartTask(t)
  <2>1. rows'[t] = Start(rows[t]) /\ rows'[t] \in Row /\ rows'[t].status = "running"
        /\ rows'[t].phases = rows[t].phases
    <3>1. Start(rows[t]).phases = rows[t].phases
      BY <1>0 DEF Start, Row
    <3> QED
      BY <1>0, <1>2, <3>1, StartType, ExecutionStatus DEF StartTask, Becomes
  <2>2. Sound(rows'[t]) /\ Quiet(rows'[t], {"codex_execution"})
    BY <1>0, <1>2, <2>1, SamePhases DEF StartTask, Timed, Executes
  <2> DEFINE x == [worker[w] EXCEPT !.pc = "exec"]
  <2>3. /\ x.pc = "exec" /\ worker' = [worker EXCEPT ![w] = x]
        /\ UNCHANGED loop /\ Writing(t, w)
    BY <1>0, <1>2 DEF StartTask, Goto, WorkerRecord, Writing
  <2> HIDE DEF x
  <2> QED
    BY <1>1, <2>1, <2>2, <2>3 DEF Holds
<1>3. CASE StartRefused(t) \/ RunFails(t) \/ ValidateRefused(t)
  <2>1. Writing(t, w) /\ UNCHANGED loop /\ Leave(w) /\ (rows' = rows \/ PersistFailure(t))
    BY <1>0, <1>3 DEF StartRefused, RunFails, ValidateRefused, Writing
  <2> QED
    BY <1>0, <2>1, PersistFailurePhases, LeaveTimed
<1>4. ASSUME worker[w].pc = "exec"
      PROVE  Quiet(rows[t], {"codex_execution"}) /\ Writing(t, w)
  BY <1>0, <1>4 DEF Timed, Executes, Writing
<1>5. ASSUME NEW state \in {"failed", "canceled", "interrupted"}, worker[w].pc = "exec"
      PROVE  /\ FinishExecution(rows[t], state) \in Row
             /\ Sound(FinishExecution(rows[t], state)) /\ Quiet(FinishExecution(rows[t], state), {})
             /\ FinishExecution(rows[t], state).status = rows[t].status
  <2>1. state \in PhaseStates
    BY <1>5 DEF PhaseStates
  <2> QED
    BY <1>0, <1>4, <1>5, <2>1, FinishExecutionPhases, FinishExecutionType, ExecutionStatus DEF Becomes
<1>6. CASE ExecCanceled(t)
  <2>1. /\ UNCHANGED loop /\ Leave(w) /\ worker[w].pc = "exec"
        /\ rows' = [rows EXCEPT ![t] = FinishExecution(rows[t], "canceled")]
    BY <1>0, <1>6 DEF ExecCanceled
  <2>2. rows'[t] = FinishExecution(rows[t], "canceled")
    BY <1>0, <2>1
  <2> QED
    BY <1>4, <1>5, <2>1, <2>2, LeaveTimed
<1>7. CASE ExecFails(t)
  <2> DEFINE x == [worker[w] EXCEPT !.pc = "fail"]
  <2>1. PICK state \in {"failed", "interrupted"} : rows' = [rows EXCEPT ![t] = FinishExecution(@, state)]
    BY <1>7 DEF ExecFails
  <2>2. /\ x.pc = "fail" /\ worker' = [worker EXCEPT ![w] = x]
        /\ UNCHANGED loop /\ worker[w].pc = "exec"
    BY <1>0, <1>7 DEF ExecFails, Goto, WorkerRecord
  <2>3. rows'[t] = FinishExecution(rows[t], state)
    BY <1>0, <2>1
  <2>4. Sound(rows'[t]) /\ rows'[t].status = rows[t].status
    BY <1>5, <2>2, <2>3
  <2> HIDE DEF x
  <2> QED
    BY <1>0, <1>1, <1>4, <2>2, <2>4, Alone DEF Holds
<1>8. CASE ExecEnds(t)
  <2> DEFINE x == [worker[w] EXCEPT !.pc = "validate"]
  <2>1. /\ x.pc = "validate" /\ worker' = [worker EXCEPT ![w] = x] /\ rows' = rows
        /\ UNCHANGED loop /\ worker[w].pc = "exec"
    BY <1>0, <1>8 DEF ExecEnds, Goto, WorkerRecord
  <2> HIDE DEF x
  <2> QED
    BY <1>0, <1>1, <1>4, <2>1, Alone DEF Holds
<1>9. CASE Validate(t)
  <2> DEFINE x == [worker[w] EXCEPT !.pc = "result", !.v = ValidationAttempt(rows[t])]
  <2>1. /\ x.pc = "result" /\ x.v = ValidationAttempt(rows[t]) /\ worker' = [worker EXCEPT ![w] = x]
        /\ UNCHANGED loop /\ Writing(t, w) /\ CanBeginResultValidation(rows[t])
        /\ rows'[t] = BeginResultValidation(rows[t])
    BY <1>0, <1>9 DEF Validate, WorkerRecord, Writing
  <2>2. Quiet(rows[t], {"codex_execution"})
    BY <1>0, <1>9 DEF Validate, Timed, Executes
  <2>3. Sound(rows'[t]) /\ Validating(rows'[t], ValidationAttempt(rows[t]))
    BY <1>0, <2>1, <2>2, ValidationPhases
  <2>4. rows'[t].status \in {"running", "canceled"}
    BY <1>0, <2>1, ResultStatus, Alone DEF Becomes
  <2> HIDE DEF x
  <2>5. Holds(rows'[t], x)
    BY <2>1, <2>3 DEF Holds, Validating
  <2> QED
    BY <1>1, <2>1, <2>3, <2>4, <2>5
<1>10. CASE Pipeline(w)
  BY <1>0, <1>10, PipelineTimed
<1>11. CASE FinishRun(t)
  <2>1. rows' = rows /\ UNCHANGED loop /\ worker' = [worker EXCEPT ![w] = IdleWorker] /\ worker[w].pc = "finish"
    BY <1>11 DEF FinishRun
  <2>2. worker'[w] = IdleWorker /\ \A u \in Goroutines(t) \ {w} : worker'[u] = worker[u]
    BY <1>0, <2>1, WorkerNames DEF Goroutines
  <2>3. Executes(t)' => Executes(t)
    BY <2>1, <2>2 DEF Executes, Claimed, IdleWorker
  <2>4. \A u \in Goroutines(t) : Holds(rows'[t], worker'[u])
    BY <1>0, <2>1, <2>2 DEF Timed, Holds, IdleWorker
  <2> QED
    BY <1>0, <2>1, <2>3, <2>4 DEF Timed, Goroutines
<1>12. CASE ReportSession(t)
  <2>1. rows'[t] = SetSession(rows[t]) /\ UNCHANGED <<worker, loop>>
    BY <1>0, <1>12 DEF ReportSession, memory
  <2>2. /\ rows'[t] \in Row /\ rows'[t].phases = rows[t].phases /\ rows'[t].status = rows[t].status
    BY <1>0, <2>1, StartType DEF SetSession, Row
  <2>3. Sound(rows'[t]) /\ \A keys : Quiet(rows[t], keys) => Quiet(rows'[t], keys)
    BY <1>0, <2>2, SamePhases DEF Sound, Single, Committed, Quiet
  <2>4. \A u \in Goroutines(t) : Holds(rows'[t], worker'[u])
    BY <1>0, <2>1, <2>2 DEF Timed, Holds, Validating, Committing
  <2> QED
    BY <1>0, <2>1, <2>2, <2>3, <2>4 DEF Timed, Rests, Executes, Claimed, Goroutines
<1> QED
  BY <1>2, <1>3, <1>6, <1>7, <1>8, <1>9, <1>10, <1>11, <1>12 DEF Runner

\* The dispatcher, when it gives up, claims or starts a task.
LEMMA DispatcherTimed ==
  ASSUME PhaseInv, NEW t \in Tasks, t = loop.cur, Abandon \/ Claim \/ Register, Fine(t)'
  PROVE  Timed(t)'
<1>0. /\ TypeOK /\ rows[t] \in Row /\ rows \in [Tasks -> Row] /\ Fine(t) /\ Timed(t) /\ NoTask \notin Tasks
      /\ worker \in [Workers -> WorkerRecord] /\ Sound(rows[t]) /\ loop \in LoopRecord /\ ~Live(t)
  BY TasksAssumption DEF PhaseInv, WriterInv, LockInv, DispatcherHoldsLock, TypeOK, Timed
<1>1. CASE Abandon
  <2>1. /\ UNCHANGED worker /\ loop'.pc = "release"
        /\ rows' = IF CanFailQueuedTask(rows[t]) THEN [rows EXCEPT ![t] = FailQueuedTask(@)] ELSE rows
    BY <1>0, <1>1 DEF Abandon, LoopRecord
  <2>2. CASE CanFailQueuedTask(rows[t])
    <3>1. rows[t].status = "queued" /\ rows'[t] = FailQueuedTask(rows[t])
      BY <1>0, <2>1, <2>2 DEF CanFailQueuedTask
    <3>2. Sound(rows'[t]) /\ Quiet(rows'[t], {})
      BY <1>0, <3>1, QueuePhases DEF Timed
    <3>3. rows'[t].status = "failed"
      BY <1>0, <3>1, QueueStatus DEF Becomes
    <3>4. ~RunWrites(t)' /\ ~RetryWrites(t)' /\ ~Claimed(t)'
      BY <1>0, <2>1, <3>1 DEF Fine, RunWrites, RetryWrites, Claimed
    <3> QED
      BY <3>2, <3>3, <3>4, RestTimed
  <2>3. CASE ~CanFailQueuedTask(rows[t])
    <3>1. rows' = rows /\ (Executes(t)' => Executes(t))
      BY <2>1, <2>3 DEF Executes, Claimed
    <3> QED
      BY <1>0, <2>1, <3>1 DEF Timed, Goroutines
  <2> QED
    BY <2>2, <2>3
<1>2. CASE Claim
  <2>1. /\ UNCHANGED worker /\ rows'[t] = ClaimLegacyStart(rows[t]) /\ rows[t].status = "queued"
    BY <1>0, <1>2 DEF Claim, CanClaimLegacyStart
  <2>2. Sound(rows'[t]) /\ Quiet(rows'[t], {"codex_execution"})
    BY <1>0, <2>1, ExecutionPhases DEF Timed
  <2>3. rows'[t].status = "running"
    BY <1>0, <2>1, ExecutionStatus DEF Becomes
  <2>4. \A w \in Goroutines(t) : worker'[w].pc \in {"idle", "finish"}
    BY <1>0, <2>1 DEF Goroutines, Fine, RunWrites, RetryWrites
  <2> QED
    BY <2>2, <2>3, <2>4 DEF Timed, Rests, Holds, Goroutines
<1>3. CASE Register
  <2>1. /\ rows' = rows /\ Claimed(t)
        /\ worker' = [worker EXCEPT ![<<"run", t>>] = [IdleWorker EXCEPT !.pc = "start"]]
    BY <1>0, <1>3 DEF Register, Claimed
  <2>2. Quiet(rows'[t], {"codex_execution"}) /\ rows'[t].status \in {"running", "canceled"}
    BY <1>0, <2>1 DEF Timed, Executes, Fine
  <2>3. \A w \in Goroutines(t) : worker'[w].pc \in {"idle", "start"}
    BY <1>0, <2>1, WorkerNames DEF Goroutines, Fine, RetryWrites, Live, IdleWorker
  <2> QED
    BY ZenonT(60), <1>0, <2>1, <2>2, <2>3 DEF Timed, Rests, Holds, Goroutines
<1> QED
  BY <1>1, <1>2, <1>3

LEMMA RestartTimed ==
  ASSUME PhaseInv, Restart, NEW t \in Tasks
  PROVE  Timed(t)'
<1>0. rows[t] \in Row /\ Fine(t) /\ Timed(t) /\ Sound(rows[t]) /\ rows'[t] = InterruptInFlight(rows[t], FALSE, FALSE)
  BY DEF PhaseInv, WriterInv, LockInv, TypeOK, Timed, Restart
<1>1. ~RunWrites(t)' /\ ~RetryWrites(t)' /\ ~Claimed(t)'
  BY WorkerNames DEF Restart, RunWrites, RetryWrites, Claimed, IdleWorker, FreshLoop
<1>2. CASE rows[t].status = "running"
  <2>1. rows'[t] = Closed(rows[t], "interrupted", "other")
    BY <1>0, <1>2 DEF InterruptInFlight
  <2>2. Sound(rows'[t]) /\ Quiet(rows'[t], {})
    BY <1>0, <2>1, ClosedPhases
  <2>3. rows'[t].status = "interrupted"
    BY <1>2, RestartServes DEF PhaseInv
  <2> QED
    BY <1>1, <2>2, <2>3, RestTimed
<1>3. CASE rows[t].status # "running"
  <2>1. rows'[t] = rows[t]
    BY <1>0, <1>3 DEF InterruptInFlight, Fine
  <2> QED
    BY <1>0, <1>1, <2>1, RestTimed DEF Timed
<1> QED
  BY <1>2, <1>3

LEMMA PhaseNext == PhaseInv /\ [Next]_vars => PhaseInv'
<1> SUFFICES ASSUME PhaseInv, [Next]_vars PROVE \A t \in Tasks : Timed(t)'
  BY WriterNext DEF PhaseInv
<1>0. WriterInv /\ \A t \in Tasks : Fine(t)'
  BY WriterNext DEF PhaseInv, WriterInv
<1>1. ASSUME NEW t \in Tasks, Client(t) \/ Runner(t) \/ ReportSession(t) \/ Pipeline(<<"retry", t>>)
      PROVE  \A u \in Tasks : Timed(u)'
  <2>1. About(t)
    BY <1>0, <1>1, ClientServes, RunnerServes, PipelineServes DEF Goroutines, Serves
  <2>2. Timed(t)'
    BY <1>0, <1>1, ClientTimed, RunnerTimed, PipelineTimed DEF Goroutines
  <2> QED
    BY <2>1, <2>2, TimedFrame
<1>2. ASSUME Abandon \/ Claim \/ Register
      PROVE  \A u \in Tasks : Timed(u)'
  <2>1. loop.cur \in Tasks /\ About(loop.cur)
    BY <1>0, <1>2, DispatcherServes DEF Serves
  <2>2. \A t \in Tasks : t = loop.cur => Timed(t)'
    BY <1>0, <1>2, DispatcherTimed
  <2>3. PICK t \in Tasks : t = loop.cur
    BY <2>1
  <2> QED
    BY <2>1, <2>2, <2>3, TimedFrame
<1>3. ASSUME UNCHANGED <<rows, worker>>, loop'.pc # "register" \/ UNCHANGED loop
      PROVE  \A u \in Tasks : Timed(u)'
  <2>1. \A u \in Tasks : Executes(u)' => Executes(u)
    BY <1>3 DEF Executes, Claimed
  <2> QED
    BY <1>3, <2>1 DEF PhaseInv, Timed, Goroutines
<1> QED
  BY <1>0, <1>1, <1>2, <1>3, StepKinds, RestartTimed

-----------------------------------------------------------------------------
(* What follows                                                            *)

\* Across retries, resumes, cancellations, late results and restarts, at most
\* one phase of a task is open (OnePhaseOpen), so that the durations the
\* repository computes never count a moment twice.
THEOREM PhasesAreDisjoint == Spec => []OnePhaseOpen
<1>1. ASSUME PhaseInv PROVE OnePhaseOpen
  BY <1>1 DEF PhaseInv, Timed, Sound, Single, OnePhaseOpen, Open
<1> QED
  BY <1>1, PhaseInit, PhaseNext, PTL DEF Spec

\* An attempt whose assets were committed, or begun to be, passed validation
\* (CommitFollowsValidation): no path commits what it has not validated.
THEOREM CommitIsValidated == Spec => []CommitFollowsValidation
<1>1. ASSUME PhaseInv PROVE CommitFollowsValidation
  BY <1>1 DEF PhaseInv, Timed, Sound, Committed, CommitFollowsValidation
<1> QED
  BY <1>1, PhaseInit, PhaseNext, PTL DEF Spec

\* As long as nobody cancels, a finished task has no phase whose clock runs
\* (FinishedTasksAreTimed).  The hypothesis is needed: a run that has not yet
\* noticed its cancellation opens a validation of the canceled task.
THEOREM FinishedIsTimed == "cancel" \notin Operations => (Spec => []FinishedTasksAreTimed)
<1> SUFFICES ASSUME "cancel" \notin Operations PROVE Spec => []FinishedTasksAreTimed
  OBVIOUS
<1>1. ASSUME PhaseInv PROVE FinishedTasksAreTimed
  <2>1. ASSUME NEW t \in Tasks, rows[t].status \in Finished, NEW k \in PhaseKeys PROVE Open(rows[t], k) = {}
    <3>1. Rests(rows[t])
      BY <1>1, <2>1 DEF PhaseInv, WriterInv, Fine, Rests, Finished
    <3>2. Quiet(rows[t], {})
      BY <1>1, <3>1 DEF PhaseInv, Timed
    <3> QED
      BY <3>2 DEF Quiet, Open
  <2> QED
    BY <2>1 DEF FinishedTasksAreTimed
<1> QED
  BY <1>1, PhaseInit, PhaseNext, PTL DEF Spec

\* The writes of a result, on a canceled row whose phases are closed.
LEMMA PipelineRefused ==
  ASSUME PhaseInv, NEW t \in Tasks, NEW w \in Goroutines(t), Pipeline(w),
         rows[t].status = "canceled", Quiet(rows[t], {})
  PROVE  rows'[t] = rows[t]
<1>1. /\ w[2] = t /\ Holds(rows[t], worker[w]) /\ ~CanFailTask(rows[t])
      /\ {"result_validation", "asset_commit"} \subseteq PhaseKeys
  BY WorkerNames DEF PhaseInv, Timed, Goroutines, CanFailTask, Finished, PhaseKeys
<1>2. ~Validating(rows[t], worker[w].v) /\ ~Committing(rows[t], worker[w].v)
  BY <1>1 DEF Quiet, Validating, Committing
<1> QED
  BY <1>1, <1>2
     DEF Pipeline, ResultFailed, ResultAccepted, InputsCurrent, InputsSuperseded, CommitAssets, WriteResult,
         PersistFailure, Holds, CanWriteFailure, CanBeginAssetCommit, CanWriteSuccess, CanFinishPhaseByID

\* What the result of a goroutine may make of a status.
LEMMA PipelineStatus ==
  ASSUME WriterInv, NEW t \in Tasks, NEW w \in Goroutines(t), Pipeline(w)
  PROVE  rows'[t].status \in {rows[t].status, "failed", "completed", "awaiting_input"}
<1>0. /\ TypeOK /\ rows \in [Tasks -> Row] /\ rows[t] \in Row /\ worker \in [Workers -> WorkerRecord]
      /\ w[2] = t /\ w \in Workers
  BY WorkerNames DEF WriterInv, LockInv, TypeOK, Goroutines
<1>1. CASE rows' = rows \/ PersistFailure(t)
  BY <1>0, <1>1, PersistFailureStatus
<1>2. ASSUME NEW error, rows' = [rows EXCEPT ![t] = WriteFailure(@, worker[w].v, error)]
      PROVE  rows'[t].status = "failed"
  <2>1. Becomes(rows'[t], rows[t], "failed")
    BY <1>0, <1>2, ResultStatus
  <2> QED
    BY <2>1 DEF Becomes
<1>3. CASE rows' = [rows EXCEPT ![t] = BeginAssetCommit(@, worker[w].v)]
  BY <1>0, <1>3, ResultStatus DEF Becomes
<1>4. CASE rows' = [rows EXCEPT ![t] = WriteSuccess(@, worker[w].v, worker[w].outcome)]
  <2>1. worker[w].outcome \in {"awaiting_input", "completed"}
    BY <1>0 DEF WorkerRecord, Outcomes
  <2>2. Becomes(rows'[t], rows[t], worker[w].outcome)
    BY <1>0, <1>4, ResultStatus
  <2> QED
    BY <2>1, <2>2 DEF Becomes
<1> QED
  BY <1>0, <1>1, <1>2, <1>3, <1>4
     DEF Pipeline, ResultFailed, ResultAccepted, InputsCurrent, InputsSuperseded, CommitAssets, WriteResult

\* The output of a canceled task is not retried with an open phase: a retry
\* opens its phases in a running row, and the cancellation closes them all.
RetryQuiet(t) == RetryWrites(t) /\ rows[t].status = "canceled" => Quiet(rows[t], {})
CancelInv == PhaseInv /\ \A t \in Tasks : RetryQuiet(t)

LEMMA RunnerKeepsRetry ==
  ASSUME TypeOK, NEW t \in Tasks, Runner(t)
  PROVE  worker'[<<"retry", t>>] = worker[<<"retry", t>>]
<1>1. <<"retry", t>> # <<"run", t>> /\ <<"retry", t>> \in Workers /\ worker \in [Workers -> WorkerRecord]
  BY WorkerNames DEF TypeOK
<1>2. worker' = worker \/ \E x : worker' = [worker EXCEPT ![<<"run", t>>] = x]
  <2>1. CASE Pipeline(<<"run", t>>)
    BY <2>1 DEF Pipeline, ResultFailed, ResultAccepted, InputsCurrent, InputsSuperseded,
                CommitAssets, WriteResult, Goto, Leave
  <2>2. CASE ~Pipeline(<<"run", t>>)
    BY <2>2 DEF Runner, StartTask, StartRefused, ExecCanceled, ExecFails, RunFails, ExecEnds, Validate,
                ValidateRefused, FinishRun, Goto, Leave
  <2> QED
    BY <2>1, <2>2
<1> QED
  BY <1>1, <1>2

LEMMA RetryStaysQuiet ==
  ASSUME CancelInv, [Next]_vars, NEW t \in Tasks,
         Client(t) \/ Runner(t) \/ ReportSession(t) \/ Pipeline(<<"retry", t>>)
  PROVE  RetryQuiet(t)'
<1>0. /\ WriterInv /\ PhaseInv /\ TypeOK /\ rows \in [Tasks -> Row] /\ rows[t] \in Row
      /\ worker \in [Workers -> WorkerRecord] /\ Fine(t) /\ Sound(rows[t])
  BY DEF CancelInv, PhaseInv, WriterInv, LockInv, TypeOK, Timed
<1>1. CASE Prepare(t) \/ Enqueue(t) \/ AppServerEnqueue(t) \/ Resume(t)
  <2>1. Becomes(rows'[t], rows[t], "queued")
    BY <1>0, <1>1, QueueStatus DEF Prepare, Enqueue, AppServerEnqueue, Resume
  <2> QED
    BY <2>1 DEF Becomes, RetryQuiet
<1>2. CASE \E turn \in Turns : AppServerStart(t, turn)
  <2>1. Becomes(rows'[t], rows[t], rows[t].status) \/ Becomes(rows'[t], rows[t], "running")
    BY <1>0, <1>2, ExecutionStatus DEF AppServerStart
  <2> QED
    BY <1>2, <2>1 DEF Becomes, RetryQuiet, AppServerStart
<1>3. CASE Cancel(t)
  <2>1. rows'[t] = CancelTask(rows[t])
    BY <1>0, <1>3 DEF Cancel
  <2> QED
    BY <1>0, <2>1, ClosedPhases DEF CancelTask, RetryQuiet
<1>4. CASE RetryOutput(t)
  <2>1. rows[t].transport = "legacy_exec" /\ rows'[t] = ClaimOutputInvalidRetry(rows[t])
    BY <1>0, <1>4 DEF RetryOutput, Fine, TransportOf
  <2> QED
    BY <1>0, <2>1, ResultStatus DEF Becomes, RetryQuiet
<1>5. ASSUME RetryWrites(t)', Runner(t) PROVE rows' = rows
  <2>1. RetryWrites(t)
    BY <1>0, <1>5, RunnerKeepsRetry DEF RetryWrites
  <2>2. ~RunWrites(t)
    BY <1>0, <2>1 DEF Fine
  <2> QED
    BY <1>5, <2>2
       DEF Runner, StartTask, StartRefused, ExecCanceled, ExecFails, RunFails, ExecEnds, Validate, ValidateRefused,
           Pipeline, ResultFailed, ResultAccepted, InputsCurrent, InputsSuperseded, CommitAssets, WriteResult,
           FinishRun, RunWrites
<1>6. CASE Runner(t)
  <2>1. SUFFICES ASSUME RetryWrites(t)' PROVE RetryQuiet(t)'
    BY DEF RetryQuiet
  <2>2. rows' = rows /\ RetryWrites(t)
    BY <1>0, <1>5, <1>6, <2>1, RunnerKeepsRetry DEF RetryWrites
  <2> QED
    BY <2>2 DEF CancelInv, RetryQuiet
<1>7. CASE ReportSession(t)
  <2>1. rows'[t] = SetSession(rows[t]) /\ UNCHANGED worker
    BY <1>0, <1>7 DEF ReportSession, memory
  <2>2. rows'[t].phases = rows[t].phases /\ rows'[t].status = rows[t].status
    BY <1>0, <2>1 DEF SetSession, Row
  <2> QED
    BY <2>1, <2>2 DEF CancelInv, RetryQuiet, RetryWrites, Quiet
<1>8. CASE Pipeline(<<"retry", t>>)
  <2>1. RetryWrites(t)
    BY <1>8 DEF RetryWrites, Pipeline, ResultFailed, ResultAccepted, InputsCurrent, InputsSuperseded,
                CommitAssets, WriteResult
  <2>2. rows'[t].status = "canceled" => rows[t].status = "canceled"
    BY <1>0, <1>8, PipelineStatus DEF Goroutines
  <2>3. rows[t].status = "canceled" => rows'[t] = rows[t]
    BY <1>0, <1>8, <2>1, PipelineRefused DEF Goroutines, CancelInv, RetryQuiet
  <2> QED
    BY <2>1, <2>2, <2>3 DEF CancelInv, RetryQuiet
<1> QED
  BY <1>1, <1>2, <1>3, <1>4, <1>6, <1>7, <1>8 DEF Client

LEMMA CancelNext == CancelInv /\ [Next]_vars => CancelInv'
<1> SUFFICES ASSUME CancelInv, [Next]_vars PROVE \A t \in Tasks : RetryQuiet(t)'
  BY PhaseNext DEF CancelInv
<1>0. WriterInv /\ PhaseInv /\ \A t \in Tasks : Fine(t) /\ Fine(t)'
  BY WriterNext DEF CancelInv, PhaseInv, WriterInv
<1>1. ASSUME NEW t \in Tasks, About(t), RetryQuiet(t)' PROVE \A u \in Tasks : RetryQuiet(u)'
  BY <1>1 DEF CancelInv, RetryQuiet, RetryWrites, About
<1>2. ASSUME NEW t \in Tasks, Client(t) \/ Runner(t) \/ ReportSession(t) \/ Pipeline(<<"retry", t>>)
      PROVE  \A u \in Tasks : RetryQuiet(u)'
  <2>1. About(t)
    BY <1>0, <1>2, ClientServes, RunnerServes, PipelineServes DEF Goroutines, Serves
  <2> QED
    BY <1>1, <1>2, <2>1, RetryStaysQuiet
<1>3. ASSUME Abandon \/ Claim \/ Register PROVE \A u \in Tasks : RetryQuiet(u)'
  <2>1. PICK t \in Tasks : t = loop.cur /\ About(t)
    BY <1>0, <1>3, DispatcherServes DEF Serves
  <2>2. RetryQuiet(t)'
    <3>1. CASE Register
      <4>1. RetryWrites(t)' => RetryWrites(t)
        BY <1>0, <2>1, <3>1, WorkerNames DEF Register, RetryWrites, WriterInv, LockInv, TypeOK
      <4> QED
        BY <3>1, <4>1 DEF Register, CancelInv, RetryQuiet
    <3>2. CASE Claim
      <4>1. Becomes(rows'[t], rows[t], "running")
        BY <1>0, <2>1, <3>2, ExecutionStatus DEF Claim, WriterInv, LockInv, TypeOK
      <4> QED
        BY <4>1 DEF Becomes, RetryQuiet
    <3>3. CASE Abandon
      <4>1. rows'[t] = rows[t] \/ rows'[t] = FailQueuedTask(rows[t])
        BY <1>0, <2>1, <3>3 DEF Abandon, WriterInv, LockInv, TypeOK
      <4>2. rows[t] \in Row /\ UNCHANGED worker
        BY <1>0, <3>3 DEF Abandon, WriterInv, LockInv, TypeOK
      <4>3. rows'[t] = rows[t] \/ rows'[t].status = "failed"
        BY <4>1, <4>2, QueueStatus DEF Becomes
      <4> QED
        BY <4>2, <4>3 DEF CancelInv, RetryQuiet, RetryWrites
    <3> QED
      BY <1>3, <3>1, <3>2, <3>3
  <2> QED
    BY <1>1, <2>1, <2>2
<1>4. ASSUME UNCHANGED <<rows, worker>> PROVE \A u \in Tasks : RetryQuiet(u)'
  BY <1>4 DEF CancelInv, RetryQuiet, RetryWrites
<1>5. ASSUME Restart PROVE \A u \in Tasks : RetryQuiet(u)'
  BY <1>5, WorkerNames DEF Restart, RetryQuiet, RetryWrites, IdleWorker
<1> QED
  BY <1>0, <1>2, <1>3, <1>4, <1>5, StepKinds

\* A result pipeline whose phase is closed leaves a canceled row canceled.
LEMMA PipelineOvertaken ==
  ASSUME CancelInv, NEW t \in Tasks, NEW w \in Goroutines(t), Pipeline(w), rows[t].status = "canceled",
         w = <<"run", t>> => ~Overtakes(t)
  PROVE  rows'[t].status = "canceled"
<1>0. /\ WriterInv /\ PhaseInv /\ TypeOK /\ rows \in [Tasks -> Row] /\ rows[t] \in Row /\ w \in Workers
      /\ w[2] = t /\ Holds(rows[t], worker[w]) /\ ~CanFailTask(rows[t])
  BY WorkerNames DEF CancelInv, PhaseInv, WriterInv, LockInv, TypeOK, Timed, Goroutines, CanFailTask, Finished
<1>1. CASE w = <<"retry", t>>
  <2>1. RetryWrites(t)
    BY <1>1 DEF RetryWrites, Pipeline, ResultFailed, ResultAccepted, InputsCurrent, InputsSuperseded,
                CommitAssets, WriteResult
  <2> QED
    BY <1>0, <2>1, PipelineRefused DEF CancelInv, RetryQuiet
<1>2. CASE w = <<"run", t>>
  <2>1. /\ worker[w].pc = "result" => rows[t].phases["result_validation"][worker[w].v] = "canceled"
        /\ worker[w].pc = "write" => rows[t].phases["asset_commit"][worker[w].v] = "canceled"
    BY <1>0, <1>2 DEF Overtakes, Holds, Validating, Committing
  <2>2. CASE ResultFailed(w) \/ WriteResult(w)
    BY <1>0, <2>1, <2>2
       DEF ResultFailed, WriteResult, CanWriteFailure, CanWriteSuccess, CanFinishPhaseByID, PersistFailure
  <2>3. CASE CommitAssets(w)
    <3>1. rows' = rows \/ rows' = [rows EXCEPT ![t] = BeginAssetCommit(@, worker[w].v)]
      BY <1>0, <2>3 DEF CommitAssets, PersistFailure
    <3> QED
      BY <1>0, <3>1, ResultStatus DEF Becomes
  <2>4. CASE ResultAccepted(w) \/ InputsCurrent(w) \/ InputsSuperseded(w)
    BY <1>0, <2>4 DEF ResultAccepted, InputsCurrent, InputsSuperseded, PersistFailure
  <2> QED
    BY <2>2, <2>3, <2>4 DEF Pipeline
<1> QED
  BY <1>1, <1>2 DEF Goroutines

\* A run that does not overtake the cancellation leaves the row canceled.
LEMMA RunnerOvertaken ==
  ASSUME CancelInv, NEW t \in Tasks, Runner(t) \/ ReportSession(t), rows[t].status = "canceled", ~Overtakes(t)
  PROVE  rows'[t].status = "canceled"
<1>0. /\ rows \in [Tasks -> Row] /\ rows[t] \in Row /\ ~CanFailTask(rows[t])
      /\ {"failed", "canceled", "interrupted"} \subseteq PhaseStates
  BY DEF CancelInv, PhaseInv, WriterInv, LockInv, TypeOK, CanFailTask, Finished, PhaseStates
<1>1. ~StartTask(t)
  BY DEF StartTask, Overtakes
<1>2. CASE StartRefused(t) \/ RunFails(t) \/ ExecEnds(t) \/ ValidateRefused(t) \/ FinishRun(t)
  BY <1>0, <1>2 DEF StartRefused, RunFails, ExecEnds, ValidateRefused, FinishRun, PersistFailure
<1>3. CASE ExecCanceled(t) \/ ExecFails(t)
  <2>1. PICK state \in {"failed", "canceled", "interrupted"} :
          rows' = [rows EXCEPT ![t] = FinishExecution(@, state)]
    BY <1>3 DEF ExecCanceled, ExecFails
  <2> QED
    BY <1>0, <2>1, ExecutionStatus DEF Becomes
<1>4. CASE Validate(t)
  BY <1>0, <1>4, ResultStatus DEF Validate, Becomes
<1>5. CASE ReportSession(t)
  BY <1>0, <1>5, ExecutionStatus DEF ReportSession, Becomes
<1>6. CASE Pipeline(<<"run", t>>)
  BY <1>6, PipelineOvertaken DEF Goroutines
<1> QED
  BY <1>1, <1>2, <1>3, <1>4, <1>5, <1>6 DEF Runner

\* Whatever the goroutines, the retries and the restarts do, a canceled task
\* stays canceled (KeepsCanceled), apart from the two ways to overtake a
\* cancellation that the code leaves open: although no write of a result asks
\* for the status of the task.
THEOREM CancellationStands == Spec => CancelWins
<1>1. ASSUME CancelInv, [Next]_vars, NEW t \in Tasks, rows[t].status = "canceled", ~Overtakes(t)
      PROVE  rows'[t].status = "canceled"
  <2>0. WriterInv /\ Fine(t)
    BY <1>1 DEF CancelInv, PhaseInv, WriterInv
  <2>1. ASSUME NEW u \in Tasks, u # t, About(u) PROVE rows'[t].status = "canceled"
    BY <1>1, <2>1 DEF About
  <2>2. ASSUME NEW u \in Tasks, Client(u) \/ Runner(u) \/ ReportSession(u) \/ Pipeline(<<"retry", u>>)
        PROVE  rows'[t].status = "canceled"
    <3>1. About(u)
      BY <2>0, <2>2, ClientServes, RunnerServes, PipelineServes DEF Goroutines, Serves
    <3>2. CASE u = t
      <4>1. ~Client(t)
        BY <1>1 DEF Client, Prepare, Enqueue, AppServerEnqueue, AppServerStart, Resume, Cancel, RetryOutput,
                    CanAdmit, CanBeginLegacyResume, CanCancelTask, CanClaimOutputInvalidRetry, Finished
      <4>2. <<"retry", t>> # <<"run", t>>
        OBVIOUS
      <4> QED
        BY <1>1, <2>2, <3>2, <4>1, <4>2, RunnerOvertaken, PipelineOvertaken DEF Goroutines
    <3> QED
      BY <2>1, <3>1, <3>2
  <2>3. ASSUME Abandon \/ Claim \/ Register PROVE rows'[t].status = "canceled"
    <3>1. loop.cur \in Tasks /\ About(loop.cur)
      BY <2>0, <2>3, DispatcherServes DEF Serves
    <3>2. CASE loop.cur = t
      BY <1>1, <2>3, <3>2 DEF Abandon, Claim, Register, CanFailQueuedTask, CanClaimLegacyStart
    <3> QED
      BY <2>1, <3>1, <3>2
  <2> QED
    BY <1>1, <2>0, <2>2, <2>3, StepKinds, RestartServes
<1>2. CancelInv /\ [Next]_vars => [KeepsCanceled]_vars
  BY <1>1 DEF KeepsCanceled
<1>3. Init => CancelInv
  <2>1. ASSUME Init, NEW t \in Tasks PROVE RetryQuiet(t)
    BY <2>1, WorkerNames DEF Init, RetryQuiet, RetryWrites, IdleWorker
  <2> QED
    BY <2>1, PhaseInit DEF CancelInv
<1> QED
  BY <1>2, <1>3, CancelNext, PTL DEF Spec, CancelWins

-----------------------------------------------------------------------------
(***************************************************************************)
(* The wake-up: a dispatcher that parks leaves nothing that could start.   *)
(***************************************************************************)

\* Admitted to the queue of this scheduler.
Startable(t) ==
  t \notin AppServerTasks /\ rows[t].status = "queued" /\ Open(rows[t], "queue_wait") # {}

\* Nobody has woken the dispatcher since it last took the token.
Unsignaled == ~wake /\ ~closed /\ signals = {}

\* The dispatch after which it parks.
LastDispatch ==
  /\ loop.pc \in {"list", "pick", "claim", "register", "abandon", "release"}
  /\ loop.after = "park" /\ Unsignaled

\* As long as nobody signals, the dispatch still knows every free slot ...
KnowsTheSlots == LastDispatch => limit <= Cardinality(running) + loop.slots

\* ... and what it has passed over waits for a project that a run holds.  The
\* lock of the task it is about to start does not count: it may give it up, and
\* then the task has left the queue before its project is released.
KnowsTheTasks ==
  LastDispatch /\ loop.pc # "list" =>
    \A t \in Tasks : Startable(t) =>
      \/ t \in loop.list
      \/ t = loop.cur /\ loop.pc # "release"
      \/ lock[Key(t)] \notin {NoTask, loop.cur}

WakeInv == PhaseInv /\ KnowsTheSlots /\ KnowsTheTasks /\ NoStrandedWork

\* Only a request that also signals makes a task startable.
LEMMA ClientStarts ==
  ASSUME PhaseInv, NEW t \in Tasks, Client(t), Startable(t)'
  PROVE  Startable(t) \/ wake'
<1>0. /\ rows[t] \in Row /\ rows \in [Tasks -> Row] /\ Fine(t) /\ Timed(t) /\ "queue_wait" \in PhaseKeys
  BY DEF PhaseInv, WriterInv, LockInv, TypeOK, PhaseKeys
<1>1. CASE Prepare(t)
  <2>1. rows'[t] = [rows[t] EXCEPT !.status = "queued", !.prepared = TRUE] /\ rows[t].status = "absent"
    BY <1>0, <1>1 DEF Prepare, EnsurePreparedTask
  <2>2. Quiet(rows[t], {})
    BY <1>0, <2>1 DEF Timed, Rests
  <2>3. rows'[t].phases = rows[t].phases
    BY <1>0, <2>1 DEF Row
  <2>4. Open(rows'[t], "queue_wait") = {}
    BY <1>0, <2>2, <2>3 DEF Open, Quiet
  <2> QED
    BY <2>4 DEF Startable
<1>2. CASE Enqueue(t) \/ Resume(t)
  BY <1>2 DEF Enqueue, Resume
<1>3. CASE AppServerEnqueue(t) \/ \E turn \in Turns : AppServerStart(t, turn)
  BY <1>3 DEF AppServerEnqueue, AppServerStart, Startable
<1>4. CASE Cancel(t)
  <2>1. rows'[t].status = "canceled"
    BY <1>0, <1>4, TerminalStatus DEF Cancel, Becomes
  <2> QED
    BY <2>1 DEF Startable
<1>5. CASE RetryOutput(t)
  <2>1. rows'[t].status = "running"
    <3>1. rows[t].transport = "legacy_exec" /\ rows'[t] = ClaimOutputInvalidRetry(rows[t])
      BY <1>0, <1>5 DEF RetryOutput, Fine, TransportOf
    <3> QED
      BY <1>0, <3>1, ResultStatus DEF Becomes
  <2> QED
    BY <2>1 DEF Startable
<1> QED
  BY <1>1, <1>2, <1>3, <1>4, <1>5 DEF Client

\* A goroutine never puts its task back into the queue.
LEMMA GoroutineStarts ==
  ASSUME PhaseInv, NEW t \in Tasks, Runner(t) \/ ReportSession(t) \/ Pipeline(<<"retry", t>>), Startable(t)'
  PROVE  Startable(t)
<1>0. WriterInv /\ Fine(t)
  BY DEF PhaseInv, WriterInv
<1>1. rows' = rows \/ RunWrites(t) \/ RetryWrites(t)
  BY DEF Runner, ReportSession, StartTask, StartRefused, ExecCanceled, ExecFails, RunFails, ExecEnds, Validate,
         ValidateRefused, FinishRun, Pipeline, ResultFailed, ResultAccepted, InputsCurrent, InputsSuperseded,
         CommitAssets, WriteResult, RunWrites, RetryWrites
<1>2. CASE rows' = rows
  BY <1>2 DEF Startable
<1>3. CASE RunWrites(t) \/ RetryWrites(t)
  <2>1. rows[t].status \in {"running", "canceled"}
    BY <1>0, <1>3 DEF Fine
  <2>2. Changes(t)
    BY <1>0, RunnerServes, PipelineServes DEF Goroutines, Serves
  <2>3. rows'[t].status # "queued"
    BY <2>1, <2>2 DEF Changes, Contract!Moves
  <2> QED
    BY <2>3 DEF Startable
<1> QED
  BY <1>1, <1>2, <1>3

\* Nor does the dispatcher; and what it gives up has failed.
LEMMA DispatcherStarts ==
  ASSUME PhaseInv, Abandon \/ Claim \/ Register, NEW u \in Tasks, Startable(u)'
  PROVE  /\ Startable(u)
         /\ Abandon => u # loop.cur
<1>0. /\ WriterInv /\ loop.cur \in Tasks /\ Serves(loop.cur) /\ rows \in [Tasks -> Row]
  BY DispatcherServes DEF PhaseInv, WriterInv, LockInv, TypeOK
<1>1. CASE u # loop.cur
  BY <1>0, <1>1 DEF Serves, About, Startable
<1>2. CASE u = loop.cur
  <2>1. CASE Abandon
    <3>1. rows' = IF CanFailQueuedTask(rows[u]) THEN [rows EXCEPT ![u] = FailQueuedTask(@)] ELSE rows
      BY <1>2, <2>1 DEF Abandon
    <3>2. rows'[u].status # "queued"
      BY <1>0, <3>1, QueueStatus DEF CanFailQueuedTask, Becomes
    <3> QED
      BY <3>2 DEF Startable
  <2>2. CASE Claim
    <3>1. rows'[u].status = "running"
      BY <1>0, <1>2, <2>2, ExecutionStatus DEF Claim, Becomes
    <3> QED
      BY <3>1 DEF Startable
  <2>3. CASE Register
    BY <2>3 DEF Register, Startable, Abandon
  <2> QED
    BY <2>1, <2>2, <2>3
<1> QED
  BY <1>1, <1>2

LEMMA NothingStarts ==
  ASSUME PhaseInv, [Next]_vars, ~Restart, ~wake', NEW u \in Tasks, Startable(u)'
  PROVE  Startable(u)
<1>0. WriterInv
  BY DEF PhaseInv
<1>1. ASSUME NEW t \in Tasks, Client(t) \/ Runner(t) \/ ReportSession(t) \/ Pipeline(<<"retry", t>>)
      PROVE  Startable(u)
  <2>1. About(t)
    BY <1>0, <1>1, ClientServes, RunnerServes, PipelineServes DEF Goroutines, Serves
  <2>2. CASE u = t
    BY <1>1, <2>2, ClientStarts, GoroutineStarts
  <2>3. CASE u # t
    BY <2>1, <2>3 DEF About, Startable
  <2> QED
    BY <2>2, <2>3
<1>2. ASSUME UNCHANGED rows PROVE Startable(u)
  BY <1>2 DEF Startable
<1> QED
  BY <1>0, <1>1, <1>2, StepKinds, DispatcherStarts

\* A step outside the dispatcher: it changes nothing the dispatcher counts on,
\* or signals.
LEMMA WakeFrame ==
  ASSUME WakeInv, [Next]_vars, ~Restart,
         Unsignaled' => Unsignaled /\ UNCHANGED <<limit, running, lock, loop>>
  PROVE  KnowsTheSlots' /\ KnowsTheTasks' /\ NoStrandedWork'
<1>1. CASE ~Unsignaled'
  BY <1>1 DEF KnowsTheSlots, KnowsTheTasks, NoStrandedWork, LastDispatch, Unsignaled
<1>2. CASE Unsignaled'
  <2>1. /\ Unsignaled /\ limit' = limit /\ running' = running /\ lock' = lock /\ loop' = loop /\ ~wake'
    BY <1>2 DEF Unsignaled
  <2>2. \A u \in Tasks : Startable(u)' => Startable(u)
    BY <2>1, NothingStarts DEF WakeInv
  <2>3. KnowsTheSlots' /\ KnowsTheTasks'
    BY <2>1, <2>2 DEF WakeInv, KnowsTheSlots, KnowsTheTasks, LastDispatch
  <2>4. NoStrandedWork'
    BY <2>1, <2>2 DEF WakeInv, NoStrandedWork, Startable, Unsignaled
  <2> QED
    BY <2>3, <2>4
<1> QED
  BY <1>1, <1>2

LEMMA WakeDispatcher ==
  ASSUME WakeInv, Dispatcher, "listfault" \notin Operations, [Next]_vars, ~Restart
  PROVE  KnowsTheSlots' /\ KnowsTheTasks' /\ NoStrandedWork'
<1>0. /\ Cardinality(running) \in Int /\ IsFiniteSet(running) /\ limit \in Int
      /\ loop \in LoopRecord /\ loop.slots \in Int /\ loop.list \subseteq Tasks
      /\ loop.after \in {"top", "park"} /\ NoTask \notin Tasks
      /\ lock \in [Keys -> Tasks \cup {NoTask}] /\ \A t \in Tasks : Key(t) \in Keys
      /\ (loop.cur # NoTask <=> loop.pc \in {"claim", "register", "abandon", "release"})
      /\ loop.cur # NoTask => loop.cur \in Tasks /\ lock[Key(loop.cur)] = loop.cur /\ loop.cur \notin running
      /\ WriterInv /\ PhaseInv
  <2>1. WriterInv /\ PhaseInv /\ LockInv /\ TypeOK /\ NoTask \notin Tasks
    BY TasksAssumption DEF WakeInv, PhaseInv, WriterInv, LockInv
  <2> QED
    BY <2>1, CardinalityType, LimitType, KeyType
       DEF LockInv, TypeOK, LoopRecord, DispatcherHoldsLock, TablesMatchRuns
<1>1. signals' = signals /\ closed' = closed /\ limit' = limit
  BY DEF Dispatcher, TakeWake, DispatchThenPark, Unpark, StopLoop, ListQueued, ListFails, EndDispatch, Pick,
         BuildFails, ClaimRefused, Abandon, Release, Claim, Register
<1>2. ASSUME Unsignaled' PROVE \A u \in Tasks : Startable(u)' => Startable(u)
  BY <1>0, <1>2, NothingStarts DEF Unsignaled
<1>3. CASE TakeWake \/ Unpark \/ StopLoop
  <2>1. ~LastDispatch' /\ loop'.pc # "park"
    <3>1. CASE TakeWake
      BY <1>0, <3>1 DEF TakeWake, BeginDispatch, LastDispatch, LoopRecord
    <3>2. CASE Unpark \/ StopLoop
      BY <1>0, <3>2 DEF Unpark, StopLoop, LastDispatch, LoopRecord
    <3> QED
      BY <1>3, <3>1, <3>2
  <2> QED
    BY <2>1 DEF KnowsTheSlots, KnowsTheTasks, NoStrandedWork, LastDispatch
<1>4. CASE DispatchThenPark
  <2>1. /\ running' = running
        /\ \/ loop'.pc = "park" /\ limit - Cardinality(running) <= 0
           \/ loop'.pc = "list" /\ loop'.slots = limit - Cardinality(running)
    BY <1>0, <1>4 DEF DispatchThenPark, BeginDispatch, LoopRecord
  <2>2. KnowsTheSlots'
    BY <1>0, <1>1, <2>1 DEF KnowsTheSlots, LastDispatch
  <2>3. KnowsTheTasks'
    BY <2>1 DEF KnowsTheTasks, LastDispatch
  <2>4. NoStrandedWork'
    BY <1>0, <1>1, <2>1 DEF NoStrandedWork
  <2> QED
    BY <2>2, <2>3, <2>4
<1>5. CASE ListQueued
  <2>1. /\ running' = running /\ lock' = lock /\ rows' = rows /\ wake' = wake
        /\ loop'.pc = "pick" /\ loop'.list = {t \in Tasks : rows[t].status = "queued"}
        /\ loop'.slots = loop.slots /\ loop'.after = loop.after /\ loop'.cur = loop.cur /\ loop.pc = "list"
    BY <1>0, <1>5 DEF ListQueued, LoopRecord
  <2>2. KnowsTheSlots'
    BY <1>1, <2>1 DEF WakeInv, KnowsTheSlots, LastDispatch, Unsignaled
  <2>3. KnowsTheTasks'
    BY <2>1 DEF KnowsTheTasks, Startable
  <2> QED
    BY <2>1, <2>2, <2>3 DEF NoStrandedWork
<1>6. CASE EndDispatch
  <2>1. /\ running' = running /\ lock' = lock /\ rows' = rows /\ wake' = wake /\ loop'.pc = loop.after
        /\ loop.pc = "pick" /\ (loop.slots <= 0 \/ loop.list = {}) /\ loop.cur = NoTask
    BY <1>0, <1>6 DEF EndDispatch, Return, LoopRecord
  <2>2. ~LastDispatch'
    BY <1>0, <2>1 DEF LastDispatch
  <2>3. ASSUME loop'.pc = "park", Unsignaled', NEW t \in Tasks, Startable(t)'
        PROVE  lock[Key(t)] # NoTask \/ Cardinality(running) >= limit
    <3>1. LastDispatch /\ Startable(t)
      BY <1>1, <2>1, <2>3 DEF LastDispatch, Unsignaled, Startable
    <3>2. CASE loop.slots <= 0
      BY <1>0, <3>1, <3>2 DEF WakeInv, KnowsTheSlots
    <3>3. CASE loop.list = {}
      BY <1>0, <2>1, <3>1, <3>3 DEF WakeInv, KnowsTheTasks
    <3> QED
      BY <2>1, <3>2, <3>3
  <2>4. NoStrandedWork'
    BY <1>1, <2>1, <2>3 DEF NoStrandedWork, Unsignaled, Startable
  <2> QED
    BY <2>2, <2>4 DEF KnowsTheSlots, KnowsTheTasks
<1>7. CASE Pick
  <2>1. PICK t \in Tasks :
          /\ t \in loop.list
          /\ \/ /\ lock[Key(t)] # NoTask
                /\ loop' = [loop EXCEPT !.list = @ \ {t}]
                /\ lock' = lock
             \/ /\ lock[Key(t)] = NoTask
                /\ loop' = [loop EXCEPT !.pc = "claim", !.list = @ \ {t}, !.cur = t]
                /\ lock' = [lock EXCEPT ![Key(t)] = t]
    BY <1>7 DEF Pick, Newest
  <2>2. /\ running' = running /\ rows' = rows /\ wake' = wake /\ loop.pc = "pick" /\ loop.cur = NoTask
        /\ loop'.slots = loop.slots /\ loop'.after = loop.after /\ loop'.pc \in {"pick", "claim"}
        /\ loop'.list = loop.list \ {t}
    BY <1>0, <1>7, <2>1 DEF Pick, LoopRecord
  <2>3. KnowsTheSlots'
    BY <1>1, <2>2 DEF WakeInv, KnowsTheSlots, LastDispatch, Unsignaled
  <2>4. ASSUME LastDispatch', NEW u \in Tasks, Startable(u)', u \notin loop'.list, u # loop'.cur
        PROVE  lock'[Key(u)] \notin {NoTask, loop'.cur}
    <3>1. LastDispatch /\ Startable(u)
      BY <1>1, <2>2, <2>4 DEF LastDispatch, Unsignaled, Startable
    <3>2. u \in loop.list \/ lock[Key(u)] # NoTask
      BY <2>2, <3>1, <1>0 DEF WakeInv, KnowsTheTasks
    <3>3. CASE lock[Key(t)] # NoTask
      <4>1. loop'.cur = NoTask /\ lock' = lock
        BY <1>0, <2>1, <2>2, <3>3 DEF LoopRecord
      <4> QED
        BY <2>2, <2>4, <3>2, <3>3, <4>1
    <3>4. CASE lock[Key(t)] = NoTask
      <4>1. loop'.cur = t /\ lock' = [lock EXCEPT ![Key(t)] = t]
        BY <1>0, <2>1, <2>2, <3>4 DEF LoopRecord
      <4>2. lock[Key(u)] # NoTask /\ Key(u) # Key(t)
        BY <2>2, <2>4, <3>2, <3>4, <4>1
      <4>3. lock'[Key(u)] = lock[Key(u)]
        BY <1>0, <4>1, <4>2
      <4>4. lock[Key(u)] # t
        BY <1>0, <4>2, KeysApart, <2>1 DEF PhaseInv, WriterInv, LockInv, TablesMatchRuns
      <4> QED
        BY <4>1, <4>2, <4>3, <4>4
    <3> QED
      BY <3>3, <3>4
  <2>5. KnowsTheTasks'
    BY <2>2, <2>4 DEF KnowsTheTasks
  <2> QED
    BY <2>2, <2>3, <2>5 DEF NoStrandedWork
<1>8. CASE Abandon
  <2>1. /\ running' = running /\ lock' = lock /\ wake' = wake /\ loop.pc = "abandon" /\ loop'.pc = "release"
        /\ loop'.slots = loop.slots /\ loop'.after = loop.after /\ loop'.list = loop.list /\ loop'.cur = loop.cur
    BY <1>0, <1>8 DEF Abandon, LoopRecord
  <2>2. KnowsTheSlots'
    BY <1>1, <2>1 DEF WakeInv, KnowsTheSlots, LastDispatch, Unsignaled
  <2>3. ASSUME LastDispatch', NEW u \in Tasks, Startable(u)', u \notin loop'.list
        PROVE  lock'[Key(u)] \notin {NoTask, loop'.cur}
    <3>1. LastDispatch /\ Startable(u) /\ u # loop.cur
      BY <1>0, <1>1, <1>8, <2>1, <2>3, DispatcherStarts DEF LastDispatch, Unsignaled
    <3> QED
      BY <2>1, <2>3, <3>1 DEF WakeInv, KnowsTheTasks
  <2>4. KnowsTheTasks'
    BY <2>1, <2>3 DEF KnowsTheTasks
  <2> QED
    BY <2>1, <2>2, <2>4 DEF NoStrandedWork
<1>11. CASE Release
  <2>1. /\ running' = running /\ rows' = rows /\ wake' = wake /\ loop.pc = "release" /\ loop'.pc = "pick"
        /\ lock' = [lock EXCEPT ![Key(loop.cur)] = NoTask] /\ loop'.cur = NoTask
        /\ loop'.slots = loop.slots /\ loop'.after = loop.after /\ loop'.list = loop.list
    BY <1>0, <1>11 DEF Release, LoopRecord
  <2>2. KnowsTheSlots'
    BY <1>1, <2>1 DEF WakeInv, KnowsTheSlots, LastDispatch, Unsignaled
  <2>3. ASSUME LastDispatch', NEW u \in Tasks, Startable(u)', u \notin loop'.list
        PROVE  lock'[Key(u)] # NoTask
    <3>1. LastDispatch /\ Startable(u)
      BY <1>1, <2>1, <2>3 DEF LastDispatch, Unsignaled, Startable
    <3>2. lock[Key(u)] \notin {NoTask, loop.cur}
      BY <2>1, <2>3, <3>1 DEF WakeInv, KnowsTheTasks
    <3>3. Key(u) # Key(loop.cur)
      BY <1>0, <2>1, <3>2
    <3> QED
      BY <1>0, <2>1, <3>2, <3>3
  <2>4. KnowsTheTasks'
    BY <2>1, <2>3 DEF KnowsTheTasks
  <2> QED
    BY <2>1, <2>2, <2>4 DEF NoStrandedWork
<1>12. CASE BuildFails \/ ClaimRefused
  <2>1. /\ running' = running /\ lock' = lock /\ wake' = wake /\ loop.pc = "claim" /\ loop'.pc = "abandon"
        /\ loop'.slots = loop.slots /\ loop'.after = loop.after /\ loop'.list = loop.list /\ loop'.cur = loop.cur
    BY <1>0, <1>12 DEF BuildFails, ClaimRefused, LoopRecord
  <2>2. KnowsTheSlots'
    BY <1>1, <2>1 DEF WakeInv, KnowsTheSlots, LastDispatch, Unsignaled
  <2>3. KnowsTheTasks'
    BY <1>1, <1>2, <2>1 DEF WakeInv, KnowsTheTasks, LastDispatch, Unsignaled
  <2> QED
    BY <2>1, <2>2, <2>3 DEF NoStrandedWork
<1>9. CASE Claim
  <2>1. /\ running' = running /\ lock' = lock /\ wake' = wake /\ loop.pc = "claim" /\ loop'.pc = "register"
        /\ loop'.slots = loop.slots /\ loop'.after = loop.after /\ loop'.list = loop.list /\ loop'.cur = loop.cur
    BY <1>0, <1>9 DEF Claim, LoopRecord
  <2>2. KnowsTheSlots'
    BY <1>1, <2>1 DEF WakeInv, KnowsTheSlots, LastDispatch, Unsignaled
  <2>3. KnowsTheTasks'
    BY <1>1, <1>2, <2>1 DEF WakeInv, KnowsTheTasks, LastDispatch, Unsignaled
  <2> QED
    BY <2>1, <2>2, <2>3 DEF NoStrandedWork
<1>10. CASE Register
  <2>1. /\ running' = running \cup {loop.cur} /\ lock' = lock /\ wake' = wake /\ rows' = rows
        /\ loop.pc = "register" /\ loop'.pc = "pick" /\ loop'.cur = NoTask
        /\ loop'.slots = loop.slots - 1 /\ loop'.after = loop.after /\ loop'.list = loop.list
    BY <1>0, <1>10 DEF Register, LoopRecord
  <2>2. Cardinality(running') = Cardinality(running) + 1
    BY <1>0, <2>1, FS_AddElement
  <2>3. KnowsTheSlots'
    <3> SUFFICES ASSUME LastDispatch' PROVE limit <= Cardinality(running') + (loop.slots - 1)
      BY <1>1, <2>1 DEF KnowsTheSlots
    <3>1. limit <= Cardinality(running) + loop.slots
      BY <1>1, <2>1 DEF WakeInv, KnowsTheSlots, LastDispatch, Unsignaled
    <3> QED
      BY <1>0, <2>2, <3>1
  <2>4. ASSUME LastDispatch', NEW u \in Tasks, Startable(u)', u \notin loop'.list
        PROVE  lock'[Key(u)] # NoTask
    <3>1. LastDispatch /\ Startable(u)
      BY <1>1, <2>1, <2>4 DEF LastDispatch, Unsignaled, Startable
    <3>2. u = loop.cur \/ lock[Key(u)] \notin {NoTask, loop.cur}
      BY <2>1, <2>4, <3>1 DEF WakeInv, KnowsTheTasks
    <3> QED
      BY <1>0, <2>1, <3>2
  <2>5. KnowsTheTasks'
    BY <2>1, <2>4 DEF KnowsTheTasks
  <2> QED
    BY <2>1, <2>3, <2>5 DEF NoStrandedWork
<1> QED
  BY <1>3, <1>4, <1>5, <1>6, <1>7, <1>8, <1>9, <1>10, <1>11, <1>12 DEF Dispatcher, ListFails

LEMMA WakeNext ==
  ASSUME "listfault" \notin Operations
  PROVE  WakeInv /\ [Next]_vars => WakeInv'
<1> SUFFICES ASSUME WakeInv, [Next]_vars PROVE KnowsTheSlots' /\ KnowsTheTasks' /\ NoStrandedWork'
  BY PhaseNext DEF WakeInv
<1>0. TypeOK
  BY DEF WakeInv, PhaseInv, WriterInv, LockInv
<1>1. CASE Restart
  <2>1. loop'.pc = "top"
    BY <1>1 DEF Restart, FreshLoop
  <2> QED
    BY <2>1 DEF KnowsTheSlots, KnowsTheTasks, NoStrandedWork, LastDispatch
<1>2. CASE ~Restart /\ Dispatcher
  BY <1>2, WakeDispatcher
<1>3. CASE ~Restart /\ ~Dispatcher
  <2>1. ASSUME NEW t \in Tasks, Client(t) \/ CancelRun(t) \/ SignalRun(t) \/ ReportSession(t)
        PROVE  Unsignaled' => Unsignaled /\ UNCHANGED <<limit, running, lock, loop>>
    BY <2>1
    DEF Client, Prepare, Enqueue, AppServerEnqueue, AppServerStart, Resume, Cancel, RetryOutput,
        CancelRun, SignalRun, ReportSession, memory, Unsignaled
  <2>2. ASSUME NEW t \in Tasks, NEW w \in Goroutines(t), Pipeline(w)
        PROVE  Unsignaled' => Unsignaled /\ UNCHANGED <<limit, running, lock, loop>>
    BY <2>2
    DEF Pipeline, ResultFailed, ResultAccepted, InputsCurrent, InputsSuperseded, CommitAssets, WriteResult, Unsignaled
  <2>3. ASSUME NEW t \in Tasks, Runner(t)
        PROVE  Unsignaled' => Unsignaled /\ UNCHANGED <<limit, running, lock, loop>>
    <3>1. CASE FinishRun(t)
      BY <3>1 DEF FinishRun, Unsignaled
    <3>2. CASE Pipeline(<<"run", t>>)
      BY <2>2, <3>2 DEF Goroutines
    <3>3. CASE StartTask(t) \/ StartRefused(t) \/ ExecCanceled(t) \/ ExecFails(t) \/ RunFails(t)
               \/ ExecEnds(t) \/ Validate(t) \/ ValidateRefused(t)
      BY <3>3 DEF StartTask, StartRefused, ExecCanceled, ExecFails, RunFails, ExecEnds, Validate, ValidateRefused, Unsignaled
    <3> QED
      BY <2>3, <3>1, <3>2, <3>3 DEF Runner
  <2>4. ASSUME (\E n \in Limits : SetLimit(n)) \/ SignalLimit \/ Close \/ CloseRuns \/ UNCHANGED vars
        PROVE  Unsignaled' => Unsignaled /\ UNCHANGED <<limit, running, lock, loop>>
    BY <2>4 DEF SetLimit, SignalLimit, Close, CloseRuns, vars, memory, Unsignaled
  <2>5. Unsignaled' => Unsignaled /\ UNCHANGED <<limit, running, lock, loop>>
    BY <1>3, <2>1, <2>2, <2>3, <2>4 DEF Next, Goroutines
  <2> QED
    BY <1>3, <2>5, WakeFrame
<1> QED
  BY <1>1, <1>2, <1>3

\* A dispatcher that is parked without a token, while no run is about to leave
\* one, has left nothing that could start: each admitted task waits for its
\* project or for a slot (NoStrandedWork).  The hypothesis is needed: after a
\* failed List the scheduler waits for the next signal, whoever sends it.
THEOREM NothingStranded == "listfault" \notin Operations => (Spec => []NoStrandedWork)
<1> SUFFICES ASSUME "listfault" \notin Operations PROVE Spec => []NoStrandedWork
  OBVIOUS
<1>1. Init => WakeInv
  <2>1. Init => loop.pc = "top"
    BY DEF Init, FreshLoop
  <2> QED
    BY <2>1, PhaseInit DEF WakeInv, KnowsTheSlots, KnowsTheTasks, NoStrandedWork, LastDispatch
<1>2. WakeInv => NoStrandedWork
  BY DEF WakeInv
<1> QED
  BY <1>1, <1>2, WakeNext, PTL DEF Spec
=============================================================================

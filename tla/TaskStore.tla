------------------------------ MODULE TaskStore ------------------------------
(***************************************************************************)
(* The task repository (internal/store/tasks.go): one codex_tasks row and  *)
(* the task_phase_runs rows that belong to it.  Every write of the         *)
(* repository runs inside one immediate SQLite transaction, so each write  *)
(* is an operator from the row before to the row after, paired with the    *)
(* predicate under which the transaction commits (CanX).  A transaction    *)
(* whose predicate is false returns an error and leaves the row alone.     *)
(*                                                                         *)
(* The module has no variables: the scheduler and the conversation broker  *)
(* apply these operators to the rows they share.                           *)
(***************************************************************************)
EXTENDS Integers, FiniteSets

CONSTANTS
  Turns,        \* Codex turn identifiers
  NoTurn,       \* codex_turn_id IS NULL
  MaxAttempt    \* bound: highest attempt number a phase run may carry

ASSUME MaxAttemptAssumption == MaxAttempt \in Nat \ {0}
ASSUME NoTurnAssumption == NoTurn \notin Turns

Attempts == 1..MaxAttempt

Transports == {"legacy_exec", "app_server"}
Finished   == {"completed", "failed", "canceled", "interrupted"}
Statuses   == {"absent", "queued", "running", "resuming", "awaiting_input"}
                \cup Finished

\* error_code, up to what the repository branches on.
Errors == {"none", "output_invalid", "other"}

CompletionPhases == {"agent_running", "plaintext_ready", "registering", "registered"}

\* The five keys finishActiveLifecyclePhasesTx closes.
PhaseKeys == {"queue_wait", "codex_execution", "result_validation",
              "asset_commit", "jianying_registration"}

\* "none": no task_phase_runs row with this key and attempt.
PhaseStates == {"none", "running", "completed", "failed", "canceled", "interrupted"}

Row == [status    : Statuses,
        transport : Transports,
        error     : Errors,
        session   : BOOLEAN,                 \* codex_session_id is set
        turn      : Turns \cup {NoTurn},     \* codex_turn_id
        started   : BOOLEAN,                 \* started_at is set
        cphase    : CompletionPhases,
        prepared  : BOOLEAN,                 \* its task_prepare run is recorded
        phases    : [PhaseKeys -> [Attempts -> PhaseStates]]]

AbsentRow(transport) ==
  [status |-> "absent", transport |-> transport, error |-> "none",
   session |-> FALSE, turn |-> NoTurn, started |-> FALSE,
   cphase |-> "agent_running", prepared |-> FALSE,
   phases |-> [k \in PhaseKeys |-> [a \in Attempts |-> "none"]]]

-----------------------------------------------------------------------------
(* Phase runs                                                              *)

Used(row, key) == {a \in Attempts : row.phases[key][a] # "none"}
Open(row, key) == {a \in Attempts : row.phases[key][a] = "running"}

Highest(S) == IF S = {} THEN 0 ELSE CHOOSE a \in S : \A b \in S : b <= a

\* admitQueueTx numbers a wait after the waits and executions there are.
NextQueueAttempt(row) == 1 + Highest(Used(row, "queue_wait") \cup Used(row, "codex_execution"))

\* task_prepare is recorded once, as attempt 1.
Preparation(row) == IF row.prepared THEN {1} ELSE {}

\* MAX(attempt) + 1 over every phase run of the task.
NextAttempt(row) == 1 + Highest(Preparation(row) \cup UNION {Used(row, k) : k \in PhaseKeys})

\* task_phase_external_event_uq: the external id the repository writes is a
\* function of key and attempt, so a second run of the pair is refused.
CanInsert(row, key, a) == a \in Attempts /\ row.phases[key][a] = "none"

SetPhase(row, key, a, state) == [row EXCEPT !.phases[key][a] = state]

FinishActivePhase(row, key, state) ==
  IF Open(row, key) = {} THEN row
  ELSE SetPhase(row, key, Highest(Open(row, key)), state)

\* Mutant: the terminal writes forget the phases.
FinishNoLifecyclePhase(row, state) == row

\* Each key's newest open run is closed; the loop is over distinct keys, so
\* the five updates are one.
FinishActiveLifecyclePhases(row, state) ==
  [row EXCEPT !.phases =
     [k \in PhaseKeys |->
        [a \in Attempts |->
           IF a \in Open(row, k) /\ a = Highest(Open(row, k))
           THEN state ELSE row.phases[k][a]]]]

\* Mutant: any recorded run counts as finished by this write.
CanFinishAnyPhaseByID(row, key, a, state) ==
  a \in Attempts /\ row.phases[key][a] # "none"

\* finishPhaseByIDTx: an already finished run is accepted only when it was
\* finished with the same state.
CanFinishPhaseByID(row, key, a, state) ==
  a \in Attempts /\ row.phases[key][a] \in {"running", state}

-----------------------------------------------------------------------------
(* Admission to the queue                                                  *)

CanPrepare(row) == row.status \in {"absent", "queued"}
EnsurePreparedTask(row) == [row EXCEPT !.status = "queued", !.prepared = TRUE]

AdmitQueue(row) ==
  IF Open(row, "queue_wait") # {} THEN row
  ELSE SetPhase(row, "queue_wait", NextQueueAttempt(row), "running")

CanAdmit(row) == row.status \in {"absent", "queued"}
AdmitQueuedTask(row) == AdmitQueue([row EXCEPT !.status = "queued"])

\* Mutant: a conversation may also be resumed after its result.
CanBeginAnyResume(row) ==
  row.status \in {"awaiting_input", "completed"} /\ row.session

CanBeginLegacyResume(row) ==
  /\ row.status = "awaiting_input"
  /\ row.transport = "legacy_exec"
  /\ row.session
BeginLegacyResume(row) ==
  AdmitQueue([row EXCEPT !.status = "queued", !.error = "none"])

CanBeginAppServerResume(row, turn) ==
  /\ row.status = "awaiting_input"
  /\ row.transport = "app_server"
  /\ row.turn = turn
BeginAppServerResume(row) ==
  SetPhase([row EXCEPT !.status = "resuming", !.turn = NoTurn, !.error = "none",
                       !.cphase = "agent_running"],
           "queue_wait", NextAttempt(row), "running")

-----------------------------------------------------------------------------
(* Start of an execution                                                   *)

\* The attempt of the open queue wait, or a new one when there is none.
ExecutionAttempt(row) ==
  IF Open(row, "queue_wait") = {} THEN NextAttempt(row)
  ELSE Highest(Open(row, "queue_wait"))

\* Mutant: the queue wait is not closed when the execution starts.
OpenExecutionBesideWait(row) ==
  SetPhase(row, "codex_execution", ExecutionAttempt(row), "running")

OpenExecution(row) ==
  SetPhase(FinishActivePhase(row, "queue_wait", "completed"),
           "codex_execution", ExecutionAttempt(row), "running")

CanClaimLegacyStart(row) ==
  /\ row.status = "queued"
  /\ row.transport = "legacy_exec"
  /\ CanInsert(row, "codex_execution", ExecutionAttempt(row))
ClaimLegacyStart(row) ==
  [OpenExecution(row) EXCEPT !.status = "running", !.error = "none", !.started = TRUE]

\* The UPDATE of Start has no condition on the status.
Start(row) == [row EXCEPT !.status = "running", !.error = "none", !.started = TRUE]

TurnAlreadyStarted(row, turn) == row.started /\ row.turn = turn

CanStartAppServerTurn(row, turn) ==
  /\ row.transport = "app_server"
  /\ \/ TurnAlreadyStarted(row, turn)
     \/ /\ row.status \in {"queued", "resuming"}
        /\ CanInsert(row, "codex_execution", ExecutionAttempt(row))
StartAppServerTurn(row, turn) ==
  IF TurnAlreadyStarted(row, turn) THEN row
  ELSE [OpenExecution(row) EXCEPT !.status = "running", !.turn = turn,
                                  !.cphase = "agent_running", !.started = TRUE]

SetSession(row) == [row EXCEPT !.session = TRUE]

-----------------------------------------------------------------------------
(* Result validation, asset commit and the result itself                   *)

\* A running execution hands its attempt to the validation; otherwise the
\* attempt is one past the highest validation.
ValidationAttempt(row) ==
  IF Open(row, "codex_execution") # {}
  THEN Highest(Open(row, "codex_execution"))
  ELSE 1 + Highest(Used(row, "result_validation"))

CanBeginResultValidation(row) ==
  CanInsert(row, "result_validation", ValidationAttempt(row))
BeginResultValidation(row) ==
  SetPhase(FinishActivePhase(row, "codex_execution", "completed"),
           "result_validation", ValidationAttempt(row), "running")

CanBeginAssetCommit(row, v) == CanFinishPhaseByID(row, "result_validation", v, "completed")
\* Mutant: the validation stays open while the assets are committed.
BeginAssetCommitEarly(row, v) == SetPhase(row, "asset_commit", v, "running")

BeginAssetCommit(row, v) ==
  LET validated == SetPhase(row, "result_validation", v, "completed")
  IN  IF validated.phases["asset_commit"][v] # "none" THEN validated
      ELSE SetPhase(validated, "asset_commit", v, "running")

\* requireResultClaim: NoTurn is the legacy runner, which has no expected turn
\* and is not checked against the row.
HoldsResultClaim(row, turn) ==
  \/ turn = NoTurn
  \/ /\ row.transport = "app_server"
     /\ row.turn = turn
     /\ row.status = "resuming"
     /\ row.cphase = "agent_running"

\* finishResultWritePhasesTx without an asset commit: only a failed result.
CanWriteFailure(row, v, turn) ==
  HoldsResultClaim(row, turn) /\ CanFinishPhaseByID(row, "result_validation", v, "failed")
WriteFailure(row, v, error) ==
  [SetPhase(row, "result_validation", v, "failed")
     EXCEPT !.status = "failed", !.error = error]

\* finishResultWritePhasesTx with the asset commit that followed validation v.
CanWriteSuccess(row, v, turn) ==
  /\ HoldsResultClaim(row, turn)
  /\ v \in Attempts
  /\ row.phases["result_validation"][v] = "completed"
  /\ CanFinishPhaseByID(row, "asset_commit", v, "completed")
WriteSuccess(row, v, status) ==
  [SetPhase(row, "asset_commit", v, "completed")
     EXCEPT !.status = status, !.error = "none"]

CanClaimAppServerResult(row, turn) ==
  /\ row.transport = "app_server"
  /\ row.turn = turn
  /\ row.cphase = "agent_running"
  /\ row.status = "running"
  /\ CanBeginResultValidation(row)
ClaimAppServerResult(row) == [BeginResultValidation(row) EXCEPT !.status = "resuming"]

\* Mutant: any finished task may be validated again.
CanClaimFinishedRetry(row) ==
  row.status \in {"failed", "completed"} /\ CanBeginResultValidation(row)

CanClaimOutputInvalidRetry(row) ==
  /\ row.status = "failed"
  /\ row.error = "output_invalid"
  /\ row.cphase = "agent_running"
  /\ row.transport = "legacy_exec" \/ row.turn # NoTurn
  /\ CanBeginResultValidation(row)
ClaimOutputInvalidRetry(row) ==
  [BeginResultValidation(row) EXCEPT
     !.status = IF row.transport = "app_server" THEN "resuming" ELSE "running",
     !.error  = "none"]

-----------------------------------------------------------------------------
(* Failure, cancellation and restart                                       *)

Closed(row, status, error) ==
  [FinishActiveLifecyclePhases(row, status) EXCEPT !.status = status, !.error = error]

CanFailQueuedTask(row) == row.status = "queued"
FailQueuedTask(row) ==
  [FinishActivePhase(row, "queue_wait", "failed") EXCEPT !.status = "failed", !.error = "other"]

CanFailTask(row) == row.status \notin Finished \cup {"absent"}
FailTask(row)    == Closed(row, "failed", "other")

CanCancelTask(row) == row.status \notin Finished \cup {"absent"}
CancelTask(row)    == Closed(row, "canceled", "other")

OwnsLiveTurn(row, turn) ==
  /\ row.transport = "app_server"
  /\ row.turn = turn
  /\ row.status \in {"running", "resuming"}

CancelAppServerTurn(row) == Closed(row, "canceled", "other")
FailAppServerTurn(row)   == Closed(row, "failed", "other")

\* What a restart does with one row.  inbox: a completion of the row's turn is
\* still pending or processing; outbox: a message of the task is still pending
\* or queued.
InterruptInFlight(row, inbox, outbox) ==
  LET replayed == row.transport = "app_server" /\ row.turn # NoTurn /\ inbox
      reopened == IF replayed /\ row.status = "resuming"
                  THEN [row EXCEPT !.status = "running"] ELSE row
      unsent   == /\ row.status = "running"
                  /\ row.transport = "app_server"
                  /\ row.turn = NoTurn
                  /\ outbox
  IN  IF reopened.status \in {"running", "resuming"} /\ ~replayed /\ ~unsent
      THEN Closed(reopened, "interrupted", "other")
      ELSE reopened
=============================================================================

--------------------------- MODULE TaskStore_proofs ---------------------------
(***************************************************************************)
(* Every transaction of the task repository turns a well-formed row into a *)
(* well-formed row, for any number of attempts and any set of turns, and   *)
(* what it writes to the columns other modules look at.                    *)
(***************************************************************************)
EXTENDS TaskStore, TLAPS

\* Writing one phase run leaves a row, also when the attempt is out of bounds
\* (the bound then drops the write).
LEMMA SetPhaseType ==
  ASSUME NEW row \in Row, NEW key \in PhaseKeys, NEW a, NEW state \in PhaseStates
  PROVE  SetPhase(row, key, a, state) \in Row
  BY DEF SetPhase, Row

\* Closing the newest open run of one key leaves a row.
LEMMA FinishActivePhaseType ==
  ASSUME NEW row \in Row, NEW key \in PhaseKeys, NEW state \in PhaseStates
  PROVE  FinishActivePhase(row, key, state) \in Row
  BY SetPhaseType DEF FinishActivePhase

\* Closing the newest open run of every key leaves a row.
LEMMA FinishLifecycleType ==
  ASSUME NEW row \in Row, NEW state \in PhaseStates
  PROVE  FinishActiveLifecyclePhases(row, state) \in Row
<1> DEFINE value(k, a) == IF a \in Open(row, k) /\ a = Highest(Open(row, k))
                          THEN state ELSE row.phases[k][a]
           closed == [k \in PhaseKeys |-> [a \in Attempts |-> value(k, a)]]
<1>1. ASSUME NEW k \in PhaseKeys, NEW a \in Attempts PROVE value(k, a) \in PhaseStates
  BY DEF Row
<1> HIDE DEF value
<1>2. closed \in [PhaseKeys -> [Attempts -> PhaseStates]]
  BY <1>1
<1> HIDE DEF closed
<1>3. [row EXCEPT !.phases = closed] \in Row
  BY <1>2 DEF Row
<1> QED
  BY <1>3 DEF FinishActiveLifecyclePhases, closed, value

\* A transaction that touches no phase leaves a row.
LEMMA ScalarType ==
  ASSUME NEW row \in Row
  PROVE  /\ \A status \in Statuses : /\ [row EXCEPT !.status = status] \in Row
                                       /\ [row EXCEPT !.status = status, !.prepared = TRUE] \in Row
         /\ \A error \in Errors : [row EXCEPT !.error = error] \in Row
         /\ \A status \in Statuses, error \in Errors :
              /\ [row EXCEPT !.status = status, !.error = error] \in Row
              /\ [row EXCEPT !.status = status, !.error = error, !.started = TRUE] \in Row
  BY DEF Row

\* The row of a task that does not exist yet.
LEMMA AbsentRowType ==
  ASSUME NEW transport \in Transports
  PROVE  AbsentRow(transport) \in Row
  BY NoTurnAssumption DEF AbsentRow, Row, Statuses, Errors, CompletionPhases, PhaseStates

\* Admission, by a new task or by an answer of the user.
LEMMA AdmitType ==
  ASSUME NEW row \in Row
  PROVE  /\ EnsurePreparedTask(row) \in Row
         /\ AdmitQueue(row) \in Row
         /\ AdmitQueuedTask(row) \in Row
         /\ BeginLegacyResume(row) \in Row
<1>1. "queue_wait" \in PhaseKeys /\ "running" \in PhaseStates
      /\ "queued" \in Statuses /\ "none" \in Errors
  BY DEF PhaseKeys, PhaseStates, Statuses, Errors
<1>2. ASSUME NEW r \in Row PROVE AdmitQueue(r) \in Row
  BY <1>1, SetPhaseType DEF AdmitQueue
<1>3. /\ [row EXCEPT !.status = "queued"] \in Row
      /\ [row EXCEPT !.status = "queued", !.error = "none"] \in Row
  BY <1>1, ScalarType
<1>4. [row EXCEPT !.status = "queued", !.prepared = TRUE] \in Row
  BY <1>1 DEF Row
<1> QED
  BY <1>2, <1>3, <1>4 DEF EnsurePreparedTask, AdmitQueuedTask, BeginLegacyResume

\* The start of an execution, of either transport.
LEMMA StartType ==
  ASSUME NEW row \in Row
  PROVE  /\ OpenExecution(row) \in Row
         /\ ClaimLegacyStart(row) \in Row
         /\ Start(row) \in Row
         /\ SetSession(row) \in Row
         /\ \A turn \in Turns : StartAppServerTurn(row, turn) \in Row
<1>1. /\ {"queue_wait", "codex_execution"} \subseteq PhaseKeys
      /\ {"running", "completed"} \subseteq PhaseStates
      /\ "running" \in Statuses /\ "none" \in Errors /\ "agent_running" \in CompletionPhases
  BY DEF PhaseKeys, PhaseStates, Statuses, Errors, CompletionPhases
<1>2. OpenExecution(row) \in Row
  BY <1>1, SetPhaseType, FinishActivePhaseType DEF OpenExecution
<1>3. ClaimLegacyStart(row) \in Row /\ Start(row) \in Row
  BY <1>1, <1>2, ScalarType DEF ClaimLegacyStart, Start
<1>4. SetSession(row) \in Row
  BY DEF SetSession, Row
<1>5. ASSUME NEW turn \in Turns PROVE StartAppServerTurn(row, turn) \in Row
  <2> DEFINE r == OpenExecution(row)
  <2>1. r \in Row
    BY <1>2
  <2> HIDE DEF r
  <2>2. [r EXCEPT !.status = "running", !.turn = turn,
                  !.cphase = "agent_running", !.started = TRUE] \in Row
    BY <1>1, <2>1 DEF Row
  <2> QED
    BY <2>2 DEF StartAppServerTurn, r
<1> QED
  BY <1>2, <1>3, <1>4, <1>5

\* Validation, commit and the two result writes.
LEMMA ResultType ==
  ASSUME NEW row \in Row, NEW v
  PROVE  /\ BeginResultValidation(row) \in Row
         /\ BeginAssetCommit(row, v) \in Row
         /\ \A error \in Errors : WriteFailure(row, v, error) \in Row
         /\ \A status \in {"awaiting_input", "completed"} : WriteSuccess(row, v, status) \in Row
         /\ ClaimOutputInvalidRetry(row) \in Row
<1>1. /\ {"codex_execution", "result_validation", "asset_commit"} \subseteq PhaseKeys
      /\ {"running", "completed", "failed"} \subseteq PhaseStates
      /\ {"running", "resuming", "failed", "awaiting_input", "completed"} \subseteq Statuses
      /\ "none" \in Errors
  BY DEF PhaseKeys, PhaseStates, Statuses, Finished, Errors
<1>2. BeginResultValidation(row) \in Row
  BY <1>1, SetPhaseType, FinishActivePhaseType DEF BeginResultValidation
<1>3. BeginAssetCommit(row, v) \in Row
  BY <1>1, SetPhaseType DEF BeginAssetCommit
<1>4. ASSUME NEW error \in Errors PROVE WriteFailure(row, v, error) \in Row
  BY <1>1, SetPhaseType, ScalarType DEF WriteFailure
<1>5. ASSUME NEW status \in {"awaiting_input", "completed"}
      PROVE  WriteSuccess(row, v, status) \in Row
  BY <1>1, SetPhaseType, ScalarType DEF WriteSuccess
<1>6. ClaimOutputInvalidRetry(row) \in Row
  BY <1>1, <1>2, ScalarType DEF ClaimOutputInvalidRetry
<1> QED
  BY <1>2, <1>3, <1>4, <1>5, <1>6

\* Failure, cancellation and the restart.
LEMMA TerminalType ==
  ASSUME NEW row \in Row
  PROVE  /\ FailQueuedTask(row) \in Row
         /\ FailTask(row) \in Row
         /\ CancelTask(row) \in Row
         /\ \A inbox, outbox \in BOOLEAN : InterruptInFlight(row, inbox, outbox) \in Row
<1>1. /\ {"failed", "canceled", "interrupted"} \subseteq PhaseStates
      /\ {"failed", "canceled", "interrupted", "running"} \subseteq Statuses
      /\ "other" \in Errors /\ "queue_wait" \in PhaseKeys
  BY DEF PhaseKeys, PhaseStates, Statuses, Finished, Errors
<1>2. ASSUME NEW r \in Row, NEW status \in {"failed", "canceled", "interrupted"}
      PROVE  Closed(r, status, "other") \in Row
  BY <1>1, FinishLifecycleType, ScalarType DEF Closed
<1>3. FailQueuedTask(row) \in Row
  BY <1>1, FinishActivePhaseType, ScalarType DEF FailQueuedTask
<1>4. FailTask(row) \in Row /\ CancelTask(row) \in Row
  BY <1>2 DEF FailTask, CancelTask
<1>5. [row EXCEPT !.status = "running"] \in Row
  BY <1>1, ScalarType
<1>6. ASSUME NEW inbox \in BOOLEAN, NEW outbox \in BOOLEAN
      PROVE  InterruptInFlight(row, inbox, outbox) \in Row
  BY <1>2, <1>5 DEF InterruptInFlight
<1> QED
  BY <1>3, <1>4, <1>6
-----------------------------------------------------------------------------
(* What a transaction writes besides the phases                            *)

\* The row after a transaction: its status, turn and error code, on the
\* transport of the row before.
Written(r, row, status, turn, error) ==
  /\ r \in Row
  /\ r.transport = row.transport
  /\ r.status = status
  /\ r.turn = turn
  /\ r.error = error

\* Writes to the phases leave the other columns alone.
LEMMA PhaseWrites ==
  ASSUME NEW row \in Row
  PROVE  /\ \A a : \A key \in PhaseKeys, state \in PhaseStates :
              /\ Written(SetPhase(row, key, a, state), row, row.status, row.turn, row.error)
              /\ Written(FinishActivePhase(row, key, state), row, row.status, row.turn, row.error)
         /\ \A state \in PhaseStates :
              Written(FinishActiveLifecyclePhases(row, state), row, row.status, row.turn, row.error)
         /\ Written(AdmitQueue(row), row, row.status, row.turn, row.error)
         /\ Written(OpenExecution(row), row, row.status, row.turn, row.error)
         /\ Written(BeginResultValidation(row), row, row.status, row.turn, row.error)
         /\ \A v : Written(BeginAssetCommit(row, v), row, row.status, row.turn, row.error)
<1>0. /\ {"queue_wait", "codex_execution", "result_validation", "asset_commit"} \subseteq PhaseKeys
      /\ {"running", "completed"} \subseteq PhaseStates
  BY DEF PhaseKeys, PhaseStates
<1>1. ASSUME NEW r \in Row, NEW key \in PhaseKeys, NEW a, NEW state \in PhaseStates
      PROVE  Written(SetPhase(r, key, a, state), r, r.status, r.turn, r.error)
  BY <1>1, SetPhaseType DEF SetPhase, Written, Row
<1>2. ASSUME NEW r \in Row, NEW key \in PhaseKeys, NEW state \in PhaseStates
      PROVE  Written(FinishActivePhase(r, key, state), r, r.status, r.turn, r.error)
  BY <1>1 DEF FinishActivePhase, Written
<1>3. ASSUME NEW state \in PhaseStates
      PROVE  Written(FinishActiveLifecyclePhases(row, state), row, row.status, row.turn, row.error)
  BY FinishLifecycleType DEF FinishActiveLifecyclePhases, Written, Row
<1>4. Written(AdmitQueue(row), row, row.status, row.turn, row.error)
  BY <1>0, <1>1 DEF AdmitQueue, Written
<1>5. Written(OpenExecution(row), row, row.status, row.turn, row.error)
  <2> DEFINE r == FinishActivePhase(row, "queue_wait", "completed")
  <2>1. Written(r, row, row.status, row.turn, row.error)
    BY <1>0, <1>2
  <2> HIDE DEF r
  <2>2. Written(SetPhase(r, "codex_execution", ExecutionAttempt(row), "running"), r, r.status, r.turn, r.error)
    BY <1>0, <1>1, <2>1 DEF Written
  <2> QED
    BY <2>1, <2>2 DEF OpenExecution, r, Written
<1>6. Written(BeginResultValidation(row), row, row.status, row.turn, row.error)
  <2> DEFINE r == FinishActivePhase(row, "codex_execution", "completed")
  <2>1. Written(r, row, row.status, row.turn, row.error)
    BY <1>0, <1>2
  <2> HIDE DEF r
  <2>2. Written(SetPhase(r, "result_validation", ValidationAttempt(row), "running"), r, r.status, r.turn, r.error)
    BY <1>0, <1>1, <2>1 DEF Written
  <2> QED
    BY <2>1, <2>2 DEF BeginResultValidation, r, Written
<1>7. ASSUME NEW v PROVE Written(BeginAssetCommit(row, v), row, row.status, row.turn, row.error)
  <2> DEFINE r == SetPhase(row, "result_validation", v, "completed")
  <2>1. Written(r, row, row.status, row.turn, row.error)
    BY <1>0, <1>1
  <2> HIDE DEF r
  <2>2. Written(SetPhase(r, "asset_commit", v, "running"), r, r.status, r.turn, r.error)
    BY <1>0, <1>1, <2>1 DEF Written
  <2> QED
    BY <2>1, <2>2 DEF BeginAssetCommit, r, Written
<1> QED
  BY <1>1, <1>2, <1>3, <1>4, <1>5, <1>6, <1>7

\* Admission, the start of a turn and the claims of its result.
LEMMA ProgressWrites ==
  ASSUME NEW row \in Row
  PROVE  /\ Written(AdmitQueuedTask(row), row, "queued", row.turn, row.error)
         /\ Written(BeginAppServerResume(row), row, "resuming", NoTurn, "none")
         /\ \A turn \in Turns :
              IF TurnAlreadyStarted(row, turn) THEN StartAppServerTurn(row, turn) = row
              ELSE Written(StartAppServerTurn(row, turn), row, "running", turn, row.error)
         /\ Written(ClaimAppServerResult(row), row, "resuming", row.turn, row.error)
         /\ row.transport = "app_server" =>
              Written(ClaimOutputInvalidRetry(row), row, "resuming", row.turn, "none")
<1>0. /\ "queue_wait" \in PhaseKeys /\ "running" \in PhaseStates /\ "none" \in Errors
      /\ {"queued", "running", "resuming"} \subseteq Statuses /\ "agent_running" \in CompletionPhases
  BY DEF PhaseKeys, PhaseStates, Statuses, Errors, CompletionPhases
<1>1. Written(AdmitQueuedTask(row), row, "queued", row.turn, row.error)
  <2> DEFINE r == [row EXCEPT !.status = "queued"]
  <2>1. Written(r, row, "queued", row.turn, row.error)
    BY <1>0 DEF Written, Row
  <2> HIDE DEF r
  <2>2. Written(AdmitQueue(r), r, r.status, r.turn, r.error)
    BY <2>1, PhaseWrites DEF Written
  <2> QED
    BY <2>1, <2>2 DEF AdmitQueuedTask, r, Written
<1>2. Written(BeginAppServerResume(row), row, "resuming", NoTurn, "none")
  <2> DEFINE r == [row EXCEPT !.status = "resuming", !.turn = NoTurn, !.error = "none",
                              !.cphase = "agent_running"]
  <2>1. Written(r, row, "resuming", NoTurn, "none")
    BY <1>0 DEF Written, Row
  <2> HIDE DEF r
  <2>2. r \in Row
    BY <2>1 DEF Written
  <2>3. Written(SetPhase(r, "queue_wait", NextAttempt(row), "running"), r, r.status, r.turn, r.error)
    BY <1>0, <2>2, PhaseWrites
  <2> QED
    BY <2>1, <2>3 DEF BeginAppServerResume, r, Written
<1>3. ASSUME NEW turn \in Turns, ~TurnAlreadyStarted(row, turn)
      PROVE  Written(StartAppServerTurn(row, turn), row, "running", turn, row.error)
  <2> DEFINE r == OpenExecution(row)
  <2>1. Written(r, row, row.status, row.turn, row.error)
    BY PhaseWrites
  <2> HIDE DEF r
  <2>2. StartAppServerTurn(row, turn) = [r EXCEPT !.status = "running", !.turn = turn,
                                                  !.cphase = "agent_running", !.started = TRUE]
    BY <1>3 DEF StartAppServerTurn, r
  <2> QED
    BY <1>0, <2>1, <2>2 DEF Written, Row
<1>4. /\ Written(ClaimAppServerResult(row), row, "resuming", row.turn, row.error)
      /\ row.transport = "app_server" =>
           Written(ClaimOutputInvalidRetry(row), row, "resuming", row.turn, "none")
  <2> DEFINE r == BeginResultValidation(row)
  <2>1. Written(r, row, row.status, row.turn, row.error)
    BY PhaseWrites
  <2> HIDE DEF r
  <2>2. Written([r EXCEPT !.status = "resuming"], row, "resuming", row.turn, row.error)
    BY <1>0, <2>1 DEF Written, Row
  <2>3. Written([r EXCEPT !.status = "resuming", !.error = "none"], row, "resuming", row.turn, "none")
    BY <1>0, <2>1 DEF Written, Row
  <2> QED
    BY <2>2, <2>3 DEF ClaimAppServerResult, ClaimOutputInvalidRetry, r
<1> QED
  BY <1>1, <1>2, <1>3, <1>4 DEF StartAppServerTurn

\* The results, and the ends of a task without one.
LEMMA EndWrites ==
  ASSUME NEW row \in Row
  PROVE  /\ \A v : \A error \in Errors : Written(WriteFailure(row, v, error), row, "failed", row.turn, error)
         /\ \A v : \A status \in {"awaiting_input", "completed"} :
              Written(WriteSuccess(row, v, status), row, status, row.turn, "none")
         /\ Written(FailQueuedTask(row), row, "failed", row.turn, "other")
         /\ Written(FailTask(row), row, "failed", row.turn, "other")
         /\ Written(CancelTask(row), row, "canceled", row.turn, "other")
         /\ Written(FailAppServerTurn(row), row, "failed", row.turn, "other")
<1>0. /\ {"queue_wait", "result_validation", "asset_commit"} \subseteq PhaseKeys
      /\ {"completed", "failed", "canceled", "interrupted"} \subseteq PhaseStates
      /\ {"none", "other"} \subseteq Errors
      /\ {"failed", "canceled", "interrupted", "awaiting_input", "completed"} \subseteq Statuses
  BY DEF PhaseKeys, PhaseStates, Statuses, Finished, Errors
<1>1. ASSUME NEW r \in Row, Written(r, row, row.status, row.turn, row.error),
             NEW status \in Statuses, NEW error \in Errors
      PROVE  Written([r EXCEPT !.status = status, !.error = error], row, status, row.turn, error)
  BY <1>1 DEF Written, Row
<1>2. ASSUME NEW v, NEW error \in Errors
      PROVE  Written(WriteFailure(row, v, error), row, "failed", row.turn, error)
  BY <1>0, <1>1, PhaseWrites, SetPhaseType DEF WriteFailure
<1>3. ASSUME NEW v, NEW status \in {"awaiting_input", "completed"}
      PROVE  Written(WriteSuccess(row, v, status), row, status, row.turn, "none")
  BY <1>0, <1>1, PhaseWrites, SetPhaseType DEF WriteSuccess
<1>4. Written(FailQueuedTask(row), row, "failed", row.turn, "other")
  BY <1>0, <1>1, PhaseWrites, FinishActivePhaseType DEF FailQueuedTask
<1>5. ASSUME NEW status \in {"failed", "canceled", "interrupted"}
      PROVE  Written(Closed(row, status, "other"), row, status, row.turn, "other")
  BY <1>0, <1>1, PhaseWrites, FinishLifecycleType DEF Closed
<1> QED
  BY <1>2, <1>3, <1>4, <1>5 DEF FailTask, CancelTask, FailAppServerTurn

\* A restart touches a task that runs and no other; it keeps the turn.
LEMMA RestartWrites ==
  ASSUME NEW row \in Row, NEW inbox \in BOOLEAN, NEW outbox \in BOOLEAN
  PROVE  LET r == InterruptInFlight(row, inbox, outbox) IN
         /\ r \in Row /\ r.transport = row.transport /\ r.turn = row.turn
         /\ row.status \notin {"running", "resuming"} => r = row
         /\ row.status \in {"running", "resuming"} => r.status \in {"running", "resuming", "interrupted"}
         /\ r.status = "running" /\ row.status = "resuming" => row.turn # NoTurn
         /\ r.status = "resuming" => r = row
         /\ r.status = "interrupted" /\ row.status # "interrupted" => r.error = "other"
         /\ r.status # "interrupted" => r.error = row.error
<1>0. "interrupted" \in PhaseStates /\ {"running", "interrupted"} \subseteq Statuses /\ "other" \in Errors
  BY DEF PhaseStates, Statuses, Finished, Errors
<1>1. ASSUME NEW r \in Row PROVE Written(Closed(r, "interrupted", "other"), r, "interrupted", r.turn, "other")
  <2> DEFINE c == FinishActiveLifecyclePhases(r, "interrupted")
  <2>1. Written(c, r, r.status, r.turn, r.error)
    BY <1>0, PhaseWrites
  <2> HIDE DEF c
  <2>2. Written([c EXCEPT !.status = "interrupted", !.error = "other"], r, "interrupted", r.turn, "other")
    BY <1>0, <2>1 DEF Written, Row
  <2> QED
    BY <2>2 DEF Closed, c
<1>2. Written([row EXCEPT !.status = "running"], row, "running", row.turn, row.error)
  BY <1>0 DEF Written, Row
<1> QED
  BY <1>1, <1>2 DEF InterruptInFlight, Written

=============================================================================

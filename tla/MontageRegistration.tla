-------------------------- MODULE MontageRegistration --------------------------
(***************************************************************************)
(* Registration of a finished montage in JianYing: the attempts of a task, *)
(* the bounded queue and its single worker, retries, recovery at start-up, *)
(* the audit of ready drafts and the reconciliation of their display       *)
(* names (internal/montage/coordinator.go, internal/store/montage.go).     *)
(* The registration script is external: it publishes the folder and then   *)
(* the receipt, or stops on the way.                                       *)
(***************************************************************************)
EXTENDS Naturals, Sequences

CONSTANTS Tasks, QueueCap, MaxReconcileRetries,
          MaxTries, MaxRestarts      \* bounds of the instance

MontageAssumption == QueueCap \in Nat \ {0} /\ MaxReconcileRetries \in Nat

VARIABLES task,     \* codex_tasks: "executing" until the montage result is there
          att,      \* montage_registration_attempts, oldest first
          asset,    \* the mix_draft version: its state and whether it has its display name
          disk,     \* the JianYing folder of the task: published, receipt, display name
          scripts,  \* times the script has published the folder
          queue,    \* Coordinator.queue
          sending,  \* tasks whose new attempt a handler is about to enqueue
          waiting,  \* reconciliation jobs waiting to be retried
          worker,   \* the coordinator's goroutine
          start,    \* what main still has to do at start-up
          restarts

vars == <<task, att, asset, disk, scripts, queue, sending, waiting, worker, start, restarts>>
rows == <<task, att, asset>>

Active == {"queued", "running"}
Off == [at |-> "off", task |-> 0, tries |-> 0]
Latest(t) == IF att[t] = <<>> THEN "none" ELSE att[t][Len(att[t])]
Job(t, kind, tries) == [task |-> t, kind |-> kind, tries |-> tries]

TypeOK ==
    /\ task \in [Tasks -> {"executing", "running", "completed", "failed", "canceled"}]
    /\ \A t \in Tasks : att[t] \in Seq(Active \cup {"failed", "interrupted", "succeeded"})
    /\ asset \in [Tasks -> [st : {"none", "ready", "stale"}, named : BOOLEAN]]
    /\ disk \in [Tasks -> [folder : BOOLEAN, receipt : BOOLEAN, named : BOOLEAN]]
    /\ sending \subseteq Tasks /\ start \in {"recover", "audit", "names", "up"}
    /\ Len(queue) <= QueueCap
    /\ worker.at \in {"off", "begin", "check", "config", "script", "receipt", "commit", "failcommit", "names", "rename", "renamed"}

Init ==
    /\ task = [t \in Tasks |-> "executing"] /\ att = [t \in Tasks |-> <<>>]
    /\ asset = [t \in Tasks |-> [st |-> "none", named |-> FALSE]]
    /\ disk = [t \in Tasks |-> [folder |-> FALSE, receipt |-> FALSE, named |-> FALSE]]
    /\ scripts = [t \in Tasks |-> 0]
    /\ queue = <<>> /\ sending = {} /\ waiting = {} /\ worker = Off
    /\ start = "up" /\ restarts = 0

----------------------------------------------------------------------------
(* New attempts *)

\* insertQueuedRegistration refuses a second active attempt of the task.
Queue(t) ==
    /\ \A n \in 1..Len(att[t]) : att[t][n] \notin Active
    /\ Len(att[t]) < MaxTries
    /\ att' = [att EXCEPT ![t] = Append(@, "queued")]
    /\ task' = [task EXCEPT ![t] = "running"]
    /\ sending' = sending \cup {t}

\* The result of a montage task is claimed, its artifacts stored, the attempt queued.
CompleteAndBegin(t) ==
    /\ task[t] = "executing" /\ Queue(t)
    /\ UNCHANGED <<asset, disk, scripts, queue, waiting, worker, start, restarts>>

\* The last attempt is repeated; the status of the task is not looked at.
BeginRetry(t) ==
    /\ Latest(t) \in {"failed", "interrupted"} /\ Queue(t)
    /\ UNCHANGED <<asset, disk, scripts, queue, waiting, worker, start, restarts>>

CancelTask(t) ==
    /\ task[t] \in {"executing", "running"}
    /\ task' = [task EXCEPT ![t] = "canceled"]
    /\ UNCHANGED <<att, asset, disk, scripts, queue, sending, waiting, worker, start, restarts>>

\* Fail, FailCommit: only an active attempt of a running task.
Failed(t) ==
    IF task[t] = "running" /\ Latest(t) \in Active
    THEN /\ att' = [att EXCEPT ![t][Len(att[t])] = "failed"]
         /\ task' = [task EXCEPT ![t] = "failed"]
    ELSE UNCHANGED <<att, task>>

\* Thirty seconds for a place in the queue; otherwise the attempt fails.
Enqueue(t) ==
    /\ t \in sending /\ sending' = sending \ {t}
    /\ \/ /\ Len(queue) < QueueCap
          /\ queue' = Append(queue, Job(t, "register", 0)) /\ UNCHANGED <<att, task>>
       \/ Failed(t) /\ UNCHANGED queue
    /\ UNCHANGED <<asset, disk, scripts, waiting, worker, start, restarts>>

----------------------------------------------------------------------------
(* Coordinator.process *)

Then(at) == worker' = [worker EXCEPT !.at = at]
Stop == worker' = Off
Rest == UNCHANGED <<queue, sending, waiting, start, restarts>>

TakeJob ==
    /\ worker = Off /\ queue # <<>>
    /\ queue' = Tail(queue)
    /\ worker' = [at |-> IF Head(queue).kind = "register" THEN "begin" ELSE "names",
                  task |-> Head(queue).task, tries |-> Head(queue).tries]
    /\ UNCHANGED <<rows, disk, scripts, sending, waiting, start, restarts>>

\* A task that is no longer running keeps its attempt queued: only a warning is written.
MarkRunning ==
    LET t == worker.task
    IN  /\ worker.at = "begin"
        /\ IF task[t] = "running" /\ Latest(t) = "queued"
           THEN att' = [att EXCEPT ![t][Len(att[t])] = "running"] /\ Then("check")
           ELSE UNCHANGED att /\ Stop
        /\ UNCHANGED <<task, asset, disk, scripts>> /\ Rest

GiveUp == Failed(worker.task) /\ Stop

\* ValidateRegisteredDraft: receipt, folder, fingerprints and root index agree.
Validated(d) == d.folder /\ d.receipt

\* Mutant: what an earlier attempt has published is not looked for.
RegisterAgain ==
    /\ worker.at = "check"
    /\ Then("config") /\ UNCHANGED <<rows, disk, scripts>> /\ Rest
\* The workspace digest, then what an earlier attempt may have published already.
RecoverRegisteredDraft ==
    LET d == disk[worker.task]
    IN  /\ worker.at = "check"
        /\ \/ Validated(d) /\ Then("commit") /\ UNCHANGED <<task, att>>
           \/ ~d.folder /\ ~d.receipt /\ Then("config") /\ UNCHANGED <<task, att>>
           \/ GiveUp
        /\ UNCHANGED <<asset, disk, scripts>> /\ Rest

\* Manifest, skill files, machine profile, interpreter and root are what was frozen.
ResolveRuntime ==
    /\ worker.at = "config"
    /\ (Then("script") /\ UNCHANGED <<task, att>>) \/ GiveUp
    /\ UNCHANGED <<asset, disk, scripts>> /\ Rest

PublishFolder ==
    LET t == worker.task
    IN  /\ worker.at = "script"
        /\ \/ /\ \E named \in BOOLEAN : disk' = [disk EXCEPT ![t].folder = TRUE, ![t].named = named]
              /\ scripts' = [scripts EXCEPT ![t] = @ + 1]
              /\ Then("receipt") /\ UNCHANGED <<task, att>>
           \/ GiveUp /\ UNCHANGED <<disk, scripts>>
        /\ UNCHANGED asset /\ Rest

WriteReceipt ==
    /\ worker.at = "receipt"
    /\ \/ /\ disk' = [disk EXCEPT ![worker.task].receipt = TRUE]
          /\ Then("commit") /\ UNCHANGED <<task, att>>
       \/ GiveUp /\ UNCHANGED disk
    /\ UNCHANGED <<asset, scripts>> /\ Rest

CanSucceed(t) == Latest(t) = "running" /\ task[t] = "running"

\* The commit may be refused, lost, or applied while its answer is lost.
Succeed ==
    LET t == worker.task
        commit == /\ CanSucceed(t)
                  /\ att' = [att EXCEPT ![t][Len(att[t])] = "succeeded"]
                  /\ asset' = [asset EXCEPT ![t] = [st |-> "ready", named |-> disk[t].named]]
                  /\ task' = [task EXCEPT ![t] = "completed"]
    IN  /\ worker.at = "commit"
        /\ \/ commit /\ Stop
           \/ commit /\ Then("failcommit")
           \/ UNCHANGED rows /\ Then("failcommit")
        /\ UNCHANGED <<disk, scripts>> /\ Rest

\* Mutant: the durable outcome of a lost answer is not read back.
FailCommitUnread ==
    LET t == worker.task
    IN  /\ worker.at = "failcommit" /\ Stop
        /\ task' = [task EXCEPT ![t] = IF @ \in {"running", "completed"} THEN "failed" ELSE @]
        /\ UNCHANGED <<att, asset, disk, scripts>> /\ Rest
\* A committed success is accepted, an unverifiable one made stale, anything else failed.
FailCommit ==
    LET t == worker.task
    IN  /\ worker.at = "failcommit" /\ Stop
        /\ IF Latest(t) = "succeeded"
           THEN IF asset[t].st = "ready" /\ task[t] = "completed" THEN UNCHANGED rows
                ELSE /\ asset' = [asset EXCEPT ![t].st = IF @ = "ready" THEN "stale" ELSE @]
                     /\ task' = [task EXCEPT ![t] = "failed"] /\ UNCHANGED att
           ELSE Failed(t) /\ UNCHANGED asset
        /\ UNCHANGED <<disk, scripts>> /\ Rest

----------------------------------------------------------------------------
(* Display names: a rename of the folder, then a compare-and-set of the version *)

NeedsName(t) == /\ asset[t] = [st |-> "ready", named |-> FALSE] /\ task[t] = "completed"
                /\ \A n \in 1..Len(att[t]) : att[t][n] \notin Active

ResolveReconciliationRuntime ==
    /\ worker.at = "names" /\ (Then("rename") \/ Stop)
    /\ UNCHANGED <<rows, disk, scripts>> /\ Rest

\* Busy is retried after a delay, three times.
RenameDraft ==
    LET t == worker.task
    IN  /\ worker.at = "rename"
        /\ \/ disk' = [disk EXCEPT ![t].named = TRUE] /\ Then("renamed") /\ UNCHANGED waiting
           \/ /\ worker.tries < MaxReconcileRetries /\ Stop
              /\ waiting' = waiting \cup {Job(t, "names", worker.tries + 1)} /\ UNCHANGED disk
           \/ Stop /\ UNCHANGED <<disk, waiting>>
        /\ UNCHANGED <<rows, scripts, queue, sending, start, restarts>>

CompleteDraftDisplayReconcile ==
    LET t == worker.task
    IN  /\ worker.at = "renamed" /\ Stop
        /\ asset' = IF asset[t].st = "ready" THEN [asset EXCEPT ![t].named = TRUE] ELSE asset
        /\ UNCHANGED <<task, att, disk, scripts>> /\ Rest

RetryReconciliation(j) ==
    /\ j \in waiting /\ waiting' = waiting \ {j}
    /\ \/ Len(queue) < QueueCap /\ queue' = Append(queue, j)
       \/ UNCHANGED queue
    /\ UNCHANGED <<rows, disk, scripts, sending, worker, start, restarts>>

----------------------------------------------------------------------------
(* Stop and start *)

Restart ==
    /\ restarts < MaxRestarts /\ restarts' = restarts + 1
    /\ queue' = <<>> /\ sending' = {} /\ waiting' = {} /\ worker' = Off
    /\ start' = "recover"
    /\ UNCHANGED <<rows, disk, scripts>>

\* Mutant: queued attempts are set running and not sent again.
RecoverWithoutSending(lost) ==
    /\ start = "recover" /\ start' = "audit"
    /\ att' = [t \in Tasks |-> IF Latest(t) = "running"
                              THEN [att[t] EXCEPT ![Len(att[t])] = "interrupted"] ELSE att[t]]
    /\ task' = [t \in Tasks |-> IF Latest(t) = "queued" THEN "running"
                               ELSE IF Latest(t) = "running" THEN "failed" ELSE task[t]]
    /\ UNCHANGED <<asset, disk, scripts, queue, sending, waiting, worker, restarts>>
\* Running attempts were cut off.  Queued ones are sent again, their tasks set running
\* whatever became of them meanwhile, unless the manifest or the workspace is gone.
RecoverActive(lost) ==
    LET was(t) == Latest(t)
        kept(t) == was(t) = "queued" /\ t \notin lost
    IN  /\ start = "recover" /\ start' = "audit"
        /\ att' = [t \in Tasks |->
             IF was(t) = "running" THEN [att[t] EXCEPT ![Len(att[t])] = "interrupted"]
             ELSE IF was(t) = "queued" /\ t \in lost THEN [att[t] EXCEPT ![Len(att[t])] = "failed"]
             ELSE att[t]]
        /\ task' = [t \in Tasks |->
             IF kept(t) THEN "running"
             ELSE IF was(t) \in Active /\ task[t] # "canceled" THEN "failed" ELSE task[t]]
        /\ sending' = sending \cup {t \in Tasks : kept(t)}
        /\ UNCHANGED <<asset, disk, scripts, queue, waiting, worker, restarts>>

\* A ready draft needs a succeeded attempt and its folder under the trusted root.
AuditMixDrafts(gone) ==
    /\ start = "audit" /\ start' = "names"
    /\ asset' = [t \in Tasks |->
         IF asset[t].st = "ready" /\ (t \in gone \/ ~disk[t].folder
                                      \/ \A n \in 1..Len(att[t]) : att[t][n] # "succeeded")
         THEN [asset[t] EXCEPT !.st = "stale"] ELSE asset[t]]
    /\ UNCHANGED <<task, att, disk, scripts, queue, sending, waiting, worker, restarts>>

ReconcileDisplayNames ==
    /\ start = "names" /\ start' = "up"
    /\ waiting' = waiting \cup {Job(t, "names", 0) : t \in {u \in Tasks : NeedsName(u)}}
    /\ UNCHANGED <<rows, disk, scripts, queue, sending, worker, restarts>>

Processing == TakeJob \/ MarkRunning \/ RecoverRegisteredDraft \/ ResolveRuntime
              \/ PublishFolder \/ WriteReceipt \/ Succeed \/ FailCommit
              \/ ResolveReconciliationRuntime \/ RenameDraft \/ CompleteDraftDisplayReconcile
Sending == (\E t \in Tasks : Enqueue(t)) \/ (\E j \in waiting : RetryReconciliation(j))
Starting == (\E S \in SUBSET Tasks : RecoverActive(S) \/ AuditMixDrafts(S)) \/ ReconcileDisplayNames
Asking == \E t \in Tasks : CompleteAndBegin(t) \/ BeginRetry(t) \/ CancelTask(t)

Next == Processing \/ Sending \/ Starting \/ Asking \/ Restart
Spec == Init /\ [][Next]_vars
FairSpec == Spec /\ WF_vars(Processing) /\ WF_vars(Sending) /\ WF_vars(Starting)

----------------------------------------------------------------------------
(* Properties *)

\* The shared JianYing folder of a task is published by the script at most once:
\* whatever fails after it, a later attempt takes the folder over (recoverRegisteredDraft).
PublishedOnce == \A t \in Tasks : scripts[t] <= 1

\* A ready draft is one whose registration succeeded, with folder and receipt on disk and
\* its task completed; a lost commit answer never moves it back (Succeed, FailCommit).
ReadyIsRegistered ==
    \A t \in Tasks :
        /\ asset[t].st = "ready" => /\ Latest(t) = "succeeded" /\ task[t] = "completed"
                                    /\ disk[t].folder /\ disk[t].receipt
        /\ task[t] = "completed" => asset[t].st # "none"

\* An attempt that is queued for a running task is decided or the task canceled, across
\* a full queue and restarts (enqueueJob, RecoverActive, run).
Waits(t) == Latest(t) \in Active /\ task[t] = "running"
Decided(t) == Latest(t) \notin Active \/ task[t] = "canceled"
RegistrationIsDecided == \A t \in Tasks : Waits(t) ~> Decided(t)
=============================================================================

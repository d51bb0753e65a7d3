------------------------------ MODULE ImageVideo ------------------------------
(***************************************************************************)
(* Image and video jobs: the request that starts a job, the durable job,   *)
(* item and attempt rows, the worker that submits scenes to the video      *)
(* provider and the lifecycle goroutine that builds and registers the      *)
(* draft.  One console runs at a time; a restart keeps the database, the   *)
(* drafts folder and the registration lock, and loses every goroutine.     *)
(*                                                                         *)
(* The version columns are not modelled: within one console every change   *)
(* that moves a version also moves a status, a lease or an attempt number  *)
(* that the same statement tests.                                          *)
(***************************************************************************)
EXTENDS Naturals, Sequences, FiniteSetsExt, SequencesExt

CONSTANTS Jobs,          \* idempotency keys 1..K, numbered in creation order
          Scenes,        \* ordinals of the items of every job
          ModeOf,        \* output mode each key asks for
          Callers,       \* requests that may be starting a job at once
          MaxVideoConcurrency, MaxAttempts,
          MaxRounds, MaxCrashes, MaxSlow, MaxFinals  \* bounds of the instance

ImageVideoAssumption ==
    /\ ModeOf \in [Jobs -> {"slideshow", "image_to_video"}]
    /\ MaxAttempts \in Nat \ {0} /\ MaxVideoConcurrency \in Nat \ {0}

VARIABLES job,      \* image_video_jobs
          item,     \* image_video_job_items
          row,      \* image_video_job_attempts of the item's current round
          locked,   \* output mode the project is locked to
          call,     \* Service.Start calls in progress
          loop,     \* where the lifecycle goroutine is
          proc,     \* processClaim goroutines of the current RunOnce
          finals,   \* the finalize channel
          wired,    \* the worker's DraftReady callback knows the lifecycle
          pub,      \* the registered draft: folder, root index, receipt
          lockdir,  \* the registration lock directory exists
          rounds, crashes, slow

vars == <<job, item, row, locked, call, loop, proc, finals, wired, pub, lockdir,
          rounds, crashes, slow>>
tables == <<job, item, row>>
disk == <<pub, lockdir>>
counts == <<rounds, crashes, slow>>

Places == Jobs \X Scenes
Attempts == 1..MaxAttempts

NoJob == [st |-> "none", phase |-> "preparing", draft |-> "null", reg |-> "null",
          narration |-> FALSE]
NewItem == [st |-> "pending", n |-> 0, req |-> 0, lease |-> "none"]
NoRow == [st |-> "none", req |-> FALSE, sent |-> 0]
NoRows == [n \in Attempts |-> NoRow]
Idle == [at |-> "idle", n |-> 0]

TypeOK ==
    /\ job \in [Jobs -> [st : {"none", "pending", "running", "succeeded", "failed", "canceled"},
                         phase : {"preparing", "media", "draft", "registration", "completed"},
                         draft : {"null", "pending", "running", "succeeded", "failed"},
                         reg : {"null", "pending", "succeeded", "failed"},
                         narration : BOOLEAN]]
    /\ item \in [Places -> [st : {"pending", "running", "succeeded", "failed", "canceled"},
                            n : 0..MaxAttempts, req : 0..MaxAttempts,
                            lease : {"none", "live", "expired"}]]
    /\ row \in [Places -> [Attempts -> [st : {"none", "running", "succeeded", "failed", "canceled"},
                                        req : BOOLEAN, sent : Nat]]]
    /\ locked \in {"none", "slideshow", "image_to_video"}
    /\ call \in [Callers -> [at : {"idle", "create", "save", "fail"}, key : Jobs]]
    /\ loop.pc \in {"select", "reconcile", "claim", "work", "last", "build", "lock",
                    "publish", "index", "receipt", "complete", "failed"}
    /\ proc \in [Places -> [at : {"idle", "begin", "submit", "save", "poll"}, n : 0..MaxAttempts]]
    /\ finals \in Seq(Jobs) /\ wired \in BOOLEAN /\ lockdir \in BOOLEAN
    /\ pub \in [Jobs -> [folder : BOOLEAN, index : BOOLEAN, receipt : BOOLEAN]]
    /\ rounds \in Nat /\ crashes \in Nat /\ slow \in Nat

Init ==
    /\ job = [j \in Jobs |-> NoJob]
    /\ item = [p \in Places |-> NewItem]
    /\ row = [p \in Places |-> NoRows]
    /\ locked = "none"
    /\ call = [c \in Callers |-> [at |-> "idle", key |-> 1]]
    /\ loop = [pc |-> "select", job |-> 1, narration |-> FALSE, err |-> "draft"]
    /\ proc = [p \in Places |-> Idle]
    /\ finals = <<>> /\ wired = TRUE /\ lockdir = FALSE
    /\ pub = [j \in Jobs |-> [folder |-> FALSE, index |-> FALSE, receipt |-> FALSE]]
    /\ rounds = 0 /\ crashes = 0 /\ slow = 0

----------------------------------------------------------------------------
(* Service.Start: produce the narration, create the job, save the narration *)

NeverPrepared(j) == job[j].st = "failed" /\ job[j].phase = "preparing" /\ ~job[j].narration

\* A known key that is not a failed preparation is answered with its job.
StartCall(c, j) ==
    /\ call[c].at = "idle" /\ (job[j].st = "none" \/ NeverPrepared(j))
    /\ call' = [call EXCEPT ![c] = [at |-> "create", key |-> j]]
    /\ UNCHANGED <<tables, locked, loop, proc, finals, wired, disk, counts>>

\* The narration, the timing or an image fails: the request ends with an error.
ProductionFails(c) ==
    /\ call[c].at = "create"
    /\ call' = [call EXCEPT ![c].at = "idle"]
    /\ UNCHANGED <<tables, locked, loop, proc, finals, wired, disk, counts>>

CreateAndLock(c) ==
    LET j == call[c].key
        Then(at) == call' = [call EXCEPT ![c].at = at]
    IN  /\ call[c].at = "create"
        /\ \/ /\ job[j].st # "none"
              /\ Then(IF job[j].st = "failed" /\ job[j].phase = "preparing" THEN "save" ELSE "idle")
              /\ UNCHANGED <<job, locked>>
           \/ /\ job[j].st = "none" /\ locked \notin {"none", ModeOf[j]}
              /\ Then("idle")
              /\ UNCHANGED <<job, locked>>
           \/ /\ job[j].st = "none" /\ locked \in {"none", ModeOf[j]}
              /\ \A k \in Jobs : k < j => job[k].st # "none"
              /\ job' = [job EXCEPT ![j].st = "pending"]
              /\ locked' = ModeOf[j]
              /\ Then("save")
        /\ UNCHANGED <<item, row, loop, proc, finals, wired, disk, counts>>

CanSaveNarration(j) == job[j].st \in {"pending", "failed"} /\ job[j].phase = "preparing"

\* A job the worker has already claimed is no longer preparing: the save conflicts.
SaveNarration(c) ==
    LET j == call[c].key
    IN  /\ call[c].at = "save"
        /\ \/ /\ CanSaveNarration(j)
              /\ job' = [job EXCEPT ![j].st = "pending", ![j].narration = TRUE]
              /\ call' = [call EXCEPT ![c].at = "idle"]
           \/ /\ call' = [call EXCEPT ![c].at = "fail"]
              /\ UNCHANGED job
        /\ UNCHANGED <<item, row, locked, loop, proc, finals, wired, disk, counts>>

FailPreparation(c) ==
    LET j == call[c].key
    IN  /\ call[c].at = "fail"
        /\ job' = IF CanSaveNarration(j) THEN [job EXCEPT ![j].st = "failed"] ELSE job
        /\ call' = [call EXCEPT ![c].at = "idle"]
        /\ UNCHANGED <<item, row, locked, loop, proc, finals, wired, disk, counts>>

----------------------------------------------------------------------------
(* Worker.RunOnce: requeue, reconcile, claim, process, reconcile again *)

\* Mutant: only claims whose request id was never saved are given back.
LapsedUnsent(p) == item[p].st = "running" /\ item[p].lease = "expired" /\ item[p].req = 0
Lapsed(p) == item[p].st = "running" /\ item[p].lease = "expired"

\* Mutants: the request id is dropped with the lease; the lost attempt is given back.
RequeuedBlank(it) ==
    [it EXCEPT !.st = IF it.req = 0 /\ it.n >= MaxAttempts THEN "failed" ELSE "pending",
               !.lease = "none", !.req = 0]
RequeuedSameAttempt(it) ==
    [it EXCEPT !.st = "pending", !.lease = "none", !.n = IF it.req = 0 /\ @ > 0 THEN @ - 1 ELSE @]
\* An item whose request id was saved goes back to pending with it, to be polled again.
Requeued(it) ==
    [it EXCEPT !.st = IF it.req = 0 /\ it.n >= MaxAttempts THEN "failed" ELSE "pending",
               !.lease = "none"]

RequeueExpired ==
    /\ loop.pc = "select"
    /\ item' = [p \in Places |-> IF Lapsed(p) THEN Requeued(item[p]) ELSE item[p]]
    /\ row' = [p \in Places |-> [n \in Attempts |->
                 IF Lapsed(p) /\ item[p].req = 0 /\ n = item[p].n /\ row[p][n].st = "running"
                 THEN [row[p][n] EXCEPT !.st = "failed"] ELSE row[p][n]]]
    /\ loop' = [loop EXCEPT !.pc = "reconcile"]
    /\ UNCHANGED <<job, locked, call, proc, finals, wired, disk, counts>>

Settled(j) ==
    /\ job[j].st \in {"pending", "running"} /\ job[j].phase \in {"preparing", "media"}
    /\ \A i \in Scenes : item[<<j, i>>].st \notin {"pending", "running"}
\* Mutant: one scene is enough.
MediaReadyInPart(j) == Settled(j) /\ \E i \in Scenes : item[<<j, i>>].st = "succeeded"
MediaReady(j) == Settled(j) /\ \A i \in Scenes : item[<<j, i>>].st = "succeeded"

Reconciled(j) ==
    IF MediaReady(j) THEN [job[j] EXCEPT !.st = "running", !.phase = "draft",
                                         !.draft = IF @ = "null" THEN "pending" ELSE @]
    ELSE IF Settled(j) THEN [job[j] EXCEPT !.st = "failed", !.phase = "media"]
    ELSE job[j]

\* The callback drops the notice while main has not yet handed it the lifecycle.
ReconcileMediaJobs ==
    /\ loop.pc \in {"reconcile", "last"}
    /\ job' = [j \in Jobs |-> Reconciled(j)]
    /\ finals' = IF wired THEN finals \o SetToSortSeq({j \in Jobs : MediaReady(j)}, <) ELSE finals
    /\ loop' = [loop EXCEPT !.pc = IF loop.pc = "last" THEN "select" ELSE "claim"]
    /\ UNCHANGED <<item, row, locked, call, proc, wired, disk, counts>>

RunningIn(js) == {p \in js \X Scenes : item[p].st = "running"}
Claimable == {p \in Places :
    /\ item[p].st = "pending" /\ job[p[1]].st \in {"pending", "running"}
    /\ Cardinality(RunningIn({j \in Jobs : job[j].st = "running"})) < MaxVideoConcurrency}
Before(p, q) == p[1] < q[1] \/ (p[1] = q[1] /\ p[2] <= q[2])

\* Jobs are created with a limit of MaxVideoConcurrency, so their own limit adds nothing.
\* The oldest job's first pending item is taken; nothing asks whether the narration is there.
ClaimNextItem(p) ==
    /\ loop.pc = "claim" /\ p \in Claimable /\ \A q \in Claimable : Before(p, q)
    /\ Cardinality({q \in Places : proc[q].at # "idle"}) < MaxVideoConcurrency
    /\ item' = [item EXCEPT ![p].st = "running", ![p].lease = "live"]
    /\ job' = [job EXCEPT ![p[1]].st = "running", ![p[1]].phase = "media"]
    /\ proc' = [proc EXCEPT ![p] = [at |-> "begin", n |-> item[p].n]]
    /\ UNCHANGED <<row, locked, call, loop, finals, wired, disk, counts>>

Claimed == {p \in Places : proc[p].at # "idle"}

StopClaiming ==
    /\ loop.pc = "claim"
    /\ Claimable = {} \/ Cardinality(Claimed) = MaxVideoConcurrency
    /\ loop' = [loop EXCEPT !.pc = IF Claimed = {} THEN "select" ELSE "work"]
    /\ UNCHANGED <<tables, locked, call, proc, finals, wired, disk, counts>>

\* wait.Wait(); an error of any claim returns before the second reconciliation.
WorkDone ==
    /\ loop.pc = "work" /\ Claimed = {}
    /\ \E pc \in {"last", "select"} : loop' = [loop EXCEPT !.pc = pc]
    /\ UNCHANGED <<tables, locked, call, proc, finals, wired, disk, counts>>

----------------------------------------------------------------------------
(* processClaim *)

Holds(p) == item[p].st = "running" /\ item[p].lease = "live"
AttemptMatchesClaim(p) == Holds(p) /\ item[p].n = proc[p].n

Leave(p) == proc' = [proc EXCEPT ![p] = Idle]
Goto(p, at, n) == proc' = [proc EXCEPT ![p] = [at |-> at, n |-> n]]

CompleteSlideshowItem(p) ==
    /\ loop.pc = "work" /\ proc[p].at = "begin" /\ ModeOf[p[1]] = "slideshow"
    /\ item' = IF Holds(p) THEN [item EXCEPT ![p].st = "succeeded", ![p].lease = "none"] ELSE item
    /\ Leave(p)
    /\ UNCHANGED <<job, row, locked, call, loop, finals, wired, disk, counts>>

\* A saved request is resumed with its attempt; otherwise the next attempt is opened.
BeginAttempt(p) ==
    LET next == proc[p].n + 1
    IN  /\ loop.pc = "work" /\ proc[p].at = "begin" /\ ModeOf[p[1]] = "image_to_video"
        /\ \/ /\ ~Holds(p) \/ job[p[1]].st # "running"
              /\ Leave(p) /\ UNCHANGED tables
           \/ /\ Holds(p) /\ job[p[1]].st = "running"
              /\ item[p].req > 0 /\ item[p].n > 0
              /\ Goto(p, "poll", item[p].n) /\ UNCHANGED tables
           \/ /\ Holds(p) /\ job[p[1]].st = "running"
              /\ item[p].req = 0 /\ next \in Attempts
              /\ row' = [row EXCEPT ![p][next] = IF @.st = "none" THEN [NoRow EXCEPT !.st = "running"] ELSE @]
              /\ item' = IF row[p][next].st = "none" THEN [item EXCEPT ![p].n = next] ELSE item
              /\ Goto(p, "submit", next) /\ UNCHANGED job
        /\ UNCHANGED <<locked, call, loop, finals, wired, disk, counts>>

FailAttempt(p, retryable) ==
    LET n == proc[p].n
        retry == retryable /\ n < MaxAttempts
    IN  /\ IF AttemptMatchesClaim(p) /\ row[p][n].st = "running"
           THEN /\ row' = [row EXCEPT ![p][n].st = "failed"]
                /\ item' = [item EXCEPT ![p] =
                     [@ EXCEPT !.st = IF retry THEN "pending" ELSE "failed",
                               !.req = IF retry THEN 0 ELSE item[p].req, !.lease = "none"]]
           ELSE UNCHANGED <<row, item>>
        /\ Leave(p)
        /\ UNCHANGED <<job, locked, call, loop, finals, wired, disk, counts>>

\* The provider accepts the request, or the image or the request fails.
SubmitAccepted(p) ==
    /\ proc[p].at = "submit"
    /\ row' = [row EXCEPT ![p][proc[p].n].sent = @ + 1]
    /\ Goto(p, "save", proc[p].n)
    /\ UNCHANGED <<job, item, locked, call, loop, finals, wired, disk, counts>>
SubmitRefused(p) == proc[p].at = "submit" /\ \E r \in BOOLEAN : FailAttempt(p, r)

SaveProviderRequestID(p) ==
    LET n == proc[p].n
        free == item[p].req = 0 /\ ~row[p][n].req /\ AttemptMatchesClaim(p) /\ row[p][n].st = "running"
    IN  /\ proc[p].at = "save"
        /\ row' = IF free THEN [row EXCEPT ![p][n].req = TRUE] ELSE row
        /\ item' = IF free THEN [item EXCEPT ![p].req = n] ELSE item
        /\ IF free THEN Goto(p, "poll", n) ELSE Leave(p)
        /\ UNCHANGED <<job, locked, call, loop, finals, wired, disk, counts>>

CompleteAttempt(p) ==
    LET n == proc[p].n
    IN  /\ proc[p].at = "poll"
        /\ IF AttemptMatchesClaim(p) /\ row[p][n].st = "running"
           THEN /\ row' = [row EXCEPT ![p][n].st = "succeeded"]
                /\ item' = [item EXCEPT ![p].st = "succeeded", ![p].lease = "none"]
           ELSE UNCHANGED <<row, item>>
        /\ Leave(p)
        /\ UNCHANGED <<job, locked, call, loop, finals, wired, disk, counts>>
PollFailed(p) == proc[p].at = "poll" /\ \E r \in BOOLEAN : FailAttempt(p, r)

\* The lease runs out: of a claim whose goroutine is gone, or of one that is slow.
LeaseRunsOut(p) ==
    /\ item[p].st = "running" /\ item[p].lease = "live"
    /\ \/ proc[p].at = "idle" /\ UNCHANGED slow
       \/ proc[p].at # "idle" /\ slow < MaxSlow /\ slow' = slow + 1
    /\ item' = [item EXCEPT ![p].lease = "expired"]
    /\ UNCHANGED <<job, row, locked, call, loop, proc, finals, wired, disk, rounds, crashes>>

----------------------------------------------------------------------------
(* Requests on an existing job *)

StartRetryRound(j) ==
    LET failed == {p \in {j} \X Scenes : item[p].st = "failed"}
    IN  /\ job[j].st = "failed" /\ failed # {} /\ rounds < MaxRounds
        /\ job' = [job EXCEPT ![j].st = "pending", ![j].phase = "media"]
        /\ item' = [p \in Places |-> IF p \in failed THEN NewItem ELSE item[p]]
        /\ row' = [p \in Places |-> IF p \in failed THEN NoRows ELSE row[p]]
        /\ rounds' = rounds + 1
        /\ UNCHANGED <<locked, call, loop, proc, finals, wired, disk, crashes, slow>>

Cancel(j) ==
    /\ job[j].st \in {"pending", "running"}
    /\ job' = [job EXCEPT ![j].st = "canceled"]
    /\ item' = [p \in Places |->
         IF p[1] = j /\ item[p].st \in {"pending", "running", "failed"}
         THEN [item[p] EXCEPT !.st = "canceled", !.lease = "none"] ELSE item[p]]
    /\ row' = [p \in Places |-> [n \in Attempts |->
         IF p[1] = j /\ item[p].st \in {"pending", "running", "failed"} /\ row[p][n].st = "running"
         THEN [row[p][n] EXCEPT !.st = "canceled"] ELSE row[p][n]]]
    /\ UNCHANGED <<locked, call, loop, proc, finals, wired, disk, counts>>

RetryRegistration(j) ==
    /\ job[j].phase = "registration" /\ job[j].draft = "succeeded" /\ job[j].reg = "failed"
    /\ Len(finals) < MaxFinals /\ rounds < MaxRounds
    /\ finals' = Append(finals, j) /\ rounds' = rounds + 1
    /\ UNCHANGED <<tables, locked, call, loop, proc, wired, disk, crashes, slow>>

----------------------------------------------------------------------------
(* Lifecycle.finalizeJob and HostRegistrar.Register *)

\* The row as it was is kept: it tells whether the draft has to be built.
BeginDraft ==
    LET j == Head(finals)
        whole == /\ job[j].phase \in {"draft", "registration"}
                 /\ \A i \in Scenes : item[<<j, i>>].st = "succeeded"
    IN  /\ loop.pc = "select" /\ finals # <<>>
        /\ finals' = Tail(finals)
        /\ job' = IF whole /\ job[j].st \in {"running", "failed"}
                  THEN [job EXCEPT ![j] = [@ EXCEPT !.st = "running", !.phase = "draft",
                                                    !.draft = "running", !.reg = "null"]]
                  ELSE job
        /\ loop' = IF whole THEN [pc |-> IF job[j].draft = "succeeded" THEN "lock" ELSE "build",
                                  job |-> j, narration |-> job[j].narration, err |-> "draft"]
                   ELSE loop
        /\ UNCHANGED <<item, row, locked, call, proc, wired, disk, counts>>

Fails(phase) == loop' = [loop EXCEPT !.pc = "failed", !.err = phase]

\* The draft script, then SaveDraft.
BuildDraft ==
    LET j == loop.job
    IN  /\ loop.pc = "build"
        /\ \/ /\ loop.narration /\ job[j].st = "running" /\ job[j].phase = "draft"
              /\ job' = [job EXCEPT ![j].phase = "registration", ![j].draft = "succeeded", ![j].reg = "pending"]
              /\ loop' = [loop EXCEPT !.pc = "lock"]
           \/ Fails("draft") /\ UNCHANGED job
        /\ UNCHANGED <<item, row, locked, call, proc, finals, wired, disk, counts>>

\* Thirty seconds for the lock directory; what a crash left there is never removed.
AcquireRegistrationLock ==
    /\ loop.pc = "lock"
    /\ IF lockdir THEN Fails("registration") /\ UNCHANGED lockdir
                  ELSE loop' = [loop EXCEPT !.pc = "publish"] /\ lockdir' = TRUE
    /\ UNCHANGED <<tables, locked, call, proc, finals, wired, pub, counts>>

Publish(p, pc) == pub' = [pub EXCEPT ![loop.job] = p] /\ loop' = [loop EXCEPT !.pc = pc]
Unlocked(phase) == Fails(phase) /\ lockdir' = FALSE

\* An existing folder is only validated: the receipt is written, the index never is.
PublishDraft ==
    LET p == pub[loop.job]
    IN  /\ loop.pc = "publish"
        /\ \/ ~p.folder /\ Publish([p EXCEPT !.folder = TRUE], "index") /\ UNCHANGED lockdir
           \/ p.folder /\ p.index /\ Publish([p EXCEPT !.receipt = TRUE], "complete") /\ lockdir' = FALSE
           \/ p.folder /\ ~p.index /\ Unlocked("registration")
              /\ pub' = [pub EXCEPT ![loop.job].receipt = TRUE]
           \/ ~p.folder /\ Unlocked("registration") /\ UNCHANGED pub
        /\ UNCHANGED <<tables, locked, call, proc, finals, wired, counts>>

UpsertRootIndex ==
    /\ loop.pc = "index"
    /\ \/ Publish([pub[loop.job] EXCEPT !.index = TRUE], "receipt") /\ UNCHANGED lockdir
       \/ Unlocked("registration") /\ UNCHANGED pub
    /\ UNCHANGED <<tables, locked, call, proc, finals, wired, counts>>

WriteReceipt ==
    /\ loop.pc = "receipt" /\ lockdir' = FALSE
    /\ \/ Publish([pub[loop.job] EXCEPT !.receipt = TRUE], "complete")
       \/ Fails("registration") /\ UNCHANGED pub
    /\ UNCHANGED <<tables, locked, call, proc, finals, wired, counts>>

CompleteRegistration ==
    LET j == loop.job
    IN  /\ loop.pc = "complete"
        /\ IF job[j].st = "running" /\ job[j].phase = "registration"
           THEN /\ job' = [job EXCEPT ![j] = [@ EXCEPT !.st = "succeeded", !.phase = "completed",
                                                       !.draft = "succeeded", !.reg = "succeeded"]]
                /\ loop' = [loop EXCEPT !.pc = "select"]
           ELSE Fails("registration") /\ UNCHANGED job
        /\ UNCHANGED <<item, row, locked, call, proc, finals, wired, disk, counts>>

\* The update tests the phase and not the status: a canceled job becomes failed.
FailDraftOrRegistration ==
    LET j == loop.job
    IN  /\ loop.pc = "failed"
        /\ job' = IF job[j].phase \in {"draft", "registration"}
                  THEN [job EXCEPT ![j] =
                         [@ EXCEPT !.st = "failed", !.phase = loop.err,
                                   !.draft = IF loop.err = "draft" THEN "failed" ELSE "succeeded",
                                   !.reg = IF loop.err = "draft" THEN "null" ELSE "failed"]]
                  ELSE job
        /\ loop' = [loop EXCEPT !.pc = "select"]
        /\ UNCHANGED <<item, row, locked, call, proc, finals, wired, disk, counts>>

\* The console stops anywhere and starts again; the database and the disk stay.
Restart ==
    /\ crashes < MaxCrashes /\ crashes' = crashes + 1
    /\ call' = [c \in Callers |-> [call[c] EXCEPT !.at = "idle"]]
    /\ proc' = [p \in Places |-> Idle]
    /\ loop' = [loop EXCEPT !.pc = "select"]
    /\ finals' = <<>> /\ wired' = FALSE
    /\ UNCHANGED <<tables, locked, disk, rounds, slow>>

\* main assigns the lifecycle the worker's callback uses, after its goroutine has started.
WireLifecycle ==
    /\ ~wired /\ wired' = TRUE
    /\ UNCHANGED <<tables, locked, call, loop, proc, finals, disk, counts>>

Serving == \E c \in Callers : CreateAndLock(c) \/ SaveNarration(c) \/ FailPreparation(c)
Working == \E p \in Places : CompleteSlideshowItem(p) \/ BeginAttempt(p) \/ SubmitAccepted(p)
              \/ SubmitRefused(p) \/ SaveProviderRequestID(p) \/ CompleteAttempt(p) \/ PollFailed(p)
Looping == \/ RequeueExpired \/ ReconcileMediaJobs \/ StopClaiming \/ WorkDone
           \/ \E p \in Places : ClaimNextItem(p)
Finalizing == BeginDraft \/ BuildDraft \/ AcquireRegistrationLock \/ PublishDraft
              \/ UpsertRootIndex \/ WriteReceipt \/ CompleteRegistration \/ FailDraftOrRegistration
Expiring == \E p \in Places : LeaseRunsOut(p)
Asking == \/ \E c \in Callers : ProductionFails(c) \/ \E j \in Jobs : StartCall(c, j)
          \/ \E j \in Jobs : StartRetryRound(j) \/ Cancel(j) \/ RetryRegistration(j)

Next == \/ Serving \/ Working \/ Looping \/ Finalizing \/ Expiring \/ Asking
        \/ Restart \/ WireLifecycle

Spec == Init /\ [][Next]_vars

\* The goroutines run, the provider answers, and a lease that nobody works under runs out.
Orphaned == \E p \in Places : proc[p].at = "idle" /\ LeaseRunsOut(p)
Fairness == /\ WF_vars(Working) /\ WF_vars(Looping) /\ WF_vars(Finalizing) /\ WF_vars(Orphaned)
            /\ SF_vars(RequeueExpired)
FairSpec == Spec /\ Fairness

----------------------------------------------------------------------------
(* Properties *)

\* No attempt is submitted to the provider twice, whatever the crashes, expired
\* leases and retries: a resumed attempt is polled and a lost one is abandoned
\* (BeginAttempt, SaveProviderRequestID, RequeueExpired).
SubmittedOnce == \A p \in Places, n \in Attempts : row[p][n].sent <= 1

\* A paid request is never orphaned: the attempt row that is still running is the
\* current attempt of an item that can be claimed again, and a saved request id is
\* on both rows (RequeueExpired, FailAttempt, Cancel).
RunningAttemptIsCurrent ==
    \A p \in Places, n \in Attempts : row[p][n].st = "running" =>
        /\ item[p].st \in {"running", "pending"} /\ item[p].n = n
        /\ row[p][n].req = (item[p].req = n)

\* A draft is only built from the media of every scene, after partial failures,
\* retry rounds and cancellations too (ReconcileMediaJobs, BeginDraft).
DraftFromAllScenes ==
    \A j \in Jobs : (job[j].phase \in {"draft", "registration", "completed"} \/ pub[j].folder) =>
        \A i \in Scenes : item[<<j, i>>].st = "succeeded"

\* A job in its media phase is decided: every scene ends and the job goes on to its
\* draft or fails; no lease, crash or lost request keeps it running.
InMedia(j) == job[j].st = "running" /\ job[j].phase = "media"
MediaIsDecided == \A j \in Jobs : InMedia(j) ~> ~InMedia(j)

\* The registration can be retried: a retry whose draft is published completes the job
\* (ImageVideoJobPanel.tsx, the retry button; RetryRegistration).
RetriedRegistrationCompletes ==
    [][\A j \in Jobs : (loop.pc = "complete" /\ loop.job = j /\ loop'.pc = "failed")
                       => job[j].st = "canceled"]_vars
=============================================================================

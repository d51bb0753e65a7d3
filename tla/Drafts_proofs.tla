----------------------------- MODULE Drafts_proofs -----------------------------
(***************************************************************************)
(* Proofs about the two components that put a draft into JianYing, for all *)
(* sets of jobs, scenes and tasks and any number of retries and crashes.   *)
(*                                                                         *)
(* ImageVideo: an attempt that runs is the current one of its item, and a  *)
(* goroutine works on the attempt it began (AttemptInv), so no attempt is  *)
(* submitted twice; a scene that has succeeded stays so, and whoever is    *)
(* past the media phase had all of them (MediaInv).                        *)
(*                                                                         *)
(* MontageRegistration: the worker runs the script only for a task without *)
(* a folder and commits only with folder and receipt on disk (FolderInv),  *)
(* and no step touches what a completed task has registered.               *)
(***************************************************************************)
EXTENDS ImageVideo, SequenceTheorems, TLAPS

JobRow == [st : {"none", "pending", "running", "succeeded", "failed", "canceled"},
           phase : {"preparing", "media", "draft", "registration", "completed"},
           draft : {"null", "pending", "running", "succeeded", "failed"},
           reg : {"null", "pending", "succeeded", "failed"},
           narration : BOOLEAN]
ItemRow == [st : {"pending", "running", "succeeded", "failed", "canceled"},
            n : 0..MaxAttempts, req : 0..MaxAttempts, lease : {"none", "live", "expired"}]
AttemptRow == [st : {"none", "running", "succeeded", "failed", "canceled"}, req : BOOLEAN, sent : Nat]
Goroutine == [at : {"idle", "begin", "submit", "save", "poll"}, n : 0..MaxAttempts]
Published == [folder : BOOLEAN, index : BOOLEAN, receipt : BOOLEAN]

JobsType == job \in [Jobs -> JobRow]
ItemsType == item \in [Places -> ItemRow]
RowsType == row \in [Places -> [Attempts -> AttemptRow]]
ProcType == proc \in [Places -> Goroutine]
LoopType == DOMAIN loop = {"pc", "job", "narration", "err"} /\ loop.err \in {"draft", "registration"}
PubType == pub \in [Jobs -> Published]

\* What the tables, the goroutines and the draft folders are.
TypeInv ==
  /\ JobsType /\ ItemsType /\ RowsType /\ ProcType /\ LoopType /\ PubType

\* An attempt that runs is the current one of an item that runs or waits, with its
\* request id on both rows or on none; one that waits has its request id.
Current(p) ==
  \A n \in Attempts : row[p][n].st = "running" =>
    /\ item[p].st \in {"running", "pending"} /\ item[p].n = n
    /\ row[p][n].req <=> item[p].req = n
    /\ item[p].st = "pending" \/ proc[p].at = "begin" => item[p].req = n

\* The attempts after the current one have no row; a request id is that of the
\* current one; a slideshow has no attempts; and nothing was sent twice.
Numbered(p) ==
  /\ \A n \in Attempts : n > item[p].n => row[p][n] = NoRow
  /\ item[p].req \in {0, item[p].n}
  /\ ModeOf[p[1]] = "slideshow" => \A n \in Attempts : row[p][n] = NoRow
  /\ \A n \in Attempts : row[p][n].sent <= 1

\* A goroutine works on the current attempt of an item that it alone claimed,
\* and has not sent what it is about to send.
Works(p) ==
  proc[p].at # "idle" =>
    /\ loop.pc \in {"claim", "work"} /\ item[p].st \in {"running", "canceled"} /\ proc[p].n = item[p].n
    /\ proc[p].at # "begin" => proc[p].n \in Attempts /\ ModeOf[p[1]] # "slideshow"
    /\ proc[p].at = "submit" => row[p][proc[p].n].sent = 0

AttemptInv == \A p \in Places : Current(p) /\ Numbered(p) /\ Works(p)

\* Every scene of the job has its media.
Whole(j) == \A i \in Scenes : item[<<j, i>>].st = "succeeded"

\* The lifecycle goroutine is at work on a job.
Building == {"build", "lock", "publish", "index", "receipt", "complete"}

MediaInv ==
  /\ \A j \in Jobs : (job[j].phase \in {"draft", "registration", "completed"} \/ pub[j].folder) => Whole(j)
  /\ loop.pc \in Building /\ loop.job \in Jobs => Whole(loop.job)

-----------------------------------------------------------------------------
(* Types                                                                   *)

LEMMA VideoInit ==
  ASSUME ImageVideoAssumption, Init
  PROVE  TypeInv /\ AttemptInv /\ MediaInv
<1> USE DEF Init, NoJob, NewItem, NoRow, NoRows, Idle, ImageVideoAssumption
<1>1. TypeInv
  BY DEF TypeInv, JobsType, ItemsType, RowsType, ProcType, LoopType, PubType, JobRow, ItemRow,
      AttemptRow, Goroutine, Published
<1>2. AttemptInv
  BY DEF AttemptInv, Current, Numbered, Works
<1>3. MediaInv
  BY DEF MediaInv, Building
<1> QED
  BY <1>1, <1>2, <1>3


LEMMA TypeFrame ==
  /\ UNCHANGED job /\ JobsType => JobsType'
  /\ UNCHANGED item /\ ItemsType => ItemsType'
  /\ UNCHANGED row /\ RowsType => RowsType'
  /\ UNCHANGED proc /\ ProcType => ProcType'
  /\ UNCHANGED loop /\ LoopType => LoopType'
  /\ UNCHANGED pub /\ PubType => PubType'
  BY DEF JobsType, ItemsType, RowsType, ProcType, LoopType, PubType

LEMMA TypeNext == TypeInv' <=> JobsType' /\ ItemsType' /\ RowsType' /\ ProcType' /\ LoopType' /\ PubType'
  BY DEF TypeInv

LEMMA ServingType ==
  ASSUME ImageVideoAssumption, TypeInv, Serving
  PROVE  TypeInv'
<1>1. UNCHANGED <<item, row, proc, loop, pub>>
  BY DEF Serving, CreateAndLock, SaveNarration, FailPreparation, tables, disk, counts
<1>2. JobsType'
  <2>1. ASSUME NEW c \in Callers, CreateAndLock(c)
        PROVE  JobsType'
    BY <2>1 DEF CreateAndLock, TypeInv, JobsType, JobRow
  <2>2. ASSUME NEW c \in Callers, SaveNarration(c)
        PROVE  JobsType'
    BY <2>2 DEF SaveNarration, TypeInv, JobsType, JobRow
  <2>3. ASSUME NEW c \in Callers, FailPreparation(c)
        PROVE  JobsType'
    BY ZenonT(60), <2>3 DEF FailPreparation, TypeInv, JobsType, JobRow
  <2> QED
    BY <2>1, <2>2, <2>3 DEF Serving
<1> QED
  BY <1>1, <1>2, TypeFrame, TypeNext DEF TypeInv

\* One item, one attempt, one goroutine is written.
LEMMA OneType ==
  ASSUME TypeInv, NEW p \in Places
  PROVE  /\ \A e \in ItemRow : [item EXCEPT ![p] = e] \in [Places -> ItemRow]
         /\ \A n \in Attempts, e \in AttemptRow : [row EXCEPT ![p][n] = e] \in [Places -> [Attempts -> AttemptRow]]
         /\ \A e \in Goroutine : [proc EXCEPT ![p] = e] \in [Places -> Goroutine]
         /\ item[p] \in ItemRow /\ proc[p] \in Goroutine /\ \A n \in Attempts : row[p][n] \in AttemptRow
BY DEF TypeInv, ItemsType, RowsType, ProcType

LEMMA FailType ==
  ASSUME ImageVideoAssumption, TypeInv, NEW p \in Places, NEW r \in BOOLEAN, proc[p].at # "idle",
         FailAttempt(p, r)
  PROVE  TypeInv'
<1>1. UNCHANGED <<job, loop, pub>>
  BY DEF FailAttempt, disk
<1>2. ItemsType'
  <2> DEFINE retry == r /\ proc[p].n < MaxAttempts
             e == [item[p] EXCEPT !.st = IF retry THEN "pending" ELSE "failed",
                                  !.req = IF retry THEN 0 ELSE item[p].req, !.lease = "none"]
  <2>1. item' = item \/ item' = [item EXCEPT ![p] = e]
    BY DEF FailAttempt
  <2>2. item[p] \in ItemRow /\ 0 \in 0..MaxAttempts
    BY OneType DEF ImageVideoAssumption
  <2>3. e \in ItemRow
    <3> HIDE DEF retry
    <3> QED
      BY <2>2 DEF ItemRow
  <2> HIDE DEF e
  <2> QED
    BY <2>1, <2>3, OneType DEF TypeInv, ItemsType
<1>3. RowsType'
  <2>1. row' = row \/ (row[p][proc[p].n].st = "running" /\ row' = [row EXCEPT ![p][proc[p].n].st = "failed"])
    BY DEF FailAttempt
  <2>2. \A a \in AttemptRow : [a EXCEPT !.st = "failed"] \in AttemptRow
    BY DEF AttemptRow
  <2> QED
    BY <2>1, <2>2 DEF TypeInv, RowsType
<1>4. ProcType'
  BY DEF FailAttempt, Leave, Idle, TypeInv, ProcType, Goroutine, ImageVideoAssumption
<1> QED
  BY <1>1, <1>2, <1>3, <1>4, TypeFrame, TypeNext DEF TypeInv

LEMMA WorkingType ==
  ASSUME ImageVideoAssumption, TypeInv, Working
  PROVE  TypeInv'
<1>1. ASSUME NEW p \in Places, CompleteSlideshowItem(p)
      PROVE  TypeInv'
  <2>1. [item[p] EXCEPT !.st = "succeeded", !.lease = "none"] \in ItemRow
    BY OneType DEF ItemRow
  <2>2. Idle \in Goroutine
    BY DEF Idle, Goroutine, ImageVideoAssumption
  <2> QED
    BY <1>1, <2>1, <2>2, OneType, TypeFrame, TypeNext
    DEF CompleteSlideshowItem, Leave, TypeInv, ItemsType, ProcType, disk
<1>2. ASSUME NEW p \in Places, BeginAttempt(p)
      PROVE  TypeInv'
  <2> DEFINE next == proc[p].n + 1
  <2>1. UNCHANGED <<job, loop, pub>>
    BY <1>2 DEF BeginAttempt, tables, disk
  <2>2. Idle \in Goroutine /\ [at |-> "poll", n |-> item[p].n] \in Goroutine
    BY OneType DEF Idle, Goroutine, ItemRow, ImageVideoAssumption
  <2>3. ASSUME next \in Attempts
        PROVE  [at |-> "submit", n |-> next] \in Goroutine /\ [item[p] EXCEPT !.n = next] \in ItemRow
    <3>1. next \in 0..MaxAttempts
      BY <2>3 DEF Attempts, ImageVideoAssumption
    <3> HIDE DEF next
    <3> QED
      BY <3>1, OneType DEF Goroutine, ItemRow
  <2>a. [NoRow EXCEPT !.st = "running"] \in AttemptRow
    BY DEF AttemptRow, NoRow
  <2>4. ProcType'
    BY <1>2, <2>2, <2>3, OneType DEF BeginAttempt, Leave, Goto, ProcType
  <2>5. ItemsType'
    BY <1>2, <2>3, OneType DEF BeginAttempt, tables, TypeInv, ItemsType
  <2>6. RowsType'
    <3>1. row' = row \/ (next \in Attempts /\ row' = [row EXCEPT ![p][next] =
                           IF row[p][next].st = "none" THEN [NoRow EXCEPT !.st = "running"] ELSE row[p][next]])
      BY <1>2 DEF BeginAttempt, tables
    <3>2. CASE row' = row
      BY <3>2, TypeFrame DEF TypeInv
    <3>3. CASE next \in Attempts /\ row' # row
      <4> DEFINE e == IF row[p][next].st = "none" THEN [NoRow EXCEPT !.st = "running"] ELSE row[p][next]
      <4>1. e \in AttemptRow
        BY <2>a, <3>3, OneType
      <4>2. row' = [row EXCEPT ![p][next] = e]
        BY <3>1, <3>3
      <4> HIDE DEF e, next
      <4> QED
        BY <3>3, <4>1, <4>2, OneType DEF RowsType
    <3> QED
      BY <3>1, <3>2, <3>3
  <2> QED
    BY <2>1, <2>4, <2>5, <2>6, TypeFrame, TypeNext DEF TypeInv
<1>3. ASSUME NEW p \in Places, SubmitAccepted(p)
      PROVE  TypeInv'
  <2>1. \A a \in AttemptRow : [a EXCEPT !.sent = @ + 1] \in AttemptRow
    BY DEF AttemptRow
  <2>2. RowsType'
    BY <1>3, <2>1 DEF SubmitAccepted, TypeInv, RowsType
  <2>3. [at |-> "save", n |-> proc[p].n] \in Goroutine
    BY OneType DEF Goroutine
  <2>4. ProcType'
    BY <1>3, <2>3, OneType DEF SubmitAccepted, Goto, ProcType
  <2> QED
    BY <1>3, <2>2, <2>4, TypeFrame, TypeNext DEF SubmitAccepted, TypeInv, disk
<1>4. ASSUME NEW p \in Places, SaveProviderRequestID(p)
      PROVE  TypeInv'
  <2>1. \A a \in AttemptRow : [a EXCEPT !.req = TRUE] \in AttemptRow
    BY DEF AttemptRow
  <2>2. RowsType'
    BY <1>4, <2>1 DEF SaveProviderRequestID, TypeInv, RowsType
  <2>3. [at |-> "poll", n |-> proc[p].n] \in Goroutine /\ Idle \in Goroutine
        /\ [item[p] EXCEPT !.req = proc[p].n] \in ItemRow
    BY OneType DEF Goroutine, Idle, ItemRow, ImageVideoAssumption
  <2>4. ProcType' /\ ItemsType'
    BY <1>4, <2>3, OneType DEF SaveProviderRequestID, Goto, Leave, TypeInv, ProcType, ItemsType
  <2> QED
    BY <1>4, <2>2, <2>4, TypeFrame, TypeNext DEF SaveProviderRequestID, TypeInv, disk
<1>5. ASSUME NEW p \in Places, CompleteAttempt(p)
      PROVE  TypeInv'
  <2>1. \A a \in AttemptRow : [a EXCEPT !.st = "succeeded"] \in AttemptRow
    BY DEF AttemptRow
  <2>2. RowsType'
    BY SMTT(60), <1>5, <2>1 DEF CompleteAttempt, TypeInv, RowsType
  <2>3. [item[p] EXCEPT !.st = "succeeded", !.lease = "none"] \in ItemRow
    BY OneType DEF ItemRow
  <2>5. Idle \in Goroutine
    BY DEF Idle, Goroutine, ImageVideoAssumption
  <2>4. ProcType' /\ ItemsType'
    BY ZenonT(60), <1>5, <2>3, <2>5, OneType DEF CompleteAttempt, Leave, TypeInv, ProcType, ItemsType
  <2> QED
    BY <1>5, <2>2, <2>4, TypeFrame, TypeNext DEF CompleteAttempt, TypeInv, disk
<1>6. ASSUME NEW p \in Places, SubmitRefused(p) \/ PollFailed(p)
      PROVE  TypeInv'
  BY <1>6, FailType DEF SubmitRefused, PollFailed
<1> QED
  BY <1>1, <1>2, <1>3, <1>4, <1>5, <1>6 DEF Working

LEMMA LoopingType ==
  ASSUME ImageVideoAssumption, TypeInv, Looping
  PROVE  TypeInv'
<1>1. CASE RequeueExpired
  <2>1. \A e \in ItemRow : Requeued(e) \in ItemRow
    BY DEF Requeued, ItemRow
  <2>2. \A a \in AttemptRow : [a EXCEPT !.st = "failed"] \in AttemptRow
    BY DEF AttemptRow
  <2>3. ItemsType'
    BY <1>1, <2>1 DEF RequeueExpired, TypeInv, ItemsType
  <2>4. RowsType'
    BY <1>1, <2>2 DEF RequeueExpired, TypeInv, RowsType
  <2> QED
    BY <1>1, <2>3, <2>4, TypeFrame, TypeNext DEF RequeueExpired, TypeInv, LoopType, disk
<1>2. CASE ReconcileMediaJobs
  <2>1. \A j \in Jobs : Reconciled(j) \in JobRow
    BY DEF Reconciled, TypeInv, JobsType, JobRow
  <2>2. JobsType' /\ LoopType'
    BY <1>2, <2>1 DEF ReconcileMediaJobs, TypeInv, JobsType, LoopType
  <2> QED
    BY <1>2, <2>2, TypeFrame, TypeNext DEF ReconcileMediaJobs, TypeInv, disk
<1>3. CASE StopClaiming \/ WorkDone
  BY <1>3, TypeFrame, TypeNext DEF StopClaiming, WorkDone, TypeInv, LoopType, tables, disk
<1>4. ASSUME NEW p \in Places, ClaimNextItem(p)
      PROVE  TypeInv'
  <2>1. p[1] \in Jobs
    BY DEF Places
  <2>2. [item[p] EXCEPT !.st = "running", !.lease = "live"] \in ItemRow
        /\ [at |-> "begin", n |-> item[p].n] \in Goroutine
    BY OneType DEF ItemRow, Goroutine
  <2>3. ItemsType' /\ ProcType'
    BY <1>4, <2>2, OneType DEF ClaimNextItem, ItemsType, ProcType
  <2>4. JobsType'
    BY <1>4, <2>1 DEF ClaimNextItem, TypeInv, JobsType, JobRow
  <2> QED
    BY <1>4, <2>3, <2>4, TypeFrame, TypeNext DEF ClaimNextItem, TypeInv, disk
<1> QED
  BY <1>1, <1>2, <1>3, <1>4 DEF Looping

LEMMA FinalizingType ==
  ASSUME ImageVideoAssumption, TypeInv, Finalizing
  PROVE  TypeInv'
<1>1. UNCHANGED <<item, row, proc>>
  BY DEF Finalizing, BeginDraft, BuildDraft, AcquireRegistrationLock, PublishDraft, UpsertRootIndex,
         WriteReceipt, CompleteRegistration, FailDraftOrRegistration, tables
<1>2. LoopType'
  <2> USE DEF TypeInv, LoopType
  <2>1. CASE BeginDraft
    BY <2>1 DEF BeginDraft
  <2>2. CASE BuildDraft \/ AcquireRegistrationLock \/ CompleteRegistration \/ FailDraftOrRegistration
    BY <2>2 DEF BuildDraft, AcquireRegistrationLock, CompleteRegistration, FailDraftOrRegistration, Fails
  <2>3. CASE PublishDraft \/ UpsertRootIndex \/ WriteReceipt
    BY <2>3 DEF PublishDraft, UpsertRootIndex, WriteReceipt, Publish, Unlocked, Fails
  <2> QED
    BY <2>1, <2>2, <2>3 DEF Finalizing
<1>3. JobsType'
  <2>1. CASE BeginDraft
    BY ZenonT(60), <2>1 DEF BeginDraft, TypeInv, JobsType, JobRow
  <2>2. CASE BuildDraft
    <3>1. \A r \in JobRow : [r EXCEPT !.phase = "registration", !.draft = "succeeded", !.reg = "pending"] \in JobRow
      BY DEF JobRow
    <3>2. CASE job' = [job EXCEPT ![loop.job].phase = "registration", ![loop.job].draft = "succeeded",
                                  ![loop.job].reg = "pending"]
      <4>1. CASE loop.job \in Jobs
        BY <3>2, <4>1 DEF TypeInv, JobsType, JobRow
      <4>2. CASE loop.job \notin Jobs
        BY <3>2, <4>2 DEF TypeInv, JobsType
      <4> QED
        BY <4>1, <4>2
    <3>3. CASE job' = job
      BY <3>3, TypeFrame DEF TypeInv
    <3> QED
      BY <2>2, <3>2, <3>3 DEF BuildDraft
  <2>3. CASE CompleteRegistration
    <3>1. \A r \in JobRow : [r EXCEPT !.st = "succeeded", !.phase = "completed", !.draft = "succeeded",
                                     !.reg = "succeeded"] \in JobRow
      BY DEF JobRow
    <3>2. job' = job \/ job' = [job EXCEPT ![loop.job] = [@ EXCEPT !.st = "succeeded", !.phase = "completed",
                                                              !.draft = "succeeded", !.reg = "succeeded"]]
      BY <2>3 DEF CompleteRegistration
    <3> QED
      BY <3>1, <3>2 DEF TypeInv, JobsType
  <2>4. CASE FailDraftOrRegistration
    <3> DEFINE e == [job[loop.job] EXCEPT !.st = "failed", !.phase = loop.err,
                       !.draft = IF loop.err = "draft" THEN "failed" ELSE "succeeded",
                       !.reg = IF loop.err = "draft" THEN "null" ELSE "failed"]
    <3>1. job' = job \/ job' = [job EXCEPT ![loop.job] = e]
      BY <2>4 DEF FailDraftOrRegistration
    <3>2. ASSUME loop.job \in Jobs
          PROVE  e \in JobRow
      <4>1. \A r \in JobRow, f \in {"draft", "registration"}, d \in {"failed", "succeeded"}, g \in {"null", "failed"} :
              [r EXCEPT !.st = "failed", !.phase = f, !.draft = d, !.reg = g] \in JobRow
        BY DEF JobRow
      <4>2. loop.err \in {"draft", "registration"} /\ job[loop.job] \in JobRow
        BY <3>2 DEF TypeInv, LoopType, JobsType
      <4> QED
        BY <4>1, <4>2
    <3> HIDE DEF e
    <3> QED
      BY <3>1, <3>2 DEF TypeInv, JobsType
  <2>5. CASE AcquireRegistrationLock \/ PublishDraft \/ UpsertRootIndex \/ WriteReceipt
    BY <2>5, TypeFrame DEF AcquireRegistrationLock, PublishDraft, UpsertRootIndex, WriteReceipt, tables, TypeInv
  <2> QED
    BY <2>1, <2>2, <2>3, <2>4, <2>5 DEF Finalizing
<1>4. PubType'
  <2>1. CASE PublishDraft
    BY ZenonT(60), <2>1 DEF PublishDraft, Publish, TypeInv, PubType, Published
  <2>2. CASE UpsertRootIndex \/ WriteReceipt
    <3>1. \A d \in Published : [d EXCEPT !.index = TRUE] \in Published /\ [d EXCEPT !.receipt = TRUE] \in Published
      BY DEF Published
    <3>2. UNCHANGED pub \/ pub' = [pub EXCEPT ![loop.job] = [@ EXCEPT !.index = TRUE]]
                        \/ pub' = [pub EXCEPT ![loop.job] = [@ EXCEPT !.receipt = TRUE]]
      BY <2>2 DEF UpsertRootIndex, WriteReceipt, Publish
    <3> QED
      BY <3>1, <3>2 DEF TypeInv, PubType
  <2>3. CASE BeginDraft \/ BuildDraft \/ AcquireRegistrationLock \/ CompleteRegistration \/ FailDraftOrRegistration
    BY <2>3, TypeFrame DEF BeginDraft, BuildDraft, AcquireRegistrationLock, CompleteRegistration,
                           FailDraftOrRegistration, disk, TypeInv
  <2> QED
    BY <2>1, <2>2, <2>3 DEF Finalizing
<1> QED
  BY <1>1, <1>2, <1>3, <1>4, TypeFrame, TypeNext DEF TypeInv

LEMMA AskingType ==
  ASSUME ImageVideoAssumption, TypeInv, Asking \/ Expiring \/ Restart \/ WireLifecycle
  PROVE  TypeInv'
<1>1. ASSUME NEW c \in Callers, ProductionFails(c) \/ \E j \in Jobs : StartCall(c, j)
      PROVE  TypeInv'
  BY <1>1, TypeFrame, TypeNext DEF ProductionFails, StartCall, tables, disk, TypeInv
<1>2. ASSUME NEW j \in Jobs, StartRetryRound(j)
      PROVE  TypeInv'
  <2>1. NewItem \in ItemRow /\ NoRows \in [Attempts -> AttemptRow]
    BY DEF NewItem, ItemRow, NoRows, NoRow, AttemptRow, ImageVideoAssumption
  <2>2. ItemsType' /\ RowsType'
    BY <1>2, <2>1 DEF StartRetryRound, TypeInv, ItemsType, RowsType
  <2>3. JobsType'
    <3>1. [job[j] EXCEPT !.st = "pending", !.phase = "media"] \in JobRow
      BY DEF TypeInv, JobsType, JobRow
    <3>2. job' = [job EXCEPT ![j] = [@ EXCEPT !.st = "pending", !.phase = "media"]]
      BY <1>2 DEF StartRetryRound
    <3> QED
      BY <3>1, <3>2 DEF TypeInv, JobsType
  <2> QED
    BY <1>2, <2>2, <2>3, TypeFrame, TypeNext DEF StartRetryRound, TypeInv, disk
<1>3. ASSUME NEW j \in Jobs, Cancel(j)
      PROVE  TypeInv'
  <2>1. \A e \in ItemRow : [e EXCEPT !.st = "canceled", !.lease = "none"] \in ItemRow
    BY DEF ItemRow
  <2>2. \A a \in AttemptRow : [a EXCEPT !.st = "canceled"] \in AttemptRow
    BY DEF AttemptRow
  <2>3. ItemsType' /\ RowsType'
    BY <1>3, <2>1, <2>2 DEF Cancel, TypeInv, ItemsType, RowsType
  <2>4. JobsType'
    BY ZenonT(60), <1>3 DEF Cancel, TypeInv, JobsType, JobRow
  <2> QED
    BY <1>3, <2>3, <2>4, TypeFrame, TypeNext DEF Cancel, TypeInv, disk
<1>4. ASSUME NEW j \in Jobs, RetryRegistration(j)
      PROVE  TypeInv'
  BY <1>4, TypeFrame, TypeNext DEF RetryRegistration, tables, disk, TypeInv
<1>5. ASSUME NEW p \in Places, LeaseRunsOut(p)
      PROVE  TypeInv'
  <2>1. [item[p] EXCEPT !.lease = "expired"] \in ItemRow
    BY OneType DEF ItemRow
  <2> QED
    BY <1>5, <2>1, OneType, TypeFrame, TypeNext DEF LeaseRunsOut, TypeInv, ItemsType, disk
<1>6. CASE Restart
  BY <1>6, TypeFrame, TypeNext
  DEF Restart, TypeInv, ProcType, LoopType, Idle, Goroutine, ImageVideoAssumption, tables, disk
<1>7. CASE WireLifecycle
  BY <1>7, TypeFrame, TypeNext DEF WireLifecycle, tables, disk, TypeInv
<1> QED
  BY <1>1, <1>2, <1>3, <1>4, <1>5, <1>6, <1>7 DEF Asking, Expiring

LEMMA VideoType ==
  ASSUME ImageVideoAssumption, TypeInv, [Next]_vars
  PROVE  TypeInv'
<1>1. CASE UNCHANGED vars
  BY <1>1, TypeFrame, TypeNext DEF vars, TypeInv
<1> QED
  BY <1>1, ServingType, WorkingType, LoopingType, FinalizingType, AskingType DEF Next

-----------------------------------------------------------------------------
(* Attempts                                                                *)

\* What is said of the attempts of a place depends on that place alone.
LEMMA OtherPlaces ==
  ASSUME AttemptInv, NEW q \in Places,
         item'[q] = item[q], row'[q] = row[q], proc'[q] = proc[q], loop'.pc = loop.pc
  PROVE  Current(q)' /\ Numbered(q)' /\ Works(q)'
BY DEF AttemptInv, Current, Numbered, Works

\* The row and the goroutine of one place change: the others are left alone.
LEMMA OnePlace ==
  ASSUME TypeInv, AttemptInv, NEW p \in Places, loop' = loop,
         \A q \in Places \ {p} : item'[q] = item[q] /\ row'[q] = row[q] /\ proc'[q] = proc[q],
         Current(p)' /\ Numbered(p)' /\ Works(p)'
  PROVE  AttemptInv'
BY OtherPlaces DEF AttemptInv

\* A goroutine that leaves has nothing to answer for.
LEMMA Leaves ==
  ASSUME TypeInv, NEW p \in Places, Leave(p)
  PROVE  /\ proc'[p].at = "idle" /\ Works(p)'
         /\ \A q \in Places \ {p} : proc'[q] = proc[q]
BY DEF TypeInv, ProcType, Leave, Idle, Works

LEMMA FailAttempts ==
  ASSUME ImageVideoAssumption, TypeInv, AttemptInv, NEW p \in Places, NEW r \in BOOLEAN,
         proc[p].at # "idle", proc[p].at # "begin", FailAttempt(p, r)
  PROVE  AttemptInv'
<1> DEFINE n == proc[p].n
           retry == r /\ n < MaxAttempts
<1>1. Current(p) /\ Numbered(p) /\ Works(p) /\ n \in Attempts /\ item[p].n = n
  BY DEF AttemptInv, Works
<1>2. Works(p)' /\ proc'[p].at = "idle" /\ \A q \in Places \ {p} : proc'[q] = proc[q]
  BY Leaves DEF FailAttempt
<1>3. loop' = loop
  BY DEF FailAttempt
<1>4. CASE AttemptMatchesClaim(p) /\ row[p][n].st = "running"
  <2>1. row' = [row EXCEPT ![p][n].st = "failed"]
    BY <1>4 DEF FailAttempt
  <2>2. item' = [item EXCEPT ![p] =
                   [item[p] EXCEPT !.st = IF retry THEN "pending" ELSE "failed",
                                   !.req = IF retry THEN 0 ELSE item[p].req, !.lease = "none"]]
    BY <1>4 DEF FailAttempt
  <2>3. /\ \A q \in Places \ {p} : item'[q] = item[q] /\ row'[q] = row[q]
        /\ \A m \in Attempts : m # n => row'[p][m] = row[p][m]
        /\ row'[p][n] = [row[p][n] EXCEPT !.st = "failed"]
    BY <2>1, <2>2, <1>1 DEF TypeInv, ItemsType, RowsType
  <2>4. item'[p].n = n /\ item'[p].req \in {0, item[p].req}
    BY <2>2, <1>1 DEF TypeInv, ItemsType, ItemRow
  <2>5. row'[p][n].st = "failed" /\ row'[p][n].sent = row[p][n].sent
    BY <2>3, <1>1, OneType DEF AttemptRow
  <2>6. \A m \in Attempts : row'[p][m].st # "running"
    <3>1. ASSUME NEW m \in Attempts, m # n, row[p][m].st = "running"
          PROVE  FALSE
      BY <3>1, <1>1 DEF Current
    <3> HIDE DEF n
    <3> QED
      BY <2>3, <2>5, <3>1
  <2>7. Current(p)'
    BY <2>6 DEF Current
  <2>8. Numbered(p)'
    <3>0. \A m \in Attempts : m > n => m # n
      BY <1>1 DEF Attempts, ImageVideoAssumption
    <3>1. \A m \in Attempts : m > n => row'[p][m] = NoRow
      <4> HIDE DEF n
      <4> QED
        BY <1>1, <2>3, <3>0 DEF Numbered
    <3>2. item'[p].req \in {0, n}
      BY <1>1, <2>4 DEF Numbered
    <3>3. \A m \in Attempts : row'[p][m].sent <= 1
      BY <1>1, <2>3, <2>5 DEF Numbered
    <3>4. ModeOf[p[1]] # "slideshow"
      BY <1>1 DEF Works
    <3> QED
      BY <2>4, <3>1, <3>2, <3>3, <3>4 DEF Numbered
  <2> QED
    BY <1>2, <1>3, <2>3, <2>7, <2>8, OnePlace
<1>5. CASE ~(AttemptMatchesClaim(p) /\ row[p][n].st = "running")
  <2>1. UNCHANGED <<item, row>>
    BY <1>5 DEF FailAttempt
  <2>2. Current(p)' /\ Numbered(p)'
    BY <1>1, <1>2, <2>1 DEF Current, Numbered
  <2> QED
    BY <1>2, <1>3, <2>1, <2>2, OnePlace
<1> QED
  BY <1>4, <1>5

LEMMA WorkingAttempts ==
  ASSUME ImageVideoAssumption, TypeInv, AttemptInv, Working
  PROVE  AttemptInv'
<1>0. \A p \in Places : Current(p) /\ Numbered(p) /\ Works(p)
  BY DEF AttemptInv
<1>1. ASSUME NEW p \in Places, CompleteSlideshowItem(p)
      PROVE  AttemptInv'
  <2>1. loop' = loop /\ row' = row /\ Works(p)' /\ \A q \in Places \ {p} : proc'[q] = proc[q]
    BY <1>1, Leaves DEF CompleteSlideshowItem
  <2>2. /\ \A q \in Places \ {p} : item'[q] = item[q]
        /\ item'[p].n = item[p].n /\ item'[p].req = item[p].req
    BY <1>1 DEF CompleteSlideshowItem, TypeInv, ItemsType, ItemRow
  <2>3. \A n \in Attempts : row[p][n] = NoRow
    BY <1>0, <1>1 DEF CompleteSlideshowItem, Numbered
  <2>4. Current(p)' /\ Numbered(p)'
    BY <1>0, <2>1, <2>2, <2>3 DEF Current, Numbered, NoRow
  <2> QED
    BY <2>1, <2>2, <2>4, OnePlace
<1>2. ASSUME NEW p \in Places, BeginAttempt(p)
      PROVE  AttemptInv'
  <2> DEFINE next == proc[p].n + 1
  <2>0. loop' = loop /\ ModeOf[p[1]] # "slideshow" /\ proc[p].at = "begin" /\ loop.pc = "work"
    BY <1>2 DEF BeginAttempt
  <2>1. item[p].st \in {"running", "canceled"} /\ proc[p].n = item[p].n /\ item[p].n \in Nat
    BY <2>0, <1>0, OneType DEF Works, ItemRow, ImageVideoAssumption
  <2>2. CASE Leave(p) /\ UNCHANGED tables
    <3>1. Works(p)' /\ proc'[p].at = "idle" /\ \A q \in Places \ {p} : proc'[q] = proc[q]
      BY <2>2, Leaves
    <3>2. Current(p)' /\ Numbered(p)'
      BY <1>0, <2>2, <3>1 DEF Current, Numbered, tables
    <3> QED
      BY <2>0, <2>2, <3>1, <3>2, OnePlace DEF tables
  <2>3. CASE Holds(p) /\ item[p].req > 0 /\ item[p].n > 0 /\ Goto(p, "poll", item[p].n) /\ UNCHANGED tables
    <3>1. proc'[p] = [at |-> "poll", n |-> item[p].n] /\ \A q \in Places \ {p} : proc'[q] = proc[q]
      BY <2>3 DEF Goto, TypeInv, ProcType
    <3>2. item[p].n \in Attempts
      BY <2>3, OneType DEF ItemRow, Attempts, ImageVideoAssumption
    <3>3. Current(p)' /\ Numbered(p)' /\ Works(p)'
      BY <1>0, <2>0, <2>1, <2>3, <3>1, <3>2 DEF Current, Numbered, Works, tables
    <3> QED
      BY <2>0, <2>3, <3>1, <3>3, OnePlace DEF tables
  <2>4. CASE /\ Holds(p) /\ item[p].req = 0 /\ next \in Attempts
             /\ row' = [row EXCEPT ![p][next] = IF row[p][next].st = "none" THEN [NoRow EXCEPT !.st = "running"]
                                                 ELSE row[p][next]]
             /\ item' = IF row[p][next].st = "none" THEN [item EXCEPT ![p].n = next] ELSE item
             /\ Goto(p, "submit", next)
    <3>1. row[p][next] = NoRow
      BY <1>0, <2>1, <2>4 DEF Numbered
    <3>2. proc'[p] = [at |-> "submit", n |-> next] /\ \A q \in Places \ {p} : proc'[q] = proc[q]
      BY <2>4 DEF Goto, TypeInv, ProcType
    <3>3. /\ item'[p].n = next /\ item'[p].st = item[p].st /\ item'[p].req = item[p].req
          /\ \A q \in Places \ {p} : item'[q] = item[q]
      BY <2>4, <3>1 DEF NoRow, TypeInv, ItemsType, ItemRow
    <3>a. [NoRow EXCEPT !.st = "running"].st = "running" /\ ~[NoRow EXCEPT !.st = "running"].req
          /\ [NoRow EXCEPT !.st = "running"].sent = 0
      BY DEF NoRow
    <3>4. /\ row'[p][next].st = "running" /\ ~row'[p][next].req /\ row'[p][next].sent = 0
          /\ \A n \in Attempts : n # next => row'[p][n] = row[p][n]
          /\ \A q \in Places \ {p} : row'[q] = row[q]
      <4>1. row' = [row EXCEPT ![p][next] = [NoRow EXCEPT !.st = "running"]]
        BY <2>4, <3>1 DEF NoRow
      <4> DEFINE e == [NoRow EXCEPT !.st = "running"]
      <4>2. row'[p][next] = e
        BY <2>4, <4>1 DEF TypeInv, RowsType
      <4>3. /\ \A n \in Attempts : n # next => row'[p][n] = row[p][n]
            /\ \A q \in Places \ {p} : row'[q] = row[q]
        BY <2>4, <4>1 DEF TypeInv, RowsType
      <4> QED
        BY <3>a, <4>2, <4>3
    <3>5. \A n \in Attempts : row[p][n].st # "running"
      BY <1>0, <2>0, <2>1, <2>4 DEF Current, Holds, Attempts, ImageVideoAssumption
    <3>6. Current(p)'
      BY <2>1, <2>4, <3>2, <3>3, <3>4, <3>5 DEF Current, Holds, Attempts, ImageVideoAssumption
    <3>7. Numbered(p)'
      BY SMTT(60), <1>0, <2>0, <2>1, <2>4, <3>3, <3>4 DEF Numbered, Attempts, ImageVideoAssumption
    <3>8. Works(p)'
      BY <2>0, <2>1, <2>4, <3>2, <3>3, <3>4 DEF Works
    <3> QED
      BY <2>0, <3>2, <3>3, <3>4, <3>6, <3>7, <3>8, OnePlace
  <2> QED
    BY <1>2, <2>2, <2>3, <2>4 DEF BeginAttempt
<1>3. ASSUME NEW p \in Places, SubmitAccepted(p)
      PROVE  AttemptInv'
  <2> DEFINE n == proc[p].n
  <2>1. loop' = loop /\ item' = item /\ proc[p].at = "submit"
    BY <1>3 DEF SubmitAccepted
  <2>2. n \in Attempts /\ n = item[p].n /\ row[p][n].sent = 0 /\ loop.pc \in {"claim", "work"}
        /\ item[p].st \in {"running", "canceled"}
    BY <1>0, <2>1 DEF Works
  <2>3. proc'[p] = [at |-> "save", n |-> n] /\ \A q \in Places \ {p} : proc'[q] = proc[q]
    BY <1>3 DEF SubmitAccepted, Goto, TypeInv, ProcType
  <2>4. /\ \A q \in Places \ {p} : row'[q] = row[q]
        /\ \A m \in Attempts : m # n => row'[p][m] = row[p][m]
        /\ row'[p][n] = [row[p][n] EXCEPT !.sent = @ + 1]
    BY <1>3, <2>2 DEF SubmitAccepted, TypeInv, RowsType
  <2>5. row'[p][n].sent = 1 /\ row'[p][n].st = row[p][n].st /\ row'[p][n].req = row[p][n].req
    BY <2>2, <2>4, OneType DEF AttemptRow
  <2>6. Current(p)'
    <3>1. \A m \in Attempts : row'[p][m].st = row[p][m].st /\ row'[p][m].req = row[p][m].req
      BY <2>4, <2>5
    <3> QED
      BY <1>0, <2>1, <2>3, <3>1 DEF Current
  <2>7. ModeOf[p[1]] # "slideshow"
    BY <1>0, <2>1 DEF Works
  <2>8. Numbered(p)' /\ Works(p)'
    <3>0. \A m \in Attempts : m > n => m # n
      BY <2>2 DEF Attempts, ImageVideoAssumption
    <3>1. \A m \in Attempts : m > n => row'[p][m] = NoRow
      <4> HIDE DEF n
      <4> QED
        BY <1>0, <2>2, <2>4, <3>0 DEF Numbered
    <3>2. \A m \in Attempts : row'[p][m].sent <= 1
      <4>1. \A m \in Attempts : row[p][m].sent <= 1
        BY <1>0 DEF Numbered
      <4>2. ASSUME NEW m \in Attempts PROVE row'[p][m].sent <= 1
        <5>1. CASE m = n
          BY <2>5, <5>1
        <5>2. CASE m # n
          BY <2>4, <4>1, <5>2
        <5> QED
          BY <5>1, <5>2
      <4> QED
        BY <4>2
    <3> QED
      BY <1>0, <2>1, <2>2, <2>3, <2>7, <3>1, <3>2 DEF Numbered, Works
  <2> QED
    BY <2>1, <2>3, <2>4, <2>6, <2>8, OnePlace
<1>4. ASSUME NEW p \in Places, SaveProviderRequestID(p)
      PROVE  AttemptInv'
  <2> DEFINE n == proc[p].n
             free == item[p].req = 0 /\ ~row[p][n].req /\ AttemptMatchesClaim(p) /\ row[p][n].st = "running"
  <2>1. loop' = loop /\ proc[p].at = "save"
    BY <1>4 DEF SaveProviderRequestID
  <2>2. n \in Attempts /\ n = item[p].n /\ loop.pc \in {"claim", "work"} /\ ModeOf[p[1]] # "slideshow"
        /\ item[p].st \in {"running", "canceled"}
    BY <1>0, <2>1 DEF Works
  <2>3. CASE ~free
    <3>1. UNCHANGED <<item, row>> /\ Leave(p)
      BY <1>4, <2>3 DEF SaveProviderRequestID
    <3>2. Works(p)' /\ proc'[p].at = "idle" /\ \A q \in Places \ {p} : proc'[q] = proc[q]
      BY <3>1, Leaves
    <3>3. Current(p)' /\ Numbered(p)'
      BY <1>0, <3>1, <3>2 DEF Current, Numbered
    <3> QED
      BY <2>1, <3>1, <3>2, <3>3, OnePlace
  <2>4. CASE free
    <3>1. row' = [row EXCEPT ![p][n].req = TRUE] /\ item' = [item EXCEPT ![p].req = n] /\ Goto(p, "poll", n)
      BY <1>4, <2>4 DEF SaveProviderRequestID
    <3>2. proc'[p] = [at |-> "poll", n |-> n] /\ \A q \in Places \ {p} : proc'[q] = proc[q]
      BY <3>1 DEF Goto, TypeInv, ProcType
    <3>3. /\ item'[p].req = n /\ item'[p].n = item[p].n /\ item'[p].st = item[p].st
          /\ \A q \in Places \ {p} : item'[q] = item[q]
      BY <3>1 DEF TypeInv, ItemsType, ItemRow
    <3>4. /\ \A q \in Places \ {p} : row'[q] = row[q]
          /\ \A m \in Attempts : m # n => row'[p][m] = row[p][m]
          /\ row'[p][n] = [row[p][n] EXCEPT !.req = TRUE]
      BY <3>1, <2>2 DEF TypeInv, RowsType
    <3>5. row'[p][n].req /\ row'[p][n].st = "running" /\ row'[p][n].sent = row[p][n].sent
      BY <2>2, <2>4, <3>4, OneType DEF AttemptRow
    <3>6. Current(p)'
      <4>1. ASSUME NEW m \in Attempts, m # n
            PROVE  row'[p][m].st # "running"
        BY <1>0, <2>2, <3>4, <4>1 DEF Current
      <4>2. item'[p].st \in {"running", "pending"}
        BY <2>4, <3>3 DEF AttemptMatchesClaim, Holds
      <4> QED
        BY <2>2, <3>2, <3>3, <3>5, <4>1, <4>2 DEF Current
    <3>7. Numbered(p)'
      <4>1. \A m \in Attempts : m > n => m # n
        BY <2>2 DEF Attempts, ImageVideoAssumption
      <4>2. \A m \in Attempts : m > n => row'[p][m] = NoRow
        <5> HIDE DEF n
        <5> QED
          BY <1>0, <2>2, <3>4, <4>1 DEF Numbered
      <4>3. ASSUME NEW m \in Attempts PROVE row'[p][m].sent <= 1
        <5>1. row[p][m].sent <= 1
          BY <1>0 DEF Numbered
        <5>2. CASE m = n
          BY <3>5, <5>1, <5>2
        <5>3. CASE m # n
          BY <3>4, <5>1, <5>3
        <5> QED
          BY <5>2, <5>3
      <4> QED
        BY <2>2, <3>3, <4>2, <4>3 DEF Numbered
    <3>8. Works(p)'
      BY <2>1, <2>2, <3>2, <3>3 DEF Works
    <3> QED
      BY <2>1, <3>2, <3>3, <3>4, <3>6, <3>7, <3>8, OnePlace
  <2> QED
    BY <2>3, <2>4
<1>5. ASSUME NEW p \in Places, CompleteAttempt(p)
      PROVE  AttemptInv'
  <2> DEFINE n == proc[p].n
  <2>1. loop' = loop /\ proc[p].at = "poll" /\ Leave(p)
    BY <1>5 DEF CompleteAttempt
  <2>2. n \in Attempts /\ n = item[p].n /\ ModeOf[p[1]] # "slideshow"
    BY <1>0, <2>1 DEF Works
  <2>3. Works(p)' /\ proc'[p].at = "idle" /\ \A q \in Places \ {p} : proc'[q] = proc[q]
    BY <2>1, Leaves
  <2>4. CASE UNCHANGED <<item, row>>
    <3>1. Current(p)' /\ Numbered(p)'
      BY <1>0, <2>3, <2>4 DEF Current, Numbered
    <3> QED
      BY <2>1, <2>3, <2>4, <3>1, OnePlace
  <2>5. CASE row' = [row EXCEPT ![p][n].st = "succeeded"]
             /\ item' = [item EXCEPT ![p].st = "succeeded", ![p].lease = "none"]
    <3>1. /\ item'[p].req = item[p].req /\ item'[p].n = item[p].n
          /\ \A q \in Places \ {p} : item'[q] = item[q]
      BY <2>5 DEF TypeInv, ItemsType, ItemRow
    <3>2. /\ \A q \in Places \ {p} : row'[q] = row[q]
          /\ \A m \in Attempts : m # n => row'[p][m] = row[p][m]
          /\ row'[p][n] = [row[p][n] EXCEPT !.st = "succeeded"]
      BY <2>5, <2>2 DEF TypeInv, RowsType
    <3>3. row'[p][n].st = "succeeded" /\ row'[p][n].sent = row[p][n].sent
      BY <2>2, <3>2, OneType DEF AttemptRow
    <3>4. ASSUME NEW m \in Attempts
          PROVE  row'[p][m].st # "running"
      <4>1. CASE m = n
        BY <3>3, <4>1
      <4>2. CASE m # n
        BY <1>0, <2>2, <3>2, <4>2 DEF Current
      <4> QED
        BY <4>1, <4>2
    <3>5. Current(p)'
      BY <3>4 DEF Current
    <3>6. Numbered(p)'
      <4>1. \A m \in Attempts : m > n => m # n
        BY <2>2 DEF Attempts, ImageVideoAssumption
      <4>2. \A m \in Attempts : m > n => row'[p][m] = NoRow
        <5> HIDE DEF n
        <5> QED
          BY <1>0, <2>2, <3>2, <4>1 DEF Numbered
      <4>3. ASSUME NEW m \in Attempts PROVE row'[p][m].sent <= 1
        <5>1. row[p][m].sent <= 1
          BY <1>0 DEF Numbered
        <5>2. CASE m = n
          BY <3>3, <5>1, <5>2
        <5>3. CASE m # n
          BY <3>2, <5>1, <5>3
        <5> QED
          BY <5>2, <5>3
      <4> QED
        BY <1>0, <2>2, <3>1, <4>2, <4>3 DEF Numbered
    <3> QED
      BY <2>1, <2>3, <3>1, <3>2, <3>5, <3>6, OnePlace
  <2> QED
    BY <1>5, <2>4, <2>5 DEF CompleteAttempt
<1>6. ASSUME NEW p \in Places, SubmitRefused(p) \/ PollFailed(p)
      PROVE  AttemptInv'
  BY <1>6, FailAttempts DEF SubmitRefused, PollFailed
<1> QED
  BY <1>1, <1>2, <1>3, <1>4, <1>5, <1>6 DEF Working

\* An attempt that is ended keeps what was sent for it.
LEMMA Ended ==
  ASSUME NEW a \in AttemptRow, NEW b, NEW st \in {"failed", "canceled"}, b = [a EXCEPT !.st = st]
  PROVE  b.st = st /\ b.sent = a.sent
BY DEF AttemptRow

\* Outside of a round of the worker nobody works on an item.
LEMMA NobodyWorks ==
  ASSUME AttemptInv, loop.pc \notin {"claim", "work"}
  PROVE  \A p \in Places : proc[p].at = "idle"
BY DEF AttemptInv, Works

\* Steps that leave the items, the attempts and the goroutines alone.
LEMMA AttemptsFrame ==
  ASSUME AttemptInv, UNCHANGED <<item, row, proc>>,
         \/ loop'.pc = loop.pc
         \/ \A p \in Places : proc[p].at = "idle"
         \/ loop'.pc \in {"claim", "work"}
  PROVE  AttemptInv'
BY DEF AttemptInv, Current, Numbered, Works

LEMMA LoopingAttempts ==
  ASSUME ImageVideoAssumption, TypeInv, AttemptInv, Looping
  PROVE  AttemptInv'
<1>0. \A p \in Places : Current(p) /\ Numbered(p) /\ Works(p)
  BY DEF AttemptInv
<1>1. CASE RequeueExpired
  <2>1. \A p \in Places : proc[p].at = "idle"
    BY <1>1, NobodyWorks DEF RequeueExpired
  <2> SUFFICES ASSUME NEW p \in Places
               PROVE  Current(p)' /\ Numbered(p)' /\ Works(p)'
    BY DEF AttemptInv
  <2>2. proc' = proc /\ Works(p)'
    BY <1>1, <2>1 DEF RequeueExpired, Works
  <2>3. CASE ~Lapsed(p)
    <3>1. item'[p] = item[p] /\ \A n \in Attempts : row'[p][n] = row[p][n]
      BY <1>1, <2>3 DEF RequeueExpired
    <3> QED
      BY <1>0, <2>2, <3>1 DEF Current, Numbered
  <2>4. CASE Lapsed(p)
    <3>1. /\ item'[p].req = item[p].req /\ item'[p].n = item[p].n
          /\ item'[p].st = IF item[p].req = 0 /\ item[p].n >= MaxAttempts THEN "failed" ELSE "pending"
      <4>1. item'[p] = Requeued(item[p])
        BY <1>1, <2>4 DEF RequeueExpired
      <4> QED
        BY <4>1, OneType DEF Requeued, ItemRow
    <3>2. \A n \in Attempts :
            row'[p][n] = IF item[p].req = 0 /\ n = item[p].n /\ row[p][n].st = "running"
                         THEN [row[p][n] EXCEPT !.st = "failed"] ELSE row[p][n]
      BY <1>1, <2>4 DEF RequeueExpired
    <3>3. ASSUME NEW n \in Attempts
          PROVE  /\ row'[p][n].sent = row[p][n].sent
                 /\ row'[p][n].st = "running" => row'[p][n] = row[p][n]
                 /\ row[p][n] = NoRow => row'[p][n] = NoRow
      <4>1. row'[p][n] = row[p][n] \/ (row[p][n].st = "running" /\ row'[p][n] = [row[p][n] EXCEPT !.st = "failed"])
        BY <3>2
      <4>2. row[p][n] \in AttemptRow
        BY OneType
      <4>3. CASE row'[p][n] = row[p][n]
        BY <4>3
      <4>4. CASE row[p][n].st = "running" /\ row'[p][n] = [row[p][n] EXCEPT !.st = "failed"]
        <5>1. row'[p][n].st = "failed" /\ row'[p][n].sent = row[p][n].sent
          BY <4>2, <4>4, Ended
        <5> QED
          BY <4>4, <5>1 DEF NoRow
      <4> QED
        BY <4>1, <4>3, <4>4
    <3>4. ASSUME NEW n \in Attempts, row'[p][n].st = "running"
          PROVE  row[p][n].st = "running" /\ item[p].n = n /\ item[p].req = n /\ n # 0
      <4>1. row[p][n].st = "running" /\ item[p].n = n
        BY <1>0, <3>3, <3>4 DEF Current
      <4>2. item[p].req # 0
        BY ZenonT(60), <3>2, <3>4, <4>1, OneType DEF AttemptRow
      <4> QED
        BY <1>0, <4>1, <4>2 DEF Numbered
    <3>5. Current(p)'
      BY <1>0, <3>1, <3>3, <3>4 DEF Current
    <3>6. Numbered(p)'
      BY <1>0, <3>1, <3>3 DEF Numbered
    <3> QED
      BY <2>2, <3>5, <3>6
  <2> QED
    BY <2>3, <2>4
<1>2. CASE ReconcileMediaJobs
  <2>1. \A p \in Places : proc[p].at = "idle"
    BY <1>2, NobodyWorks DEF ReconcileMediaJobs
  <2> QED
    BY <1>2, <2>1, AttemptsFrame DEF ReconcileMediaJobs
<1>3. CASE StopClaiming
  <2>1. UNCHANGED <<item, row, proc>> /\ (Claimed = {} \/ loop'.pc = "work")
    BY <1>3 DEF StopClaiming, tables, TypeInv, LoopType
  <2>2. Claimed = {} => \A p \in Places : proc[p].at = "idle"
    BY DEF Claimed
  <2> QED
    BY <2>1, <2>2, AttemptsFrame
<1>4. CASE WorkDone
  <2>1. \A p \in Places : proc[p].at = "idle"
    BY <1>4 DEF WorkDone, Claimed
  <2> QED
    BY <1>4, <2>1, AttemptsFrame DEF WorkDone, tables
<1>5. ASSUME NEW p \in Places, ClaimNextItem(p)
      PROVE  AttemptInv'
  <2>1. loop' = loop /\ row' = row /\ item[p].st = "pending" /\ loop.pc = "claim"
    BY <1>5 DEF ClaimNextItem, Claimable
  <2>2. /\ item'[p].st = "running" /\ item'[p].req = item[p].req /\ item'[p].n = item[p].n
        /\ \A q \in Places \ {p} : item'[q] = item[q]
    BY <1>5 DEF ClaimNextItem, TypeInv, ItemsType, ItemRow
  <2>3. proc'[p] = [at |-> "begin", n |-> item[p].n] /\ \A q \in Places \ {p} : proc'[q] = proc[q]
    BY <1>5 DEF ClaimNextItem, TypeInv, ProcType
  <2>4. Current(p)' /\ Numbered(p)' /\ Works(p)'
    BY <1>0, <2>1, <2>2, <2>3 DEF Current, Numbered, Works
  <2> QED
    BY <2>1, <2>2, <2>3, <2>4, OnePlace
<1> QED
  BY <1>1, <1>2, <1>3, <1>4, <1>5 DEF Looping

LEMMA FinalizingAttempts ==
  ASSUME AttemptInv, Finalizing
  PROVE  AttemptInv'
<1>1. UNCHANGED <<item, row, proc>> /\ loop.pc \notin {"claim", "work"}
  BY DEF Finalizing, BeginDraft, BuildDraft, AcquireRegistrationLock, PublishDraft, UpsertRootIndex,
         WriteReceipt, CompleteRegistration, FailDraftOrRegistration, tables
<1> QED
  BY <1>1, NobodyWorks, AttemptsFrame

LEMMA AskingAttempts ==
  ASSUME ImageVideoAssumption, TypeInv, AttemptInv, Asking \/ Expiring \/ Restart \/ WireLifecycle \/ Serving
  PROVE  AttemptInv'
<1>0. \A p \in Places : Current(p) /\ Numbered(p) /\ Works(p)
  BY DEF AttemptInv
<1>1. CASE WireLifecycle \/ Serving \/ \E c \in Callers : ProductionFails(c) \/ \E j \in Jobs : StartCall(c, j)
  BY <1>1, AttemptsFrame
  DEF ProductionFails, StartCall, WireLifecycle, Serving, CreateAndLock, SaveNarration, FailPreparation, tables
<1>2. ASSUME NEW j \in Jobs, StartRetryRound(j)
      PROVE  AttemptInv'
  <2> SUFFICES ASSUME NEW p \in Places
               PROVE  Current(p)' /\ Numbered(p)' /\ Works(p)'
    BY DEF AttemptInv
  <2>1. UNCHANGED <<proc, loop>>
    BY <1>2 DEF StartRetryRound
  <2>2. CASE item'[p] = item[p] /\ row'[p] = row[p]
    BY <2>1, <2>2, OtherPlaces
  <2>3. CASE item[p].st = "failed" /\ item'[p] = NewItem /\ row'[p] = NoRows
    <3>1. proc[p].at = "idle"
      BY <1>0, <2>3 DEF Works
    <3>2. \A n \in Attempts : row'[p][n] = NoRow
      BY <2>3 DEF NoRows
    <3> QED
      BY <2>1, <2>3, <3>1, <3>2 DEF Current, Numbered, Works, NewItem, NoRow
  <2> QED
    BY <1>2, <2>2, <2>3 DEF StartRetryRound
<1>3. ASSUME NEW j \in Jobs, Cancel(j)
      PROVE  AttemptInv'
  <2> SUFFICES ASSUME NEW p \in Places
               PROVE  Current(p)' /\ Numbered(p)' /\ Works(p)'
    BY DEF AttemptInv
  <2> DEFINE hit == p[1] = j /\ item[p].st \in {"pending", "running", "failed"}
  <2>1. UNCHANGED <<proc, loop>>
    BY <1>3 DEF Cancel
  <2>2. CASE ~hit
    <3>1. item'[p] = item[p] /\ \A n \in Attempts : row'[p][n] = row[p][n]
      BY <1>3, <2>2 DEF Cancel
    <3> QED
      BY <1>0, <2>1, <3>1 DEF Current, Numbered, Works
  <2>3. CASE hit
    <3>1. item'[p].st = "canceled" /\ item'[p].req = item[p].req /\ item'[p].n = item[p].n
      <4>1. item'[p] = [item[p] EXCEPT !.st = "canceled", !.lease = "none"]
        BY <1>3, <2>3 DEF Cancel
      <4> QED
        BY <4>1, OneType DEF ItemRow
    <3>2. \A n \in Attempts : row'[p][n] = IF row[p][n].st = "running" THEN [row[p][n] EXCEPT !.st = "canceled"]
                                           ELSE row[p][n]
      BY <1>3, <2>3 DEF Cancel
    <3>3. ASSUME NEW n \in Attempts
          PROVE  /\ row'[p][n].sent = row[p][n].sent /\ row'[p][n].st # "running"
                 /\ row[p][n] = NoRow => row'[p][n] = NoRow
      <4>1. row[p][n] \in AttemptRow
        BY OneType
      <4>2. CASE row[p][n].st # "running"
        BY <3>2, <4>2
      <4>3. CASE row[p][n].st = "running"
        <5>1. row'[p][n].st = "canceled" /\ row'[p][n].sent = row[p][n].sent
          BY <3>2, <4>1, <4>3, Ended
        <5> QED
          BY <4>3, <5>1 DEF NoRow
      <4> QED
        BY <4>2, <4>3
    <3> QED
      BY <1>0, <2>1, <3>1, <3>3 DEF Current, Numbered, Works
  <2> QED
    BY <2>2, <2>3
<1>4. ASSUME NEW j \in Jobs, RetryRegistration(j)
      PROVE  AttemptInv'
  BY <1>4, AttemptsFrame DEF RetryRegistration, tables
<1>5. ASSUME NEW p \in Places, LeaseRunsOut(p)
      PROVE  AttemptInv'
  <2>1. loop' = loop /\ row' = row /\ proc' = proc
    BY <1>5 DEF LeaseRunsOut
  <2>2. /\ item'[p].st = item[p].st /\ item'[p].req = item[p].req /\ item'[p].n = item[p].n
        /\ \A q \in Places \ {p} : item'[q] = item[q]
    BY <1>5 DEF LeaseRunsOut, TypeInv, ItemsType, ItemRow
  <2>3. Current(p)' /\ Numbered(p)' /\ Works(p)'
    BY <1>0, <2>1, <2>2 DEF Current, Numbered, Works
  <2> QED
    BY <2>1, <2>2, <2>3, OnePlace
<1>6. CASE Restart
  <2>1. UNCHANGED <<item, row>> /\ \A p \in Places : proc'[p].at = "idle"
    BY <1>6 DEF Restart, tables, Idle
  <2> QED
    BY <1>0, <2>1 DEF AttemptInv, Current, Numbered, Works
<1> QED
  BY <1>1, <1>2, <1>3, <1>4, <1>5, <1>6 DEF Asking, Expiring

LEMMA AttemptsNext ==
  ASSUME ImageVideoAssumption, TypeInv, AttemptInv, [Next]_vars
  PROVE  AttemptInv'
<1>1. CASE UNCHANGED vars
  BY <1>1, AttemptsFrame DEF vars
<1> QED
  BY <1>1, WorkingAttempts, LoopingAttempts, FinalizingAttempts, AskingAttempts DEF Next

-----------------------------------------------------------------------------
(* Media                                                                   *)

\* A scene that has its media keeps it: no late worker, requeue, retry round or
\* cancellation takes it back.
LEMMA MediaStays ==
  ASSUME ImageVideoAssumption, TypeInv, [Next]_vars, NEW p \in Places, item[p].st = "succeeded"
  PROVE  item'[p].st = "succeeded"
<1>1. CASE Working
  <2>1. ASSUME NEW q \in Places, CompleteSlideshowItem(q) \/ BeginAttempt(q) \/ SaveProviderRequestID(q)
        PROVE  item'[p].st = "succeeded"
    BY <2>1 DEF CompleteSlideshowItem, BeginAttempt, SaveProviderRequestID, tables, TypeInv, ItemsType, ItemRow
  <2>2. ASSUME NEW q \in Places, SubmitAccepted(q) \/ CompleteAttempt(q)
        PROVE  item'[p].st = "succeeded"
    BY <2>2 DEF SubmitAccepted, CompleteAttempt, TypeInv, ItemsType, ItemRow
  <2>3. ASSUME NEW q \in Places, NEW r \in BOOLEAN, FailAttempt(q, r)
        PROVE  item'[p].st = "succeeded"
    <3>1. CASE q # p \/ item' = item
      BY <2>3, <3>1 DEF FailAttempt, TypeInv, ItemsType
    <3>2. CASE q = p /\ item' # item
      BY <2>3, <3>2 DEF FailAttempt, AttemptMatchesClaim, Holds
    <3> QED
      BY <3>1, <3>2
  <2> QED
    BY <1>1, <2>1, <2>2, <2>3 DEF Working, SubmitRefused, PollFailed
<1>2. CASE Looping
  <2>1. CASE RequeueExpired
    BY <2>1 DEF RequeueExpired, Lapsed
  <2>2. CASE ReconcileMediaJobs \/ StopClaiming \/ WorkDone
    BY <2>2 DEF ReconcileMediaJobs, StopClaiming, WorkDone, tables
  <2>3. ASSUME NEW q \in Places, ClaimNextItem(q)
        PROVE  item'[p].st = "succeeded"
    BY <2>3 DEF ClaimNextItem, Claimable, TypeInv, ItemsType, ItemRow
  <2> QED
    BY <1>2, <2>1, <2>2, <2>3 DEF Looping
<1>3. CASE Serving \/ Finalizing \/ Restart \/ WireLifecycle \/ UNCHANGED vars
  BY <1>3 DEF Serving, CreateAndLock, SaveNarration, FailPreparation, Finalizing, BeginDraft, BuildDraft,
     AcquireRegistrationLock, PublishDraft, UpsertRootIndex, WriteReceipt, CompleteRegistration,
     FailDraftOrRegistration, Restart, WireLifecycle, vars, tables
<1>4. CASE Expiring
  BY <1>4 DEF Expiring, LeaseRunsOut, TypeInv, ItemsType, ItemRow
<1>5. CASE Asking
  BY <1>5 DEF Asking, ProductionFails, StartCall, StartRetryRound, Cancel, RetryRegistration, tables
<1> QED
  BY <1>1, <1>2, <1>3, <1>4, <1>5 DEF Next

\* A job that is whole stays whole.
LEMMA WholeStays ==
  ASSUME ImageVideoAssumption, TypeInv, [Next]_vars, NEW j \in Jobs, Whole(j)
  PROVE  Whole(j)'
BY MediaStays DEF Whole, Places

\* A step that moves no job past its media phase, publishes no folder and starts
\* on no draft.
Modest ==
  /\ \A j \in Jobs : job'[j].phase \in {"draft", "registration", "completed"} =>
                       job[j].phase \in {"draft", "registration", "completed"}
  /\ \A j \in Jobs : pub'[j].folder => pub[j].folder
  /\ loop'.pc \in Building => loop.pc \in Building /\ loop'.job = loop.job

LEMMA ModestMedia ==
  ASSUME ImageVideoAssumption, TypeInv, MediaInv, [Next]_vars, Modest
  PROVE  MediaInv'
BY WholeStays DEF MediaInv, Modest

LEMMA FinalizingMedia ==
  ASSUME ImageVideoAssumption, TypeInv, MediaInv, [Next]_vars, Finalizing
  PROVE  MediaInv'
<1>1. CASE BeginDraft
  <2> DEFINE j == Head(finals)
             whole == job[j].phase \in {"draft", "registration"} /\ Whole(j)
  <2>1. UNCHANGED pub /\ loop.pc = "select"
    BY <1>1 DEF BeginDraft, disk
  <2>2. CASE whole
    <3>1. loop'.job = j /\ \A k \in Jobs : k # j => job'[k] = job[k]
      BY <1>1, <2>2 DEF BeginDraft, Whole, TypeInv, JobsType
    <3> QED
      BY <2>1, <2>2, <3>1, WholeStays DEF MediaInv
  <2>3. CASE ~whole
    BY <1>1, <2>1, <2>3, ModestMedia DEF BeginDraft, Whole, Modest
  <2> QED
    BY <2>2, <2>3
<1>2. CASE BuildDraft
  <2>1. UNCHANGED pub /\ loop'.job = loop.job /\ loop.pc \in Building
    BY <1>2 DEF BuildDraft, Fails, Building, disk, TypeInv, LoopType
  <2>2. \A j \in Jobs : j # loop.job => job'[j] = job[j]
    BY <1>2 DEF BuildDraft, TypeInv, JobsType
  <2> QED
    BY <2>1, <2>2, WholeStays DEF MediaInv
<1>3. CASE AcquireRegistrationLock
  BY <1>3, ModestMedia DEF AcquireRegistrationLock, Modest, Fails, Building, tables, TypeInv, LoopType
<1>4. CASE PublishDraft \/ UpsertRootIndex \/ WriteReceipt
  <2>1. UNCHANGED job /\ loop'.job = loop.job /\ loop.pc \in Building
    BY <1>4 DEF PublishDraft, UpsertRootIndex, WriteReceipt, Publish, Unlocked, Fails, Building, tables,
                TypeInv, LoopType
  <2>2. \A j \in Jobs : j # loop.job => pub'[j] = pub[j]
    BY <1>4 DEF PublishDraft, UpsertRootIndex, WriteReceipt, Publish, Unlocked, TypeInv, PubType
  <2> QED
    BY <2>1, <2>2, WholeStays DEF MediaInv
<1>5. CASE CompleteRegistration
  <2>1. UNCHANGED pub /\ loop'.job = loop.job /\ loop.pc \in Building
    BY <1>5 DEF CompleteRegistration, Fails, Building, disk, TypeInv, LoopType
  <2>2. \A j \in Jobs : j # loop.job => job'[j] = job[j]
    BY <1>5 DEF CompleteRegistration, TypeInv, JobsType
  <2> QED
    BY <2>1, <2>2, WholeStays DEF MediaInv
<1>6. CASE FailDraftOrRegistration
  <2>1. UNCHANGED pub /\ loop'.pc = "select"
    BY <1>6 DEF FailDraftOrRegistration, disk, TypeInv, LoopType
  <2>2. \A j \in Jobs : job'[j] = job[j] \/ job[j].phase \in {"draft", "registration"}
    BY <1>6 DEF FailDraftOrRegistration, TypeInv, JobsType
  <2> QED
    BY <2>1, <2>2, WholeStays DEF MediaInv, Building
<1> QED
  BY <1>1, <1>2, <1>3, <1>4, <1>5, <1>6 DEF Finalizing

LEMMA MediaNext ==
  ASSUME ImageVideoAssumption, TypeInv, MediaInv, [Next]_vars
  PROVE  MediaInv'
<1> USE DEF tables, disk, counts
<1>1. CASE Finalizing
  BY <1>1, FinalizingMedia
<1>2. CASE ReconcileMediaJobs
  <2>1. UNCHANGED <<item, pub>> /\ loop'.pc \notin Building
    BY <1>2 DEF ReconcileMediaJobs, Building, TypeInv, LoopType
  <2>2. \A j \in Jobs : job'[j] = Reconciled(j)
    BY <1>2 DEF ReconcileMediaJobs
  <2>3. \A j \in Jobs : \/ Whole(j)
                         \/ job'[j].phase = "media"
                         \/ job'[j] = job[j]
    BY <2>2 DEF Reconciled, MediaReady, Settled, Whole, TypeInv, JobsType, JobRow
  <2> QED
    BY <2>1, <2>3, WholeStays DEF MediaInv
<1>3. CASE RequeueExpired \/ StopClaiming \/ WorkDone
  BY <1>3, ModestMedia DEF RequeueExpired, StopClaiming, WorkDone, Modest, Building, TypeInv, LoopType
<1>4. ASSUME NEW p \in Places, ClaimNextItem(p)
      PROVE  MediaInv'
  BY <1>4, ModestMedia DEF ClaimNextItem, Modest, TypeInv, JobsType, JobRow
<1>5. CASE Working
  BY ZenonT(60), <1>5, ModestMedia
  DEF Working, CompleteSlideshowItem, BeginAttempt, SubmitAccepted, SubmitRefused, SaveProviderRequestID,
      CompleteAttempt, PollFailed, FailAttempt, Modest
<1>6. CASE Serving
  <2>1. UNCHANGED <<pub, loop>>
    BY <1>6 DEF Serving, CreateAndLock, SaveNarration, FailPreparation
  <2>2. \A j \in Jobs : job'[j].phase = job[j].phase
    BY <1>6 DEF Serving, CreateAndLock, SaveNarration, FailPreparation, TypeInv, JobsType, JobRow
  <2> QED
    BY <2>1, <2>2, ModestMedia DEF Modest
<1>7. CASE Expiring \/ WireLifecycle \/ UNCHANGED vars
  BY <1>7, ModestMedia DEF Expiring, LeaseRunsOut, WireLifecycle, vars, Modest
<1>8. CASE Restart
  BY <1>8, ModestMedia DEF Restart, Modest, Building, TypeInv, LoopType
<1>9. CASE Asking
  <2>1. UNCHANGED <<pub, loop>>
    BY <1>9 DEF Asking, ProductionFails, StartCall, StartRetryRound, Cancel, RetryRegistration
  <2>2. \A j \in Jobs : job'[j].phase \in {job[j].phase, "media"}
    <3>1. ASSUME NEW k \in Jobs, StartRetryRound(k)
          PROVE  \A j \in Jobs : job'[j].phase \in {job[j].phase, "media"}
      BY <3>1 DEF StartRetryRound, TypeInv, JobsType, JobRow
    <3>2. ASSUME NEW k \in Jobs, Cancel(k)
          PROVE  \A j \in Jobs : job'[j].phase \in {job[j].phase, "media"}
      BY <3>2 DEF Cancel, TypeInv, JobsType, JobRow
    <3> QED
      BY <1>9, <3>1, <3>2 DEF Asking, ProductionFails, StartCall, RetryRegistration
  <2> QED
    BY <2>1, <2>2, ModestMedia DEF Modest
<1> QED
  BY <1>1, <1>2, <1>3, <1>4, <1>5, <1>6, <1>7, <1>8, <1>9 DEF Next, Looping

-----------------------------------------------------------------------------
(* The theorems                                                            *)

LEMMA VideoHolds ==
  ASSUME ImageVideoAssumption
  PROVE  Spec => [](TypeInv /\ AttemptInv /\ MediaInv)
<1>1. Init => TypeInv /\ AttemptInv /\ MediaInv
  BY VideoInit
<1>2. TypeInv /\ AttemptInv /\ MediaInv /\ [Next]_vars => (TypeInv /\ AttemptInv /\ MediaInv)'
  BY VideoType, AttemptsNext, MediaNext
<1> QED
  BY <1>1, <1>2, PTL DEF Spec

\* No attempt is submitted to the video provider twice, whatever crashes, expired
\* leases, retry rounds and cancellations come between (BeginAttempt,
\* SaveProviderRequestID, RequeueExpired).
THEOREM SentToProviderOnce ==
  ASSUME ImageVideoAssumption
  PROVE  Spec => []SubmittedOnce
<1>1. AttemptInv => SubmittedOnce
  BY DEF AttemptInv, Numbered, SubmittedOnce
<1> QED
  BY <1>1, VideoHolds, PTL

\* A paid request is never orphaned: an attempt that runs is the current one of an
\* item that runs or waits to be claimed, and its request id is on both rows or on
\* none (FailAttempt, RequeueExpired, Cancel).
THEOREM PaidIsCurrent ==
  ASSUME ImageVideoAssumption
  PROVE  Spec => []RunningAttemptIsCurrent
<1>1. TypeInv /\ AttemptInv => RunningAttemptIsCurrent
  <2> SUFFICES ASSUME TypeInv, AttemptInv, NEW p \in Places, NEW n \in Attempts, row[p][n].st = "running"
               PROVE  /\ item[p].st \in {"running", "pending"} /\ item[p].n = n
                      /\ row[p][n].req = (item[p].req = n)
    BY DEF RunningAttemptIsCurrent
  <2>1. item[p].st \in {"running", "pending"} /\ item[p].n = n /\ (row[p][n].req <=> item[p].req = n)
    BY DEF AttemptInv, Current
  <2>2. row[p][n].req \in BOOLEAN
    BY OneType DEF AttemptRow
  <2>3. row[p][n].req = (item[p].req = n)
    BY <2>1, <2>2
  <2> QED
    BY <2>1, <2>3
<1> QED
  BY <1>1, VideoHolds, PTL

\* A draft is only built, and a folder only published, from the media of every
\* scene, after partial failures, retry rounds and cancellations too
\* (ReconcileMediaJobs, BeginDraft, FailDraftOrRegistration).
THEOREM DraftIsWhole ==
  ASSUME ImageVideoAssumption
  PROVE  Spec => []DraftFromAllScenes
<1>1. MediaInv => DraftFromAllScenes
  BY DEF MediaInv, Whole, DraftFromAllScenes
<1> QED
  BY <1>1, VideoHolds, PTL

-----------------------------------------------------------------------------
(* MontageRegistration, with the folders of JianYing as `drafts`           *)

CONSTANTS Tasks, QueueCap, MaxReconcileRetries, MaxTries, MaxRestarts

VARIABLES task, att, asset, drafts, scripts, queue, sending, waiting, worker, start, restarts

Montage == INSTANCE MontageRegistration WITH disk <- drafts

AttemptStatus == Montage!Active \cup {"failed", "interrupted", "succeeded"}
Stages == {"off", "begin", "check", "config", "script", "receipt", "commit", "failcommit", "names", "rename",
           "renamed"}
Queued == [task : Tasks, kind : {"register", "names"}, tries : Nat]

TaskStates == task \in [Tasks -> {"executing", "running", "completed", "failed", "canceled"}]
AttemptLists == att \in [Tasks -> Seq(AttemptStatus)]
Versions == asset \in [Tasks -> [st : {"none", "ready", "stale"}, named : BOOLEAN]]
Folders == drafts \in [Tasks -> [folder : BOOLEAN, receipt : BOOLEAN, named : BOOLEAN]]
Counted == scripts \in [Tasks -> Nat]
QueueType == queue \in Seq(Queued) /\ Len(queue) <= QueueCap /\ waiting \subseteq Queued
WorkerType ==
  /\ worker \in [at : Stages, task : Tasks \cup {0}, tries : Nat]
  /\ worker.at # "off" => worker.task \in Tasks
StartType == sending \subseteq Tasks /\ start \in {"recover", "audit", "names", "up"}

MontageType ==
  /\ TaskStates /\ AttemptLists /\ Versions /\ Folders /\ Counted /\ QueueType /\ WorkerType /\ StartType

\* The script has run for the folders that are there; the worker runs it for a
\* task without one, and commits with folder and receipt on disk.
FolderInv ==
  /\ \A t \in Tasks : scripts[t] = IF drafts[t].folder THEN 1 ELSE 0
  /\ worker.at \in {"config", "script"} => ~drafts[worker.task].folder
  /\ worker.at = "receipt" => drafts[worker.task].folder
  /\ worker.at = "commit" => drafts[worker.task].folder /\ drafts[worker.task].receipt

MontageInv == MontageType /\ FolderInv /\ Montage!ReadyIsRegistered

LEMMA MontageInit ==
  ASSUME Montage!MontageAssumption, Montage!Init
  PROVE  MontageInv
<1> USE DEF Montage!Init, Montage!Off
<1>1. MontageType
  BY DEF MontageType, TaskStates, AttemptLists, Versions, Folders, Counted, QueueType, WorkerType, StartType,
         Stages, AttemptStatus, Queued, Montage!MontageAssumption
<1>2. FolderInv
  BY DEF FolderInv
<1>3. Montage!ReadyIsRegistered
  BY DEF Montage!ReadyIsRegistered
<1> QED
  BY <1>1, <1>2, <1>3 DEF MontageInv

LEMMA MontageFrame ==
  /\ UNCHANGED task /\ TaskStates => TaskStates'
  /\ UNCHANGED att /\ AttemptLists => AttemptLists'
  /\ UNCHANGED asset /\ Versions => Versions'
  /\ UNCHANGED drafts /\ Folders => Folders'
  /\ UNCHANGED scripts /\ Counted => Counted'
  /\ UNCHANGED <<queue, waiting>> /\ QueueType => QueueType'
  /\ UNCHANGED worker /\ WorkerType => WorkerType'
  /\ UNCHANGED <<sending, start>> /\ StartType => StartType'
  BY DEF TaskStates, AttemptLists, Versions, Folders, Counted, QueueType, WorkerType, StartType

LEMMA MontageNextType ==
  MontageType' <=> /\ TaskStates' /\ AttemptLists' /\ Versions' /\ Folders' /\ Counted' /\ QueueType'
                   /\ WorkerType' /\ StartType'
  BY DEF MontageType

\* The last attempt of a task gets another status, or a task another attempt.
LEMMA LastAttempt ==
  ASSUME AttemptLists, NEW t \in Tasks, att[t] # <<>>, NEW s \in AttemptStatus
  PROVE  LET new == [att EXCEPT ![t][Len(att[t])] = s]
         IN  /\ new \in [Tasks -> Seq(AttemptStatus)]
             /\ Len(new[t]) = Len(att[t]) /\ new[t] # <<>> /\ new[t][Len(new[t])] = s
             /\ \A u \in Tasks \ {t} : new[u] = att[u]
<1> DEFINE n == Len(att[t])
           l == [att[t] EXCEPT ![n] = s]
<1>1. att[t] \in Seq(AttemptStatus) /\ n \in 1..Len(att[t])
  BY DEF AttemptLists
<1>2. l \in Seq(AttemptStatus) /\ Len(l) = n /\ l[n] = s
  BY <1>1, ExceptSeq
<1>3. [att EXCEPT ![t][n] = s] = [att EXCEPT ![t] = l]
  OBVIOUS
<1>4. l # <<>>
  BY <1>1, <1>2
<1> HIDE DEF l
<1> QED
  BY <1>2, <1>3, <1>4 DEF AttemptLists

LEMMA AnotherAttempt ==
  ASSUME AttemptLists, NEW t \in Tasks
  PROVE  LET new == [att EXCEPT ![t] = Append(@, "queued")]
         IN  /\ new \in [Tasks -> Seq(AttemptStatus)]
             /\ new[t] # <<>> /\ new[t][Len(new[t])] = "queued"
             /\ \A u \in Tasks \ {t} : new[u] = att[u]
<1>1. Append(att[t], "queued") \in Seq(AttemptStatus)
  BY DEF AttemptLists, AttemptStatus, Montage!Active
<1>2. att[t] \in Seq(AttemptStatus)
  BY DEF AttemptLists
<1>3. Append(att[t], "queued") # <<>> /\ Append(att[t], "queued")[Len(Append(att[t], "queued"))] = "queued"
  BY <1>2
<1> QED
  BY <1>1, <1>3 DEF AttemptLists

\* Where the worker is, or who it works for.
LEMMA WorkerMoves ==
  ASSUME WorkerType
  PROVE  /\ Montage!Stop => WorkerType' /\ worker'.at = "off"
         /\ \A at \in Stages : Montage!Then(at) /\ worker.at # "off" =>
               WorkerType' /\ worker'.at = at /\ worker'.task = worker.task
         /\ worker.at # "off" => worker.task \in Tasks
BY DEF WorkerType, Stages, Montage!Stop, Montage!Off, Montage!Then

\* The steps after which a ready version is registered as before: they touch no task
\* that has completed.
LEMMA ReadyKept ==
  ASSUME MontageInv,
         \A t \in Tasks : asset'[t].st = "ready" =>
           /\ asset[t].st = "ready" /\ att'[t] = att[t] /\ task'[t] = task[t]
           /\ drafts[t].folder => drafts'[t].folder
           /\ drafts[t].receipt => drafts'[t].receipt,
         \A t \in Tasks : task'[t] = "completed" =>
           task[t] = "completed" /\ (asset[t].st # "none" => asset'[t].st # "none")
  PROVE  Montage!ReadyIsRegistered'
BY DEF MontageInv, Montage!ReadyIsRegistered, Montage!Latest

\* The end of an attempt that fails.
LEMMA FailedStep ==
  ASSUME MontageInv, NEW t \in Tasks, Montage!Failed(t)
  PROVE  /\ TaskStates' /\ AttemptLists'
         /\ \A u \in Tasks : task[u] = "completed" => att'[u] = att[u] /\ task'[u] = task[u]
         /\ \A u \in Tasks : task'[u] = "completed" => task[u] = "completed"
<1>1. CASE UNCHANGED <<att, task>>
  BY <1>1 DEF MontageInv, MontageType, TaskStates, AttemptLists
<1>2. CASE /\ task[t] = "running" /\ Montage!Latest(t) \in Montage!Active
           /\ att' = [att EXCEPT ![t][Len(att[t])] = "failed"]
           /\ task' = [task EXCEPT ![t] = "failed"]
  <2>1. att[t] # <<>>
    BY <1>2 DEF Montage!Latest, Montage!Active
  <2>2. att' \in [Tasks -> Seq(AttemptStatus)] /\ \A u \in Tasks \ {t} : att'[u] = att[u]
    BY <1>2, <2>1, LastAttempt DEF AttemptStatus, MontageInv, MontageType
  <2> QED
    BY <1>2, <2>2 DEF MontageInv, MontageType, TaskStates, AttemptLists
<1> QED
  BY <1>1, <1>2 DEF Montage!Failed

\* The start of another attempt.
LEMMA QueueStep ==
  ASSUME MontageInv, NEW t \in Tasks, Montage!Queue(t),
         task[t] = "executing" \/ Montage!Latest(t) \in {"failed", "interrupted"}
  PROVE  /\ TaskStates' /\ AttemptLists' /\ sending' \subseteq Tasks
         /\ \A u \in Tasks : asset[u].st = "ready" => att'[u] = att[u] /\ task'[u] = task[u]
         /\ \A u \in Tasks : task'[u] = "completed" => task[u] = "completed"
<1>1. att' \in [Tasks -> Seq(AttemptStatus)] /\ \A u \in Tasks \ {t} : att'[u] = att[u]
  BY AnotherAttempt DEF Montage!Queue, MontageInv, MontageType
<1>2. asset[t].st # "ready"
  BY DEF MontageInv, Montage!ReadyIsRegistered
<1>3. task' = [task EXCEPT ![t] = "running"]
  BY DEF Montage!Queue
<1> QED
  BY <1>1, <1>2, <1>3 DEF Montage!Queue, MontageInv, MontageType, TaskStates, AttemptLists, StartType

LEMMA AskingStep ==
  ASSUME MontageInv, Montage!Asking
  PROVE  MontageInv'
<1>1. ASSUME NEW t \in Tasks, Montage!CompleteAndBegin(t) \/ Montage!BeginRetry(t)
      PROVE  MontageInv'
  <2>1. UNCHANGED <<asset, drafts, scripts, queue, waiting, worker, start, restarts>>
    BY <1>1 DEF Montage!CompleteAndBegin, Montage!BeginRetry
  <2>2. /\ TaskStates' /\ AttemptLists' /\ sending' \subseteq Tasks
        /\ \A u \in Tasks : asset[u].st = "ready" => att'[u] = att[u] /\ task'[u] = task[u]
        /\ \A u \in Tasks : task'[u] = "completed" => task[u] = "completed"
    BY <1>1, QueueStep DEF Montage!CompleteAndBegin, Montage!BeginRetry
  <2>3. MontageType'
    BY <2>1, <2>2, MontageFrame, MontageNextType DEF MontageInv, MontageType, StartType
  <2>4. Montage!ReadyIsRegistered'
    BY <2>1, <2>2, ReadyKept
  <2> QED
    BY <2>1, <2>3, <2>4 DEF MontageInv, FolderInv
<1>2. ASSUME NEW t \in Tasks, Montage!CancelTask(t)
      PROVE  MontageInv'
  <2>1. UNCHANGED <<att, asset, drafts, scripts, queue, sending, waiting, worker, start, restarts>>
    BY <1>2 DEF Montage!CancelTask
  <2>2. TaskStates' /\ \A u \in Tasks : task[u] = "completed" <=> task'[u] = "completed"
    BY <1>2 DEF Montage!CancelTask, MontageInv, MontageType, TaskStates
  <2>3. MontageType'
    BY <2>1, <2>2, MontageFrame, MontageNextType DEF MontageInv, MontageType
  <2>4. Montage!ReadyIsRegistered'
    BY <2>1, <2>2 DEF MontageInv, Montage!ReadyIsRegistered, Montage!Latest
  <2> QED
    BY <2>1, <2>3, <2>4 DEF MontageInv, FolderInv
<1> QED
  BY <1>1, <1>2 DEF Montage!Asking

LEMMA SendingStep ==
  ASSUME Montage!MontageAssumption, MontageInv, Montage!Sending
  PROVE  MontageInv'
<1>1. ASSUME NEW t \in Tasks, Montage!Enqueue(t)
      PROVE  MontageInv'
  <2>1. UNCHANGED <<asset, drafts, scripts, waiting, worker, start>> /\ sending' \subseteq Tasks
    BY <1>1 DEF Montage!Enqueue, MontageInv, MontageType, StartType
  <2>2. CASE Len(queue) < QueueCap /\ queue' = Append(queue, Montage!Job(t, "register", 0)) /\ UNCHANGED <<att, task>>
    <3>1. Montage!Job(t, "register", 0) \in Queued
      BY DEF Montage!Job, Queued
    <3>2. QueueType'
      BY <2>1, <2>2, <3>1, AppendProperties DEF MontageInv, MontageType, QueueType, Montage!MontageAssumption
    <3>3. MontageType'
      BY <2>1, <2>2, <3>2, MontageFrame, MontageNextType DEF MontageInv, MontageType, StartType
    <3> QED
      BY <2>1, <2>2, <3>3 DEF MontageInv, FolderInv, Montage!ReadyIsRegistered, Montage!Latest
  <2>3. CASE Montage!Failed(t) /\ UNCHANGED queue
    <3>1. MontageType'
      BY <2>1, <2>3, FailedStep, MontageFrame, MontageNextType DEF MontageInv, MontageType, StartType
    <3>2. \A u \in Tasks : asset[u].st = "ready" => task[u] = "completed"
      BY DEF MontageInv, Montage!ReadyIsRegistered
    <3>3. Montage!ReadyIsRegistered'
      BY <2>1, <2>3, <3>2, FailedStep, ReadyKept
    <3> QED
      BY <2>1, <3>1, <3>3 DEF MontageInv, FolderInv
  <2> QED
    BY <1>1, <2>2, <2>3 DEF Montage!Enqueue
<1>2. ASSUME NEW j \in waiting, Montage!RetryReconciliation(j)
      PROVE  MontageInv'
  <2>1. UNCHANGED <<task, att, asset, drafts, scripts, sending, worker, start>>
    BY <1>2 DEF Montage!RetryReconciliation, Montage!rows
  <2>2. QueueType'
    BY <1>2, AppendProperties
    DEF Montage!RetryReconciliation, MontageInv, MontageType, QueueType, Montage!MontageAssumption
  <2>3. MontageType'
    BY <2>1, <2>2, MontageFrame, MontageNextType DEF MontageInv, MontageType
  <2> QED
    BY <2>1, <2>3 DEF MontageInv, FolderInv, Montage!ReadyIsRegistered, Montage!Latest
<1> QED
  BY <1>1, <1>2 DEF Montage!Sending

\* The steps of the worker that write neither a folder nor a version.
LEMMA WorkerOnly ==
  ASSUME MontageInv, UNCHANGED <<asset, drafts, scripts, queue, waiting, sending, start>>,
         WorkerType', TaskStates', AttemptLists',
         \A t \in Tasks : task[t] = "completed" => att'[t] = att[t] /\ task'[t] = task[t],
         \A t \in Tasks : task'[t] = "completed" => task[t] = "completed",
         FolderInv'
  PROVE  MontageInv'
<1>1. MontageType'
  BY MontageFrame, MontageNextType DEF MontageInv, MontageType
<1>2. \A t \in Tasks : asset[t].st = "ready" => task[t] = "completed"
  BY DEF MontageInv, Montage!ReadyIsRegistered
<1>3. Montage!ReadyIsRegistered'
  BY <1>2, ReadyKept
<1> QED
  BY <1>1, <1>3 DEF MontageInv

\* The worker gives up: the attempt fails and it takes the next job.
LEMMA GivesUp ==
  ASSUME MontageInv, worker.at # "off", Montage!Failed(worker.task), Montage!Stop,
         UNCHANGED <<asset, drafts, scripts, queue, waiting, sending, start>>
  PROVE  MontageInv'
<1>1. worker.task \in Tasks /\ WorkerType' /\ worker'.at = "off"
  BY WorkerMoves DEF MontageInv, MontageType
<1>2. FolderInv'
  BY <1>1 DEF MontageInv, FolderInv
<1> QED
  BY <1>1, <1>2, FailedStep, WorkerOnly

\* The worker goes on to another stage and writes nothing.
LEMMA GoesOn ==
  ASSUME MontageInv, UNCHANGED <<task, att, asset, drafts, scripts, queue, waiting, sending, start>>,
         NEW at \in Stages, worker.at # "off", Montage!Then(at), FolderInv'
  PROVE  MontageInv'
<1>1. WorkerType'
  BY WorkerMoves DEF MontageInv, MontageType
<1>2. TaskStates' /\ AttemptLists'
  BY MontageFrame DEF MontageInv, MontageType
<1> QED
  BY <1>1, <1>2, WorkerOnly

LEMMA RegisterStep ==
  ASSUME MontageInv, Montage!MarkRunning \/ Montage!RecoverRegisteredDraft \/ Montage!ResolveRuntime
  PROVE  MontageInv'
<1> DEFINE t == worker.task
<1>1. CASE Montage!MarkRunning
  <2>1. UNCHANGED <<task, asset, drafts, scripts, queue, waiting, sending, start>> /\ worker.at = "begin" /\ t \in Tasks
    BY <1>1, WorkerMoves DEF Montage!MarkRunning, Montage!Rest, MontageInv, MontageType
  <2>2. CASE UNCHANGED att /\ Montage!Stop
    <3>1. WorkerType' /\ worker'.at = "off" /\ TaskStates' /\ AttemptLists'
      BY <2>1, <2>2, WorkerMoves, MontageFrame DEF MontageInv, MontageType
    <3>2. FolderInv'
      BY <2>1, <3>1 DEF MontageInv, FolderInv
    <3> QED
      BY <2>1, <2>2, <3>1, <3>2, WorkerOnly
  <2>3. CASE task[t] = "running" /\ Montage!Latest(t) = "queued" /\ Montage!Then("check")
             /\ att' = [att EXCEPT ![t][Len(att[t])] = "running"]
    <3>1. WorkerType' /\ worker'.at = "check"
      BY <2>1, <2>3, WorkerMoves DEF MontageInv, MontageType, Stages
    <3>2. att[t] # <<>>
      BY <2>3 DEF Montage!Latest
    <3>3. AttemptLists' /\ \A u \in Tasks \ {t} : att'[u] = att[u]
      BY <2>1, <2>3, <3>2, LastAttempt DEF AttemptStatus, Montage!Active, MontageInv, MontageType, AttemptLists
    <3>4. FolderInv' /\ TaskStates'
      BY <2>1, <3>1, MontageFrame DEF MontageInv, FolderInv, MontageType
    <3> QED
      BY <2>1, <2>3, <3>1, <3>3, <3>4, WorkerOnly
  <2> QED
    BY <1>1, <2>2, <2>3 DEF Montage!MarkRunning
<1>2. CASE Montage!RecoverRegisteredDraft
  <2>1. UNCHANGED <<asset, drafts, scripts, queue, waiting, sending, start>> /\ worker.at = "check" /\ t \in Tasks
    BY <1>2, WorkerMoves DEF Montage!RecoverRegisteredDraft, Montage!Rest, MontageInv, MontageType
  <2>2. CASE Montage!GiveUp
    BY <2>1, <2>2, GivesUp DEF Montage!GiveUp
  <2>3. CASE Montage!Validated(drafts[t]) /\ Montage!Then("commit") /\ UNCHANGED <<task, att>>
    <3>1. worker'.at = "commit" /\ worker'.task = t
      BY <2>1, <2>3, WorkerMoves DEF MontageInv, MontageType, Stages
    <3>2. FolderInv'
      BY <2>1, <2>3, <3>1 DEF MontageInv, FolderInv, Montage!Validated
    <3> QED
      BY <2>1, <2>3, <3>2, GoesOn DEF Stages
  <2>4. CASE ~drafts[t].folder /\ Montage!Then("config") /\ UNCHANGED <<task, att>>
    <3>1. worker'.at = "config" /\ worker'.task = t
      BY <2>1, <2>4, WorkerMoves DEF MontageInv, MontageType, Stages
    <3>2. FolderInv'
      BY <2>1, <2>4, <3>1 DEF MontageInv, FolderInv
    <3> QED
      BY <2>1, <2>4, <3>2, GoesOn DEF Stages
  <2> QED
    BY <1>2, <2>2, <2>3, <2>4 DEF Montage!RecoverRegisteredDraft
<1>3. CASE Montage!ResolveRuntime
  <2>1. UNCHANGED <<asset, drafts, scripts, queue, waiting, sending, start>> /\ worker.at = "config" /\ t \in Tasks
    BY <1>3, WorkerMoves DEF Montage!ResolveRuntime, Montage!Rest, MontageInv, MontageType
  <2>2. CASE Montage!GiveUp
    BY <2>1, <2>2, GivesUp DEF Montage!GiveUp
  <2>3. CASE Montage!Then("script") /\ UNCHANGED <<task, att>>
    <3>1. worker'.at = "script" /\ worker'.task = t
      BY <2>1, <2>3, WorkerMoves DEF MontageInv, MontageType, Stages
    <3>2. FolderInv'
      BY <2>1, <3>1 DEF MontageInv, FolderInv
    <3> QED
      BY <2>1, <2>3, <3>2, GoesOn DEF Stages
  <2> QED
    BY <1>3, <2>2, <2>3 DEF Montage!ResolveRuntime
<1> QED
  BY <1>1, <1>2, <1>3

\* The script publishes the folder, then the receipt.
LEMMA ScriptStep ==
  ASSUME MontageInv, Montage!PublishFolder \/ Montage!WriteReceipt
  PROVE  MontageInv'
<1> DEFINE t == worker.task
<1>1. UNCHANGED <<asset, queue, waiting, sending, start>> /\ worker.at \in {"script", "receipt"} /\ t \in Tasks
  BY WorkerMoves DEF Montage!PublishFolder, Montage!WriteReceipt, Montage!Rest, MontageInv, MontageType
<1>2. CASE Montage!GiveUp /\ UNCHANGED <<drafts, scripts>>
  BY <1>1, <1>2, GivesUp DEF Montage!GiveUp
<1>3. ASSUME NEW named \in BOOLEAN, worker.at = "script",
             drafts' = [drafts EXCEPT ![t].folder = TRUE, ![t].named = named],
             scripts' = [scripts EXCEPT ![t] = @ + 1], Montage!Then("receipt"), UNCHANGED <<task, att>>
      PROVE  MontageInv'
  <2>1. WorkerType' /\ worker'.at = "receipt" /\ worker'.task = t
    BY <1>1, <1>3, WorkerMoves DEF MontageInv, MontageType, Stages
  <2>2. /\ Folders' /\ Counted' /\ drafts'[t].folder /\ drafts'[t].receipt = drafts[t].receipt
        /\ scripts'[t] = scripts[t] + 1
        /\ \A u \in Tasks \ {t} : drafts'[u] = drafts[u] /\ scripts'[u] = scripts[u]
    <3>1. Folders' /\ drafts'[t].folder /\ drafts'[t].receipt = drafts[t].receipt
          /\ \A u \in Tasks \ {t} : drafts'[u] = drafts[u]
      BY <1>1, <1>3 DEF MontageInv, MontageType, Folders
    <3>2. Counted' /\ scripts'[t] = scripts[t] + 1 /\ \A u \in Tasks \ {t} : scripts'[u] = scripts[u]
      BY <1>1, <1>3 DEF MontageInv, MontageType, Counted
    <3> QED
      BY <3>1, <3>2
  <2>3. MontageType'
    BY <1>1, <1>3, <2>1, <2>2, MontageFrame, MontageNextType DEF MontageInv, MontageType
  <2>4. scripts[t] = 0
    BY <1>1, <1>3 DEF MontageInv, FolderInv
  <2>5. FolderInv'
    BY <1>1, <2>1, <2>2, <2>4 DEF MontageInv, FolderInv
  <2>6. Montage!ReadyIsRegistered'
    BY <1>1, <1>3, <2>2, ReadyKept
  <2> QED
    BY <2>3, <2>5, <2>6 DEF MontageInv
<1>4. CASE worker.at = "receipt" /\ drafts' = [drafts EXCEPT ![t].receipt = TRUE] /\ Montage!Then("commit")
           /\ UNCHANGED <<task, att, scripts>>
  <2>1. WorkerType' /\ worker'.at = "commit" /\ worker'.task = t
    BY <1>1, <1>4, WorkerMoves DEF MontageInv, MontageType, Stages
  <2>2. /\ Folders' /\ drafts'[t].receipt /\ drafts'[t].folder = drafts[t].folder
        /\ \A u \in Tasks \ {t} : drafts'[u] = drafts[u]
    BY <1>1, <1>4 DEF MontageInv, MontageType, Folders
  <2>3. MontageType'
    BY <1>1, <1>4, <2>1, <2>2, MontageFrame, MontageNextType DEF MontageInv, MontageType
  <2>4. FolderInv'
    BY <1>1, <1>4, <2>1, <2>2 DEF MontageInv, FolderInv
  <2>5. Montage!ReadyIsRegistered'
    BY <1>1, <1>4, <2>2, ReadyKept
  <2> QED
    BY <2>3, <2>4, <2>5 DEF MontageInv
<1> QED
  BY <1>2, <1>3, <1>4 DEF Montage!PublishFolder, Montage!WriteReceipt

\* The commit of a registration and the reading back of a lost answer.
LEMMA CommitStep ==
  ASSUME MontageInv, Montage!Succeed \/ Montage!FailCommit
  PROVE  MontageInv'
<1> DEFINE t == worker.task
<1>1. UNCHANGED <<drafts, scripts, queue, waiting, sending, start>> /\ worker.at # "off" /\ t \in Tasks
  BY WorkerMoves DEF Montage!Succeed, Montage!FailCommit, Montage!Rest, MontageInv, MontageType
<1>2. CASE Montage!Succeed
  <2>1. WorkerType' /\ worker'.at \in {"off", "failcommit"}
    BY <1>1, <1>2, WorkerMoves DEF Montage!Succeed, MontageInv, MontageType, Stages
  <2>2. FolderInv'
    BY <1>1, <2>1 DEF MontageInv, FolderInv
  <2>3. CASE UNCHANGED <<task, att, asset>>
    <3>1. TaskStates' /\ AttemptLists'
      BY <2>3, MontageFrame DEF MontageInv, MontageType
    <3> QED
      BY <1>1, <2>1, <2>2, <2>3, <3>1, WorkerOnly
  <2>4. CASE /\ Montage!CanSucceed(t)
             /\ att' = [att EXCEPT ![t][Len(att[t])] = "succeeded"]
             /\ asset' = [asset EXCEPT ![t] = [st |-> "ready", named |-> drafts[t].named]]
             /\ task' = [task EXCEPT ![t] = "completed"]
    <3>1. att[t] # <<>>
      BY <2>4 DEF Montage!CanSucceed, Montage!Latest
    <3>2. /\ AttemptLists' /\ att'[t] # <<>> /\ att'[t][Len(att'[t])] = "succeeded"
          /\ \A u \in Tasks \ {t} : att'[u] = att[u]
      BY <1>1, <2>4, <3>1, LastAttempt DEF AttemptStatus, MontageInv, MontageType, AttemptLists
    <3>3. TaskStates' /\ task'[t] = "completed" /\ \A u \in Tasks \ {t} : task'[u] = task[u]
      BY <1>1, <2>4 DEF MontageInv, MontageType, TaskStates
    <3>4. Versions' /\ asset'[t].st = "ready" /\ \A u \in Tasks \ {t} : asset'[u] = asset[u]
      BY <1>1, <2>4 DEF MontageInv, MontageType, Versions, Folders
    <3>5. MontageType'
      BY <1>1, <2>1, <3>2, <3>3, <3>4, MontageFrame, MontageNextType DEF MontageInv, MontageType
    <3>6. drafts[t].folder /\ drafts[t].receipt
      BY <1>2 DEF Montage!Succeed, MontageInv, FolderInv
    <3>7. Montage!ReadyIsRegistered'
      BY <1>1, <3>2, <3>3, <3>4, <3>6 DEF MontageInv, Montage!ReadyIsRegistered, Montage!Latest
    <3> QED
      BY <2>2, <3>5, <3>7 DEF MontageInv
  <2> QED
    BY <1>2, <2>3, <2>4 DEF Montage!Succeed, Montage!rows
<1>3. CASE Montage!FailCommit
  <2>1. WorkerType' /\ worker'.at = "off" /\ Montage!Stop
    BY <1>1, <1>3, WorkerMoves DEF Montage!FailCommit, MontageInv, MontageType
  <2>2. FolderInv'
    BY <1>1, <2>1 DEF MontageInv, FolderInv
  <2>3. CASE UNCHANGED <<task, att, asset>>
    <3>1. TaskStates' /\ AttemptLists'
      BY <2>3, MontageFrame DEF MontageInv, MontageType
    <3> QED
      BY <1>1, <2>1, <2>2, <2>3, <3>1, WorkerOnly
  <2>4. CASE Montage!Failed(t) /\ UNCHANGED asset
    BY <1>1, <2>1, <2>4, GivesUp
  <2>5. CASE /\ asset' = [asset EXCEPT ![t].st = IF @ = "ready" THEN "stale" ELSE @]
             /\ task' = [task EXCEPT ![t] = "failed"] /\ UNCHANGED att
    <3>1. TaskStates' /\ task'[t] = "failed" /\ \A u \in Tasks \ {t} : task'[u] = task[u]
      BY <1>1, <2>5 DEF MontageInv, MontageType, TaskStates
    <3>2. Versions' /\ asset'[t].st # "ready" /\ \A u \in Tasks \ {t} : asset'[u] = asset[u]
      BY <1>1, <2>5 DEF MontageInv, MontageType, Versions
    <3>3. MontageType'
      BY <1>1, <2>1, <2>5, <3>1, <3>2, MontageFrame, MontageNextType DEF MontageInv, MontageType
    <3>4. Montage!ReadyIsRegistered'
      BY <1>1, <2>5, <3>1, <3>2 DEF MontageInv, Montage!ReadyIsRegistered, Montage!Latest
    <3> QED
      BY <2>2, <3>3, <3>4 DEF MontageInv
  <2> QED
    BY <1>3, <2>3, <2>4, <2>5 DEF Montage!FailCommit, Montage!rows
<1> QED
  BY <1>2, <1>3

LEMMA TakeStep ==
  ASSUME Montage!MontageAssumption, MontageInv, Montage!TakeJob
  PROVE  MontageInv'
<1>1. UNCHANGED <<task, att, asset, drafts, scripts, sending, waiting, start>> /\ queue # <<>> /\ worker.at = "off"
  BY DEF Montage!TakeJob, Montage!rows, Montage!Off
<1>2. queue \in Seq(Queued) /\ Len(queue) <= QueueCap
  BY DEF MontageInv, MontageType, QueueType
<1>3. Head(queue) \in Queued /\ Tail(queue) \in Seq(Queued) /\ Len(Tail(queue)) = Len(queue) - 1
  BY <1>1, <1>2, HeadTailProperties
<1>4. QueueType'
  BY <1>1, <1>2, <1>3, LenProperties
  DEF Montage!MontageAssumption, Montage!TakeJob, MontageInv, MontageType, QueueType
<1>5. WorkerType' /\ worker'.at \in {"begin", "names"}
  BY <1>3 DEF Montage!TakeJob, WorkerType, Stages, Queued
<1>6. MontageType'
  BY <1>1, <1>4, <1>5, MontageFrame, MontageNextType DEF MontageInv, MontageType
<1> QED
  BY <1>1, <1>5, <1>6 DEF MontageInv, FolderInv, Montage!ReadyIsRegistered, Montage!Latest

LEMMA NamesStep ==
  ASSUME MontageInv, Montage!ResolveReconciliationRuntime \/ Montage!RenameDraft \/ Montage!CompleteDraftDisplayReconcile
  PROVE  MontageInv'
<1> DEFINE t == worker.task
<1>1. UNCHANGED <<task, att, scripts, queue, sending, start>> /\ worker.at \in {"names", "rename", "renamed"} /\ t \in Tasks
  BY WorkerMoves
  DEF Montage!ResolveReconciliationRuntime, Montage!RenameDraft, Montage!CompleteDraftDisplayReconcile,
      Montage!Rest, Montage!rows,
      MontageInv, MontageType
<1>2. WorkerType' /\ worker'.at \in {"off", "rename", "renamed"}
  BY <1>1, WorkerMoves
  DEF Montage!ResolveReconciliationRuntime, Montage!RenameDraft, Montage!CompleteDraftDisplayReconcile,
      MontageInv, MontageType, Stages
<1>3. QueueType'
  <2>1. Montage!Job(t, "names", worker.tries + 1) \in Queued
    BY <1>1 DEF Montage!Job, Queued, MontageInv, MontageType, WorkerType
  <2> QED
    BY <1>1, <2>1
    DEF Montage!ResolveReconciliationRuntime, Montage!RenameDraft,
        Montage!CompleteDraftDisplayReconcile, Montage!Rest,
        MontageInv, MontageType, QueueType
<1>4. Folders' /\ \A u \in Tasks : drafts'[u].folder = drafts[u].folder /\ drafts'[u].receipt = drafts[u].receipt
  <2>1. drafts' = drafts \/ drafts' = [drafts EXCEPT ![t].named = TRUE]
    BY DEF Montage!ResolveReconciliationRuntime, Montage!RenameDraft, Montage!CompleteDraftDisplayReconcile
  <2>2. CASE drafts' = drafts
    BY <2>2 DEF MontageInv, MontageType, Folders
  <2>3. CASE drafts' = [drafts EXCEPT ![t].named = TRUE]
    BY <1>1, <2>3 DEF MontageInv, MontageType, Folders
  <2> QED
    BY <2>1, <2>2, <2>3
<1>5. Versions' /\ \A u \in Tasks : asset'[u].st = asset[u].st
  <2>1. asset' = asset \/ asset' = [asset EXCEPT ![t].named = TRUE]
    BY DEF Montage!ResolveReconciliationRuntime, Montage!RenameDraft,
        Montage!CompleteDraftDisplayReconcile, Montage!rows
  <2>2. CASE asset' = asset
    BY <2>2 DEF MontageInv, MontageType, Versions
  <2>3. CASE asset' = [asset EXCEPT ![t].named = TRUE]
    BY <1>1, <2>3 DEF MontageInv, MontageType, Versions
  <2> QED
    BY <2>1, <2>2, <2>3
<1>6. MontageType'
  BY <1>1, <1>2, <1>3, <1>4, <1>5, MontageFrame, MontageNextType DEF MontageInv, MontageType
<1>7. FolderInv'
  BY <1>1, <1>2, <1>4 DEF MontageInv, FolderInv
<1>8. Montage!ReadyIsRegistered'
  BY <1>1, <1>4, <1>5 DEF MontageInv, Montage!ReadyIsRegistered, Montage!Latest
<1> QED
  BY <1>6, <1>7, <1>8 DEF MontageInv

\* What a start-up recovers, audits and queues, and what a stop loses.
LEMMA StartingStep ==
  ASSUME Montage!MontageAssumption, MontageInv, Montage!Starting \/ Montage!Restart
  PROVE  MontageInv'
<1>1. ASSUME NEW lost \in SUBSET Tasks, Montage!RecoverActive(lost)
      PROVE  MontageInv'
  <2>1. UNCHANGED <<asset, drafts, scripts, queue, waiting, worker>> /\ StartType'
    BY <1>1 DEF Montage!RecoverActive, MontageInv, MontageType, StartType
  <2>2. ASSUME NEW u \in Tasks
        PROVE  /\ task'[u] \in {"executing", "running", "completed", "failed", "canceled"}
               /\ task'[u] = "completed" => task[u] = "completed"
               /\ asset[u].st = "ready" => task'[u] = task[u] /\ att'[u] = att[u]
               /\ att'[u] \in Seq(AttemptStatus)
    <3>1. task'[u] = IF Montage!Latest(u) = "queued" /\ u \notin lost THEN "running"
                     ELSE IF Montage!Latest(u) \in Montage!Active /\ task[u] # "canceled" THEN "failed" ELSE task[u]
      BY <1>1 DEF Montage!RecoverActive
    <3>2. att'[u] = IF Montage!Latest(u) = "running" THEN [att[u] EXCEPT ![Len(att[u])] = "interrupted"]
                    ELSE IF Montage!Latest(u) = "queued" /\ u \in lost THEN [att[u] EXCEPT ![Len(att[u])] = "failed"]
                    ELSE att[u]
      BY <1>1 DEF Montage!RecoverActive
    <3>3. asset[u].st = "ready" => Montage!Latest(u) \notin Montage!Active
      BY DEF MontageInv, Montage!ReadyIsRegistered, Montage!Active
    <3>4. att[u] \in Seq(AttemptStatus) /\ (Montage!Latest(u) \in Montage!Active => att[u] # <<>>)
      BY DEF MontageInv, MontageType, AttemptLists, Montage!Latest, Montage!Active
    <3>5. att'[u] \in Seq(AttemptStatus)
      <4>1. Montage!Latest(u) \in Montage!Active => Len(att[u]) \in 1..Len(att[u])
        BY <3>4
      <4>2. \A s \in {"interrupted", "failed"} : Len(att[u]) \in 1..Len(att[u]) =>
              [att[u] EXCEPT ![Len(att[u])] = s] \in Seq(AttemptStatus)
        BY <3>4, ExceptSeq DEF AttemptStatus
      <4> QED
        BY <3>2, <3>4, <4>1, <4>2 DEF Montage!Active
    <3> QED
      BY <3>1, <3>2, <3>3, <3>5 DEF Montage!Active, MontageInv, MontageType, TaskStates
  <2>3. TaskStates' /\ AttemptLists'
    BY <1>1, <2>2 DEF Montage!RecoverActive, TaskStates, AttemptLists
  <2>4. MontageType'
    BY <2>1, <2>3, MontageFrame, MontageNextType DEF MontageInv, MontageType
  <2>5. Montage!ReadyIsRegistered'
    BY <2>1, <2>2, ReadyKept
  <2> QED
    BY <2>1, <2>4, <2>5 DEF MontageInv, FolderInv
<1>2. ASSUME NEW gone \in SUBSET Tasks, Montage!AuditMixDrafts(gone)
      PROVE  MontageInv'
  <2>1. UNCHANGED <<task, att, drafts, scripts, queue, waiting, worker>> /\ StartType'
    BY <1>2 DEF Montage!AuditMixDrafts, MontageInv, MontageType, StartType
  <2>2. \A u \in Tasks : asset'[u] = asset[u] \/ (asset[u].st = "ready" /\ asset'[u] = [asset[u] EXCEPT !.st = "stale"])
    BY <1>2 DEF Montage!AuditMixDrafts
  <2>3. \A u \in Tasks : /\ asset'[u] \in [st : {"none", "ready", "stale"}, named : BOOLEAN]
                         /\ asset'[u].st = asset[u].st \/ asset'[u].st = "stale"
    BY <2>2 DEF MontageInv, MontageType, Versions
  <2>4. Versions'
    BY <1>2, <2>3 DEF Montage!AuditMixDrafts, Versions
  <2>5. MontageType'
    BY <2>1, <2>4, MontageFrame, MontageNextType DEF MontageInv, MontageType
  <2>6. Montage!ReadyIsRegistered'
    BY <2>1, <2>3, ReadyKept
  <2> QED
    BY <2>1, <2>5, <2>6 DEF MontageInv, FolderInv
<1>3. CASE Montage!ReconcileDisplayNames
  <2>1. UNCHANGED <<task, att, asset, drafts, scripts, queue, worker>> /\ StartType'
    BY <1>3 DEF Montage!ReconcileDisplayNames, Montage!rows, MontageInv, MontageType, StartType
  <2>2. \A u \in Tasks : Montage!Job(u, "names", 0) \in Queued
    BY DEF Montage!Job, Queued
  <2>3. QueueType'
    BY <1>3, <2>2 DEF Montage!ReconcileDisplayNames, MontageInv, MontageType, QueueType
  <2>4. MontageType'
    BY <2>1, <2>3, MontageFrame, MontageNextType DEF MontageInv, MontageType
  <2> QED
    BY <2>1, <2>4 DEF MontageInv, FolderInv, Montage!ReadyIsRegistered, Montage!Latest
<1>4. CASE Montage!Restart
  <2>1. UNCHANGED <<task, att, asset, drafts, scripts>>
    BY <1>4 DEF Montage!Restart, Montage!rows
  <2>2. StartType' /\ WorkerType' /\ worker'.at = "off"
    BY <1>4 DEF Montage!Restart, Montage!Off, StartType, WorkerType, Stages
  <2>3. QueueType'
    <3>1. Len(queue) \in Nat /\ Len(queue) <= QueueCap
      BY LenProperties DEF MontageInv, MontageType, QueueType
    <3>2. queue' = <<>> /\ waiting' = {}
      BY <1>4 DEF Montage!Restart
    <3> QED
      BY <3>1, <3>2 DEF Montage!MontageAssumption, QueueType
  <2>4. MontageType'
    BY <2>1, <2>2, <2>3, MontageFrame, MontageNextType DEF MontageInv, MontageType
  <2> QED
    BY <2>1, <2>2, <2>4 DEF MontageInv, FolderInv, Montage!ReadyIsRegistered, Montage!Latest
<1> QED
  BY <1>1, <1>2, <1>3, <1>4 DEF Montage!Starting

LEMMA MontageHolds ==
  ASSUME Montage!MontageAssumption
  PROVE  Montage!Spec => []MontageInv
<1>1. Montage!Init => MontageInv
  BY MontageInit
<1>2. MontageInv /\ UNCHANGED Montage!vars => MontageInv'
  BY MontageFrame, MontageNextType
  DEF Montage!vars, MontageInv, MontageType, FolderInv, Montage!ReadyIsRegistered, Montage!Latest
<1>3. MontageInv /\ Montage!Next => MontageInv'
  BY AskingStep, SendingStep, RegisterStep, ScriptStep, CommitStep, TakeStep, NamesStep, StartingStep
  DEF Montage!Next, Montage!Processing
<1> QED
  BY <1>1, <1>2, <1>3, PTL DEF Montage!Spec

\* Tasks, attempts, versions, draft folders, the bounded queue and the worker are well
\* typed in every reachable state of the coordinator.
THEOREM MontageTypeCorrect ==
  ASSUME Montage!MontageAssumption
  PROVE  Montage!Spec => []Montage!TypeOK
<1>1. MontageInv => Montage!TypeOK
  BY DEF MontageInv, MontageType, TaskStates, AttemptLists, Versions, Folders, QueueType, WorkerType, StartType,
         Stages, AttemptStatus, Montage!TypeOK, Montage!Active
<1> QED
  BY <1>1, MontageHolds, PTL

\* The JianYing folder of a task is published by the script at most once, whatever
\* attempts, lost answers, cancellations and restarts follow (recoverRegisteredDraft).
THEOREM FolderPublishedOnce ==
  ASSUME Montage!MontageAssumption
  PROVE  Montage!Spec => []Montage!PublishedOnce
<1>1. MontageInv => Montage!PublishedOnce
  BY DEF MontageInv, FolderInv, Montage!PublishedOnce
<1> QED
  BY <1>1, MontageHolds, PTL

\* A version that is shown as ready was registered: its last attempt succeeded, folder
\* and receipt are on disk and its task completed; and a completed task has a version
\* (Succeed, FailCommit, RecoverActive).
THEOREM ReadyWasRegistered ==
  ASSUME Montage!MontageAssumption
  PROVE  Montage!Spec => []Montage!ReadyIsRegistered
<1>1. MontageInv => Montage!ReadyIsRegistered
  BY DEF MontageInv
<1> QED
  BY <1>1, MontageHolds, PTL

=============================================================================

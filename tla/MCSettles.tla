------------------------------ MODULE MCSettles ------------------------------
(* What must come to an end, in each component that works on its own, in small instances; composed like        *)
(* MCProduction.  Fairness is that of the modules: one condition stands for those of all components that have  *)
(* one at this place of their list, since a behaviour is about one component only.                            *)
EXTENDS Naturals, Sequences

VARIABLES focus,
          x1, x2, x3, x4, x5, x6, x7, x8, x9, x10, x11, x12, x13, x14, x15

vars == <<focus, x1, x2, x3, x4, x5, x6, x7, x8, x9, x10, x11, x12, x13, x14, x15>>

\* A job of one scene, with a crash and a lease that runs out.
IV == INSTANCE ImageVideo WITH
    Jobs <- {1}, Scenes <- {1}, ModeOf <- <<"image_to_video">>, Callers <- {"c1"},
    MaxVideoConcurrency <- 1, MaxAttempts <- 2, MaxRounds <- 1, MaxCrashes <- 1, MaxSlow <- 0,
    MaxFinals <- 1,
    job <- x1, item <- x2, row <- x3, locked <- x4, call <- x5, loop <- x6, proc <- x7,
    finals <- x8, wired <- x9, pub <- x10, lockdir <- x11, rounds <- x12, crashes <- x13,
    slow <- x14
IVInit == focus = "image_to_video" /\ IV!Init
    /\ x15 = 0
IVNext == focus = "image_to_video" /\ IV!Next /\ UNCHANGED <<focus, x15>>

\* Two tasks for a queue of one place, a restart.
MR == INSTANCE MontageRegistration WITH
    Tasks <- {1, 2}, QueueCap <- 1, MaxReconcileRetries <- 1, MaxTries <- 1, MaxRestarts <- 1,
    task <- x1, att <- x2, asset <- x3, disk <- x4, scripts <- x5, queue <- x6, sending <- x7,
    waiting <- x8, worker <- x9, start <- x10, restarts <- x11
MRInit == focus = "montage_registration" /\ MR!Init
    /\ x12 = 0 /\ x13 = 0 /\ x14 = 0 /\ x15 = 0
MRNext == focus = "montage_registration" /\ MR!Next /\ UNCHANGED <<focus, x12, x13, x14, x15>>

\* Two runs, one of them added later, a request and a restart.
RL == INSTANCE RemixLab WITH
    Runs <- {1, 2}, First <- {1}, Callers <- {"c1"}, Workers <- {"w1", "w2"}, MaxRequests <- 1,
    MaxRestarts <- 1,
    kind <- x1, exp <- x2, run <- x3, drives <- x4, worker <- x5, req <- x6, requests <- x7,
    restarts <- x8
RLInit == focus = "remix_lab" /\ RL!Init
    /\ x9 = 0 /\ x10 = 0 /\ x11 = 0 /\ x12 = 0 /\ x13 = 0 /\ x14 = 0 /\ x15 = 0
RLNext == focus = "remix_lab" /\ RL!Next /\ UNCHANGED <<focus, x9, x10, x11, x12, x13, x14, x15>>

\* A production, two requests, another narration.
RP == INSTANCE RemixProduction WITH
    Callers <- {"c1"}, Auto <- FALSE, CaptionsDisabled <- FALSE, MaxTasks <- 2, MaxRequests <- 2,
    MaxFinishes <- 1, MaxRestarts <- 0, MaxFaults <- 1,
    row <- x1, active <- x2, drv <- x3, task <- x4, voice <- x5, gate <- x6, req <- x7,
    requests <- x8, finishes <- x9, restarts <- x10, ignored <- x11, lost <- x12, faults <- x13
RPInit == focus = "production" /\ RP!Init
    /\ x14 = 0 /\ x15 = 0
RPNext == focus = "production" /\ RP!Next /\ UNCHANGED <<focus, x14, x15>>

\* A short of one video shot.
AS == INSTANCE AIShorts WITH
    Shots <- {1}, VideoShots <- {1}, Callers <- {"c1"}, MaxRequests <- 3, MaxCrashes <- 0,
    status <- x1, story <- x2, shot <- x3, draft <- x4, busy <- x5, shotBusy <- x6, call <- x7,
    job <- x8, work <- x9, open <- x10, submits <- x11, requests <- x12, crashes <- x13
ASInit == focus = "ai_shorts" /\ AS!Init
    /\ x14 = 0 /\ x15 = 0
ASNext == focus = "ai_shorts" /\ AS!Next /\ UNCHANGED <<focus, x14, x15>>

\* One run of the topic and remix workflow, a restart.
WF == INSTANCE ProjectRemix WITH
    Callers <- {"c1"}, MaxRuns <- 1, MaxRequests <- 2, MaxRestarts <- 1,
    runs <- x1, task <- x2, card <- x3, proc <- x4, mu <- x5, observers <- x6, reconciling <- x7,
    requests <- x8, restarts <- x9
WFInit == focus = "project_remix" /\ WF!Init
    /\ x10 = 0 /\ x11 = 0 /\ x12 = 0 /\ x13 = 0 /\ x14 = 0 /\ x15 = 0
WFNext == focus = "project_remix" /\ WF!Next /\ UNCHANGED <<focus, x10, x11, x12, x13, x14, x15>>

\* Two builds of a catalog with one video, a fault.
MC == INSTANCE MediaCatalog WITH
    Videos <- {"v"}, Images <- {}, External <- {"v"}, Pack <- {}, Scenes <- 1, Frames <- 1,
    Workers <- {"w1"}, MaxBuilds <- 2, MaxRetries <- 1, MaxCrashes <- 1, MaxFaults <- 1,
    disk <- x1, source <- x2, rights <- x3, job <- x4, shots <- x5, frames <- x6, analysis <- x7,
    embedded <- x8, build <- x9, import <- x10, merge <- x11, builds <- x12, retries <- x13,
    crashes <- x14, faults <- x15
MCInit == focus = "media_catalog" /\ MC!Init
MCNext == focus = "media_catalog" /\ MC!Next /\ UNCHANGED <<focus>>

\* A quick project with a video, resumed after a failure or a crash.
IP == INSTANCE ImageProject WITH
    Items <- {1}, Mode <- "video", Callers <- {"c1"}, MaxRequests <- 1, MaxFails <- 1,
    MaxCrashes <- 1,
    row <- x1, item <- x2, files <- x3, drawn <- x4, active <- x5, agent <- x6, videoJobs <- x7,
    requests <- x8, fails <- x9, crashes <- x10
IPInit == focus = "image_project" /\ IP!Init
    /\ x11 = 0 /\ x12 = 0 /\ x13 = 0 /\ x14 = 0 /\ x15 = 0
IPNext == focus = "image_project" /\ IP!Next /\ UNCHANGED <<focus, x11, x12, x13, x14, x15>>

\* One run of the agent, a child that keeps its pipes, a fault.
RU == INSTANCE RunnerProcess WITH
    Orphans <- TRUE, MaxLines <- 1, MaxFaults <- 1,
    canceled <- x1, proc <- x2, pipe <- x3, wrote <- x4, stop <- x5, reader <- x6, writer <- x7,
    persisted <- x8, main <- x9, latest <- x10, outcome <- x11, faults <- x12
RUInit == focus = "runner" /\ RU!Init
    /\ x13 = 0 /\ x14 = 0 /\ x15 = 0
RUNext == focus = "runner" /\ RU!Next /\ UNCHANGED <<focus, x13, x14, x15>>

Init == \/ IVInit \/ MRInit \/ RLInit \/ RPInit \/ ASInit \/ WFInit \/ MCInit \/ IPInit \/ RUInit
Next == \/ IVNext \/ MRNext \/ RLNext \/ RPNext \/ ASNext \/ WFNext \/ MCNext \/ IPNext \/ RUNext
Spec == Init /\ [][Next]_vars

------------------------------------------------------------------------------
IVStill == focus = "image_to_video" /\ UNCHANGED <<focus, x15>>
MRStill == focus = "montage_registration" /\ UNCHANGED <<focus, x12, x13, x14, x15>>
RLStill == focus = "remix_lab" /\ UNCHANGED <<focus, x9, x10, x11, x12, x13, x14, x15>>
RPStill == focus = "production" /\ UNCHANGED <<focus, x14, x15>>
ASStill == focus = "ai_shorts" /\ UNCHANGED <<focus, x14, x15>>
WFStill == focus = "project_remix" /\ UNCHANGED <<focus, x10, x11, x12, x13, x14, x15>>
MCStill == focus = "media_catalog" /\ UNCHANGED <<focus>>
IPStill == focus = "image_project" /\ UNCHANGED <<focus, x11, x12, x13, x14, x15>>
RUStill == focus = "runner" /\ UNCHANGED <<focus, x13, x14, x15>>

Goroutine1 ==
    \/ IVStill /\ IV!Working
    \/ MRStill /\ MR!Processing
    \/ RLStill /\ RL!Drive
    \/ RPStill /\ RP!Driving
    \/ ASStill /\ (AS!Locking("c1") \/ AS!Handling("c1"))
    \/ WFStill /\ WF!Observing
    \/ MCStill /\ MC!BuildStep
    \/ IPStill /\ IP!Job
    \/ RUStill /\ RU!Step
Goroutine2 ==
    \/ IVStill /\ IV!Looping
    \/ MRStill /\ MR!Sending
    \/ RLStill /\ RL!Working("w1")
    \/ ASStill /\ AS!Jobs
    \/ WFStill /\ WF!Resuming
    \/ RUStill /\ RU!Dying
Goroutine3 ==
    \/ IVStill /\ IV!Finalizing
    \/ MRStill /\ MR!Starting
    \/ RLStill /\ RL!Working("w2")
    \/ ASStill /\ AS!OneShot(1)
Goroutine4 ==
    \/ IVStill /\ IV!Orphaned
Claiming == IVStill /\ IV!RequeueExpired
FairSpec == Spec /\ WF_vars(Goroutine1) /\ WF_vars(Goroutine2) /\ WF_vars(Goroutine3) /\ WF_vars(Goroutine4) /\ SF_vars(Claiming)

Owed(k) ==
    \/ focus = "image_to_video" /\ k = 1 /\ IV!InMedia(1)
    \/ focus = "montage_registration" /\ MR!Waits(k)
    \/ focus = "remix_lab" /\ RL!Undecided(k)
    \/ focus = "production" /\ k = 1 /\ RP!Driven
    \/ focus = "ai_shorts" /\ k = 1 /\ AS!Locked
    \/ focus = "project_remix" /\ WF!StepEnded(1, IF k = 1 THEN "topic" ELSE "remix")
    \/ focus = "media_catalog" /\ k = 1 /\ MC!Building
    \/ focus = "image_project" /\ k = 1 /\ IP!Working
    \/ focus = "runner" /\ k = 1 /\ RU!MustReturn
Settled(k) ==
    \/ focus = "image_to_video" /\ k = 1 /\ ~IV!InMedia(1)
    \/ focus = "montage_registration" /\ MR!Decided(k)
    \/ focus = "remix_lab" /\ ~RL!Undecided(k)
    \/ focus = "production" /\ k = 1 /\ ~RP!Driven
    \/ focus = "ai_shorts" /\ k = 1 /\ ~AS!Locked
    \/ focus = "project_remix" /\ WF!MovedOn(1, IF k = 1 THEN "topic" ELSE "remix")
    \/ focus = "media_catalog" /\ k = 1 /\ ~MC!Building
    \/ focus = "image_project" /\ k = 1 /\ ~IP!Working
    \/ focus = "runner" /\ k = 1 /\ RU!Returned

\* What was begun comes to an end, through crashes, restarts, expired leases, full queues and lost requests: the
\* media phase of a job and the registration of a draft are decided, the runs of the lab and the driver of a
\* production end, the locks of a short are given back, a workflow leaves a step whose task has ended, an
\* indexing build and the job of an image project end, and a run of the agent returns.
WorkSettles == \A k \in 1..2 : Owed(k) ~> Settled(k)
==============================================================================

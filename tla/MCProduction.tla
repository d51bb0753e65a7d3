---------------------------- MODULE MCProduction -----------------------------
(* The components that make videos, each in small instances, checked in one run.  `focus` names the component  *)
(* and instance a behaviour is about, and x1, x2, ... are its variables in the order in which its module       *)
(* declares them (0 where it has fewer).  A property below is the conjunction of what the modules say of the   *)
(* same hazard.                                                                                                *)
EXTENDS Naturals, Sequences

VARIABLES focus,
          x1, x2, x3, x4, x5, x6, x7, x8, x9, x10, x11, x12, x13, x14

vars == <<focus, x1, x2, x3, x4, x5, x6, x7, x8, x9, x10, x11, x12, x13, x14>>

\* One agent after the other, or both on their own.
TwoAgents == {<<{}, {}>>, <<{}, {1}>>}

\* Two scenes of one job, rounds of retries, a crash and a slow worker.
IV == INSTANCE ImageVideo WITH
    Jobs <- {1}, Scenes <- {1, 2}, ModeOf <- <<"image_to_video">>, Callers <- {"c1"},
    MaxVideoConcurrency <- 1, MaxAttempts <- 2, MaxRounds <- 1, MaxCrashes <- 1, MaxSlow <- 1,
    MaxFinals <- 1,
    job <- x1, item <- x2, row <- x3, locked <- x4, call <- x5, loop <- x6, proc <- x7,
    finals <- x8, wired <- x9, pub <- x10, lockdir <- x11, rounds <- x12, crashes <- x13,
    slow <- x14
IVInit == focus = "image_to_video" /\ IV!Init
IVNext == focus = "image_to_video" /\ IV!Next /\ UNCHANGED <<focus>>

\* Two slideshows and a video that may not follow them, a crash.
SL == INSTANCE ImageVideo WITH
    Jobs <- 1..3, Scenes <- {1}, ModeOf <- <<"slideshow", "slideshow", "image_to_video">>,
    Callers <- {"c1"}, MaxVideoConcurrency <- 1, MaxAttempts <- 1, MaxRounds <- 0, MaxCrashes <- 1,
    MaxSlow <- 0, MaxFinals <- 1,
    job <- x1, item <- x2, row <- x3, locked <- x4, call <- x5, loop <- x6, proc <- x7,
    finals <- x8, wired <- x9, pub <- x10, lockdir <- x11, rounds <- x12, crashes <- x13,
    slow <- x14
SLInit == focus = "slideshow" /\ SL!Init
SLNext == focus = "slideshow" /\ SL!Next /\ UNCHANGED <<focus>>

\* Two tasks for a queue of one place, a retry and a restart.
MR == INSTANCE MontageRegistration WITH
    Tasks <- {1, 2}, QueueCap <- 1, MaxReconcileRetries <- 1, MaxTries <- 1, MaxRestarts <- 1,
    task <- x1, att <- x2, asset <- x3, disk <- x4, scripts <- x5, queue <- x6, sending <- x7,
    waiting <- x8, worker <- x9, start <- x10, restarts <- x11
MRInit == focus = "montage_registration" /\ MR!Init
    /\ x12 = 0 /\ x13 = 0 /\ x14 = 0
MRNext == focus = "montage_registration" /\ MR!Next /\ UNCHANGED <<focus, x12, x13, x14>>

\* One task through three attempts and two restarts.
MX == INSTANCE MontageRegistration WITH
    Tasks <- {1}, QueueCap <- 1, MaxReconcileRetries <- 1, MaxTries <- 3, MaxRestarts <- 2,
    task <- x1, att <- x2, asset <- x3, disk <- x4, scripts <- x5, queue <- x6, sending <- x7,
    waiting <- x8, worker <- x9, start <- x10, restarts <- x11
MXInit == focus = "montage_retry" /\ MX!Init
    /\ x12 = 0 /\ x13 = 0 /\ x14 = 0
MXNext == focus = "montage_retry" /\ MX!Next /\ UNCHANGED <<focus, x12, x13, x14>>

\* An experiment of two runs to which a third is added, with two requests and a restart.
RL == INSTANCE RemixLab WITH
    Runs <- {1, 2, 3}, First <- {1, 2}, Callers <- {"c1"}, Workers <- {"w1", "w2"},
    MaxRequests <- 2, MaxRestarts <- 1,
    kind <- x1, exp <- x2, run <- x3, drives <- x4, worker <- x5, req <- x6, requests <- x7,
    restarts <- x8
RLInit == focus = "remix_lab" /\ RL!Init
    /\ x9 = 0 /\ x10 = 0 /\ x11 = 0 /\ x12 = 0 /\ x13 = 0 /\ x14 = 0
RLNext == focus = "remix_lab" /\ RL!Next /\ UNCHANGED <<focus, x9, x10, x11, x12, x13, x14>>

\* Two agents, one after the other or side by side, a reviewer, three attempts.
RC == INSTANCE RunCanvas WITH
    Agents <- {1, 2}, Reviewed <- TRUE, Graphs <- TwoAgents, MaxAttempts <- 3,
    deps <- x1, status <- x2, attempt <- x3, at <- x4, out <- x5, file <- x6, last <- x7,
    wave <- x8, res <- x9, fed <- x10, redo <- x11, raw <- x12, errs <- x13, logged <- x14
RCInit == focus = "remix_run" /\ RC!InitCanvas
RCNext == focus = "remix_run" /\ RC!NextCanvas /\ UNCHANGED <<focus>>

\* A production that waits for its operator, with redos, other narrations, a restart and a fault.
RP == INSTANCE RemixProduction WITH
    Callers <- {"c1"}, Auto <- FALSE, CaptionsDisabled <- FALSE, MaxTasks <- 3, MaxRequests <- 2,
    MaxFinishes <- 1, MaxRestarts <- 1, MaxFaults <- 1,
    row <- x1, active <- x2, drv <- x3, task <- x4, voice <- x5, gate <- x6, req <- x7,
    requests <- x8, finishes <- x9, restarts <- x10, ignored <- x11, lost <- x12, faults <- x13
RPInit == focus = "production" /\ RP!Init
    /\ x14 = 0
RPNext == focus = "production" /\ RP!Next /\ UNCHANGED <<focus, x14>>

\* A production that starts by itself and has no captions.
RA == INSTANCE RemixProduction WITH
    Callers <- {"c1", "c2"}, Auto <- TRUE, CaptionsDisabled <- TRUE, MaxTasks <- 2,
    MaxRequests <- 2, MaxFinishes <- 1, MaxRestarts <- 1, MaxFaults <- 0,
    row <- x1, active <- x2, drv <- x3, task <- x4, voice <- x5, gate <- x6, req <- x7,
    requests <- x8, finishes <- x9, restarts <- x10, ignored <- x11, lost <- x12, faults <- x13
RAInit == focus = "automatic_production" /\ RA!Init
    /\ x14 = 0
RANext == focus = "automatic_production" /\ RA!Next /\ UNCHANGED <<focus, x14>>

\* Two shots, one of them a video, two requests at a time.
AS == INSTANCE AIShorts WITH
    Shots <- {1, 2}, VideoShots <- {1}, Callers <- {"c1", "c2"}, MaxRequests <- 3, MaxCrashes <- 0,
    status <- x1, story <- x2, shot <- x3, draft <- x4, busy <- x5, shotBusy <- x6, call <- x7,
    job <- x8, work <- x9, open <- x10, submits <- x11, requests <- x12, crashes <- x13
ASInit == focus = "ai_shorts" /\ AS!Init
    /\ x14 = 0
ASNext == focus = "ai_shorts" /\ AS!Next /\ UNCHANGED <<focus, x14>>

\* One video shot through a storyboard, an edit, failures, continuations and a crash.
AC == INSTANCE AIShorts WITH
    Shots <- {1}, VideoShots <- {1}, Callers <- {"c1"}, MaxRequests <- 6, MaxCrashes <- 1,
    status <- x1, story <- x2, shot <- x3, draft <- x4, busy <- x5, shotBusy <- x6, call <- x7,
    job <- x8, work <- x9, open <- x10, submits <- x11, requests <- x12, crashes <- x13
ACInit == focus = "ai_shorts_crash" /\ AC!Init
    /\ x14 = 0
ACNext == focus = "ai_shorts_crash" /\ AC!Next /\ UNCHANGED <<focus, x14>>

\* Two images drawn and edited by hand by two requests at a time.
IP == INSTANCE ImageProject WITH
    Items <- {1, 2}, Mode <- "manual", Callers <- {"c1", "c2"}, MaxRequests <- 2, MaxFails <- 1,
    MaxCrashes <- 1,
    row <- x1, item <- x2, files <- x3, drawn <- x4, active <- x5, agent <- x6, videoJobs <- x7,
    requests <- x8, fails <- x9, crashes <- x10
IPInit == focus = "image_project" /\ IP!Init
    /\ x11 = 0 /\ x12 = 0 /\ x13 = 0 /\ x14 = 0
IPNext == focus = "image_project" /\ IP!Next /\ UNCHANGED <<focus, x11, x12, x13, x14>>

\* A quick project planned and drawn by its job, and resumed.
IQ == INSTANCE ImageProject WITH
    Items <- {1, 2}, Mode <- "quick", Callers <- {"c1"}, MaxRequests <- 1, MaxFails <- 1,
    MaxCrashes <- 1,
    row <- x1, item <- x2, files <- x3, drawn <- x4, active <- x5, agent <- x6, videoJobs <- x7,
    requests <- x8, fails <- x9, crashes <- x10
IQInit == focus = "quick_project" /\ IQ!Init
    /\ x11 = 0 /\ x12 = 0 /\ x13 = 0 /\ x14 = 0
IQNext == focus = "quick_project" /\ IQ!Next /\ UNCHANGED <<focus, x11, x12, x13, x14>>

\* A quick project that goes on to a video.
IW == INSTANCE ImageProject WITH
    Items <- {1}, Mode <- "video", Callers <- {"c1"}, MaxRequests <- 1, MaxFails <- 1,
    MaxCrashes <- 1,
    row <- x1, item <- x2, files <- x3, drawn <- x4, active <- x5, agent <- x6, videoJobs <- x7,
    requests <- x8, fails <- x9, crashes <- x10
IWInit == focus = "video_project" /\ IW!Init
    /\ x11 = 0 /\ x12 = 0 /\ x13 = 0 /\ x14 = 0
IWNext == focus = "video_project" /\ IW!Next /\ UNCHANGED <<focus, x11, x12, x13, x14>>

\* Two runs of the topic and remix workflow, two requests at a time, a restart.
WF == INSTANCE ProjectRemix WITH
    Callers <- {"c1", "c2"}, MaxRuns <- 2, MaxRequests <- 3, MaxRestarts <- 1,
    runs <- x1, task <- x2, card <- x3, proc <- x4, mu <- x5, observers <- x6, reconciling <- x7,
    requests <- x8, restarts <- x9
WFInit == focus = "project_remix" /\ WF!Init
    /\ x10 = 0 /\ x11 = 0 /\ x12 = 0 /\ x13 = 0 /\ x14 = 0
WFNext == focus = "project_remix" /\ WF!Next /\ UNCHANGED <<focus, x10, x11, x12, x13, x14>>

\* A page whose one-click button is pressed while two versions of the script are saved.
PG == INSTANCE ProjectPage WITH
    HasSource <- FALSE, HasBackground <- TRUE, Chained <- TRUE,
    UserCalls <- {"save-continuous-script"}, MaxScripts <- 2, MaxTasks <- 4, MaxArms <- 1,
    MaxFaults <- 0,
    srv <- x1, tasks <- x2, shown <- x3, calls <- x4, ui <- x5
PGInit == focus = "project_page" /\ PG!Init
    /\ x6 = 0 /\ x7 = 0 /\ x8 = 0 /\ x9 = 0 /\ x10 = 0 /\ x11 = 0 /\ x12 = 0 /\ x13 = 0 /\ x14 = 0
PGNext == focus = "project_page" /\ PG!Next /\ UNCHANGED <<focus, x6, x7, x8, x9, x10, x11, x12, x13, x14>>

\* A page that rewrites the script of a peer, each action by hand, with a fault.
PR == INSTANCE ProjectPage WITH
    HasSource <- TRUE, HasBackground <- FALSE, Chained <- TRUE,
    UserCalls <- {"source-remix", "remix-review", "montage", "upload:account_background", "publish"},
    MaxScripts <- 1, MaxTasks <- 2, MaxArms <- 0, MaxFaults <- 1,
    srv <- x1, tasks <- x2, shown <- x3, calls <- x4, ui <- x5
PRInit == focus = "rewrite_page" /\ PR!Init
    /\ x6 = 0 /\ x7 = 0 /\ x8 = 0 /\ x9 = 0 /\ x10 = 0 /\ x11 = 0 /\ x12 = 0 /\ x13 = 0 /\ x14 = 0
PRNext == focus = "rewrite_page" /\ PR!Next /\ UNCHANGED <<focus, x6, x7, x8, x9, x10, x11, x12, x13, x14>>

\* A prompt of the catalog and exchanges with the agent of the lab.
LA == INSTANCE LabAgent WITH
    Callers <- {"c1"}, Builtin <- {"b"}, Custom <- {}, TextOf <- <<"a", "a">>,
    MaxStoredAgentTurns <- 2, MaxRequestAgentTurns <- 2, MaxOps <- 1, MaxDrops <- 1,
    file <- x1, active <- x2, pending <- x3, last <- x4, history <- x5, chat <- x6, page <- x7,
    req <- x8, done <- x9, ops <- x10, drops <- x11
LAInit == focus = "lab_agent" /\ LA!Init
    /\ x12 = 0 /\ x13 = 0 /\ x14 = 0
LANext == focus = "lab_agent" /\ LA!Next /\ UNCHANGED <<focus, x12, x13, x14>>

\* Two pages that follow one task.
TF == INSTANCE TaskFeed WITH
    Clients <- {"p1", "p2"}, Action <- "other", MaxEvents <- 3, MaxDrops <- 1, MaxReads <- 0,
    events <- x1, runner <- x2, hub <- x3, client <- x4, row <- x5, page <- x6, drops <- x7,
    reads <- x8
TFInit == focus = "task_feed" /\ TF!Init
    /\ x9 = 0 /\ x10 = 0 /\ x11 = 0 /\ x12 = 0 /\ x13 = 0 /\ x14 = 0
TFNext == focus = "task_feed" /\ TF!Next /\ UNCHANGED <<focus, x9, x10, x11, x12, x13, x14>>

\* The list of one page, a montage on it.
TP == INSTANCE TaskFeed WITH
    Clients <- {}, Action <- "montage", MaxEvents <- 1, MaxDrops <- 0, MaxReads <- 3,
    events <- x1, runner <- x2, hub <- x3, client <- x4, row <- x5, page <- x6, drops <- x7,
    reads <- x8
TPInit == focus = "task_list" /\ TP!Init
    /\ x9 = 0 /\ x10 = 0 /\ x11 = 0 /\ x12 = 0 /\ x13 = 0 /\ x14 = 0
TPNext == focus = "task_list" /\ TP!Next /\ UNCHANGED <<focus, x9, x10, x11, x12, x13, x14>>

\* The goroutines of one run of the agent, a child that keeps its pipes, a fault.
RU == INSTANCE RunnerProcess WITH
    Orphans <- TRUE, MaxLines <- 1, MaxFaults <- 1,
    canceled <- x1, proc <- x2, pipe <- x3, wrote <- x4, stop <- x5, reader <- x6, writer <- x7,
    persisted <- x8, main <- x9, latest <- x10, outcome <- x11, faults <- x12
RUInit == focus = "runner" /\ RU!Init
    /\ x13 = 0 /\ x14 = 0
RUNext == focus = "runner" /\ RU!Next /\ UNCHANGED <<focus, x13, x14>>

ASSUME VideoBounds == IV!ImageVideoAssumption /\ SL!ImageVideoAssumption
ASSUME MontageBounds == MR!MontageAssumption /\ MX!MontageAssumption
ASSUME LabBounds == RL!RemixAssumption
ASSUME ShortBounds == AS!ShotAssumption /\ AC!ShotAssumption
ASSUME ResumersDiffer == WF!CallerAssumption
ASSUME ProductionBounds == RP!ProductionAssumption /\ RA!ProductionAssumption
ASSUME ImageBounds == IP!ItemAssumption /\ IQ!ItemAssumption /\ IW!ItemAssumption

Init == \/ IVInit \/ SLInit \/ MRInit \/ MXInit \/ RLInit \/ RCInit \/ RPInit \/ RAInit \/ ASInit
    \/ ACInit \/ IPInit \/ IQInit \/ IWInit \/ WFInit \/ PGInit \/ PRInit \/ LAInit \/ TFInit
    \/ TPInit \/ RUInit
Next == \/ IVNext \/ SLNext \/ MRNext \/ MXNext \/ RLNext \/ RCNext \/ RPNext \/ RANext \/ ASNext
    \/ ACNext \/ IPNext \/ IQNext \/ IWNext \/ WFNext \/ PGNext \/ PRNext \/ LANext \/ TFNext
    \/ TPNext \/ RUNext
Spec == Init /\ [][Next]_vars

------------------------------------------------------------------------------
\* The type invariant of the component in focus.
TypeOK ==
    /\ focus = "image_to_video" => IV!TypeOK
    /\ focus = "slideshow" => SL!TypeOK
    /\ focus = "montage_registration" => MR!TypeOK
    /\ focus = "montage_retry" => MX!TypeOK
    /\ focus = "remix_lab" => RL!TypeOK
    /\ focus = "remix_run" => RC!TypeOK
    /\ focus = "production" => RP!TypeOK
    /\ focus = "automatic_production" => RA!TypeOK
    /\ focus = "ai_shorts" => AS!TypeOK
    /\ focus = "ai_shorts_crash" => AC!TypeOK
    /\ focus = "image_project" => IP!TypeOK
    /\ focus = "quick_project" => IQ!TypeOK
    /\ focus = "video_project" => IW!TypeOK
    /\ focus = "project_remix" => WF!TypeOK
    /\ focus = "project_page" => PG!TypeOK
    /\ focus = "rewrite_page" => PR!TypeOK
    /\ focus = "lab_agent" => LA!TypeOK
    /\ focus = "task_feed" => TF!TypeOK
    /\ focus = "task_list" => TP!TypeOK
    /\ focus = "runner" => RU!TypeOK

\* What costs money, is published or is started for somebody happens once, whatever crashes, expired leases,
\* lost answers and repeated requests come between: a submission to the provider of videos, the folder of a
\* montage, the task of a workflow step, the spoken lines of a version; and no two goroutines work on a short
\* and on one of its shots at once.
NothingIsDoneTwice ==
    /\ focus = "image_to_video" => IV!SubmittedOnce
    /\ focus = "slideshow" => SL!SubmittedOnce
    /\ focus = "montage_registration" => MR!PublishedOnce
    /\ focus = "montage_retry" => MX!PublishedOnce
    /\ focus = "project_remix" => WF!OneTaskPerStep
    /\ focus = "project_page" => PG!StartedOnce
    /\ focus = "rewrite_page" => PR!StartedOnce
    /\ focus = "ai_shorts" => AS!LocksExclude
    /\ focus = "ai_shorts_crash" => AC!LocksExclude

\* Nothing is shown as under way that nobody carries on: a paid request is the current attempt of an item that
\* will be claimed, a run of the lab has a drive or a goroutine, a production has its driver, and the status of
\* an experiment is what its runs say.
WorkIsDriven ==
    /\ focus = "image_to_video" => IV!RunningAttemptIsCurrent
    /\ focus = "slideshow" => SL!RunningAttemptIsCurrent
    /\ focus = "remix_lab" => RL!InFlightIsDriven /\ RL!ExperimentStatusIsCurrent
    /\ focus = "production" => RP!RunningIsDriven
    /\ focus = "automatic_production" => RA!RunningIsDriven

\* What is finished was made of everything it needs, in its present form: the draft of every scene, a ready
\* draft that is registered, an agent of the lab asked with what the agents before it have saved, and the script
\* of this attempt, a completed production with its draft, a short drawn from its shots of now, a workflow whose
\* steps were done, an image that is on disk, and a result for which no line of the agent was lost.
ResultsRestOnInputs ==
    /\ focus = "image_to_video" => IV!DraftFromAllScenes
    /\ focus = "slideshow" => SL!DraftFromAllScenes
    /\ focus = "montage_registration" => MR!ReadyIsRegistered
    /\ focus = "montage_retry" => MX!ReadyIsRegistered
    /\ focus = "remix_run" => RC!AskedWithTheResults /\ RC!ScriptIsOfThisAttempt /\ RC!RedoneAgentIsCalled
    /\ focus = "production" => RP!CompletedHasDraft
    /\ focus = "automatic_production" => RA!CompletedHasDraft
    /\ focus = "ai_shorts" => AS!DraftIsCurrent
    /\ focus = "ai_shorts_crash" => AC!DraftIsCurrent
    /\ focus = "project_remix" => WF!CompletedRunDidItsSteps
    /\ focus = "image_project" => IP!ImageIsThere
    /\ focus = "quick_project" => IQ!ImageIsThere
    /\ focus = "video_project" => IW!ImageIsThere
    /\ focus = "runner" => RU!NothingIsLost

\* What a page shows is so: the canvas of a run belongs to the attempt under way and that of a production to its
\* step, events come in their order and their news is not slept through, the end of a task that is asked for is
\* shown, and the cause a run is reported with is the one that stopped it.
ShownIsTrue ==
    /\ focus = "remix_run" => RC!CanvasIsOfThisAttempt
    /\ focus = "production" => RP!CanvasShowsTheStep
    /\ focus = "automatic_production" => RA!CanvasShowsTheStep
    /\ focus = "task_feed" => TF!InOrder /\ TF!NewsArrives /\ TF!HydratedEndIsShown
    /\ focus = "task_list" => TP!InOrder /\ TP!NewsArrives /\ TP!HydratedEndIsShown
    /\ focus = "runner" => RU!CauseIsTold

\* What was deleted stays away: the items of a deleted image project although its job goes on, a deleted prompt
\* as the one in use, and half an exchange that was cut from a conversation.
NothingComesBack ==
    /\ focus = "image_project" => IP!NothingAfterDeletion
    /\ focus = "quick_project" => IQ!NothingAfterDeletion
    /\ focus = "video_project" => IW!NothingAfterDeletion
    /\ focus = "lab_agent" => LA!DeletedIsNotActive /\ LA!HistoryIsExchanges

\* No step starts too soon: a paid video while the one before it may still be under way for the same image,
\* the narration of the one-click chain while keywords are being marked.
StartsInTurn ==
    [][ /\ focus = "ai_shorts" => AS!SubmitsClosedOnly
        /\ focus = "ai_shorts_crash" => AC!SubmitsClosedOnly
        /\ focus = "project_page" => PG!NarratesInTurn
        /\ focus = "rewrite_page" => PR!NarratesInTurn]_vars

\* No write takes back what another wrote in the meantime: the comment of an operator on a run, and a draft that
\* can be confirmed, which only its execution or a newer answer removes.
WritesAreKept ==
    [][ /\ focus = "remix_lab" => RL!KeepsComments
        /\ focus = "lab_agent" => LA!DropsDraftsForCause]_vars
==============================================================================

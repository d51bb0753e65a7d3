-------------------------- MODULE MCSchedulerSafety --------------------------
(* TaskScheduler in four small instances, checked in one run.  `focus` names the instance a behaviour is       *)
(* about, and x1, x2, ... are the variables of the module in the order in which it declares them.              *)
EXTENDS Naturals, Sequences

CONSTANTS turn, noturn, notask, p1, noproject

VARIABLES focus,
          x1, x2, x3, x4, x5, x6, x7, x8, x9, x10, x11, x12

vars == <<focus, x1, x2, x3, x4, x5, x6, x7, x8, x9, x10, x11, x12>>

\* One task through every history of execution, answer, retry, failed build, close and restart.
H == INSTANCE TaskScheduler WITH
    Turns <- {turn}, NoTurn <- noturn, NoTask <- notask, Projects <- {p1}, NoProject <- noproject,
    AppServerTasks <- {}, RemixTasks <- {}, Tasks <- {1}, MaxAttempt <- 5, ProjectOf <- <<p1>>,
    Limits <- {1, 2},
    Operations <- {"prepare", "resume", "retry", "buildfault", "listfault", "close"},
    Endings <- {"failed", "rejected", "superseded", "awaiting_input", "completed"}, MaxReopen <- 3,
    MaxRestart <- 2,
    rows <- x1, limit <- x2, running <- x3, lock <- x4, wake <- x5, closed <- x6, loop <- x7,
    worker <- x8, canceledCtx <- x9, killPending <- x10, signals <- x11, restarts <- x12
HInit == focus = "histories" /\ H!Init
HNext == focus = "histories" /\ H!Next /\ UNCHANGED <<focus>>

\* Two tasks of one project with two free slots, canceled at any point.
C == INSTANCE TaskScheduler WITH
    Turns <- {turn}, NoTurn <- noturn, NoTask <- notask, Projects <- {p1}, NoProject <- noproject,
    AppServerTasks <- {}, RemixTasks <- {}, Tasks <- 1..2, MaxAttempt <- 2,
    ProjectOf <- <<p1, p1>>, Limits <- {2}, Operations <- {"cancel", "startfault"},
    Endings <- {"completed"}, MaxReopen <- 0, MaxRestart <- 1,
    rows <- x1, limit <- x2, running <- x3, lock <- x4, wake <- x5, closed <- x6, loop <- x7,
    worker <- x8, canceledCtx <- x9, killPending <- x10, signals <- x11, restarts <- x12
CInit == focus = "contention" /\ C!Init
CNext == focus = "contention" /\ C!Next /\ UNCHANGED <<focus>>

\* Three tasks, two of them remixes, while the limit changes.
L == INSTANCE TaskScheduler WITH
    Turns <- {turn}, NoTurn <- noturn, NoTask <- notask, Projects <- {p1}, NoProject <- noproject,
    AppServerTasks <- {}, RemixTasks <- {2, 3}, Tasks <- 1..3, MaxAttempt <- 2,
    ProjectOf <- <<p1, p1, p1>>, Limits <- {1, 2}, Operations <- {"limit"},
    Endings <- {"completed"}, MaxReopen <- 0, MaxRestart <- 0,
    rows <- x1, limit <- x2, running <- x3, lock <- x4, wake <- x5, closed <- x6, loop <- x7,
    worker <- x8, canceledCtx <- x9, killPending <- x10, signals <- x11, restarts <- x12
LInit == focus = "limits" /\ L!Init
LNext == focus = "limits" /\ L!Next /\ UNCHANGED <<focus>>

\* One task whose answers, rejected results and output retries are canceled at any point.
K == INSTANCE TaskScheduler WITH
    Turns <- {turn}, NoTurn <- noturn, NoTask <- notask, Projects <- {p1}, NoProject <- noproject,
    AppServerTasks <- {}, RemixTasks <- {}, Tasks <- {1}, MaxAttempt <- 4, ProjectOf <- <<p1>>,
    Limits <- {1}, Operations <- {"cancel", "resume", "retry", "close"},
    Endings <- {"failed", "rejected", "awaiting_input", "completed"}, MaxReopen <- 2,
    MaxRestart <- 1,
    rows <- x1, limit <- x2, running <- x3, lock <- x4, wake <- x5, closed <- x6, loop <- x7,
    worker <- x8, canceledCtx <- x9, killPending <- x10, signals <- x11, restarts <- x12
KInit == focus = "cancellations" /\ K!Init
KNext == focus = "cancellations" /\ K!Next /\ UNCHANGED <<focus>>

Init == \/ HInit \/ CInit \/ LInit \/ KInit
Next == \/ HNext \/ CNext \/ LNext \/ KNext
Spec == Init /\ [][Next]_vars

------------------------------------------------------------------------------
\* Two runs never work on one project at the same time, whatever is registered or holds a project lock is a live
\* run or the task that is being started, and runs never outnumber the highest limit, whenever it changes.
RunsAreAccountedFor ==
    /\ focus = "histories" => H!TablesMatchRuns
    /\ focus = "contention" => C!ProjectExclusive /\ C!TablesMatchRuns /\ C!SlotBound
    /\ focus = "limits" => L!ProjectExclusive /\ L!TablesMatchRuns /\ L!SlotBound
    /\ focus = "cancellations" => K!TablesMatchRuns

\* The timings of a task do not overlap, end with it, and a commit follows a validation of the same attempt,
\* across resumes, retries, cancellations and restarts.
PhasesAreInOrder ==
    /\ focus = "histories" => H!OnePhaseOpen /\ H!FinishedTasksAreTimed /\ H!CommitFollowsValidation
    /\ focus = "cancellations" => K!OnePhaseOpen /\ K!CommitFollowsValidation

\* A running row has somebody who will move it on, and a parked dispatcher without a wake-up leaves nothing that
\* could start.
NothingIsForgotten ==
    /\ focus = "histories" => H!RunningHasOwner
    /\ focus = "limits" => L!RunningHasOwner
    /\ focus = "contention" => C!NoStrandedWork
    /\ focus = "limits" => L!NoStrandedWork

\* A completed task stays so; a canceled task stays so but for the two ways to overtake a cancellation, in which
\* the code does not keep it (CancelIsAuthoritative, CancelBeatsResult); and, without cancellations, rows and runs follow the life cycle of TaskContract.
EndsStand ==
    [][ /\ focus = "histories" => H!KeepsCompleted /\ H!FollowsContract
        /\ focus = "contention" => C!KeepsCompleted /\ C!KeepsCanceled
        /\ focus = "cancellations" => K!KeepsCompleted /\ K!KeepsCanceled
        /\ focus = "limits" => L!FollowsContract]_vars
==============================================================================

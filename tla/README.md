# Verification of the video production console

TLA+ modules, TLC runs and TLAPS proofs for the Go console and its web page under
`src/video-production-console`. Paths below are relative to
`src/video-production-console/internal` unless they begin with `web/` or `cmd/`.
`PROJECT.json` holds the same facts in tabular form: components, runs, mutants, the map
from definitions to source lines, hazards, findings and theorems.

## 1. The system

The console turns requests of a browser into *Codex tasks*. A task is a row of an
SQLite database. It is queued, taken by a dispatcher, executed by a Codex process of
its own (`legacy_exec`) or by a turn of a shared Codex App Server (`app_server`), its
result is validated, and the assets it produced are registered. Around the tasks are jobs
of their own kind: image and video jobs, montage registrations, the remix lab with its
productions, AI shorts, image projects and the media catalog. Every state change of a row
is one SQLite transaction; *who* runs which transaction, and in which order, is decided by
goroutines that share little more than the tables and the files.

    page (web/src) --HTTP--> httpapi --> prepare --> CompositeDispatcher --+--> Scheduler --> Runner --> codex exec
      ^                        |  |                        |              |       |           |
      |                        |  +-> remixlab, imagevideo, aishorts,     |       +--> store/tasks.go <--+
      |                        |      imageproject, mediacatalog,         |                 |            |
      |                        |      settings, assets, montage           +--> TaskAdapter --> Broker --> App Server
      |                        +-> workflow (follow-up tasks)                                  |
      +------ realtime hub <------- events, ends of tasks <------------------- store/conversations.go

### Components

| component | state it keeps | what is hard | what makes it correct | modules |
|---|---|---|---|---|
| task repository (`store/tasks.go`) | `codex_tasks`, `task_phase_runs` | each transaction checks its own part of the row; attempt numbers come from different queries | phases of one task never overlap, a finished task has no open phase, a commit follows its validation | `TaskStore` |
| legacy scheduler (`codex/scheduler.go`) | `running`, `projectLocks`, `limit`, one-place `wake` channel | lock released between listing, claiming and registering; a dropped wake-up strands the queue | one run per project, slots bounded, no leaked lock, no lost wake-up | `TaskScheduler`, `TaskContract` |
| legacy runner (`codex/runner.go`) | the process of one task, its pipes | four goroutines and a process that end in any order; a failure or a crash between any two writes | Run returns, no line is lost, the cause is told | `TaskScheduler`, `RunnerProcess` |
| task preparation and results (`httpapi/tasks.go`, `codex/manifest.go`, `codex/result_validator.go`) | the manifest file and the row | the file and the row are two writes; inputs are read one by one | the row has its manifest, a completed task delivered all of it | `TaskManifest` |
| task timing (`timing`, `store/task_timings.go`) | `task_phase_runs` | the recorder reads, then writes; the run and a cancellation close phases as well | the first end of a phase is kept, times add up | `TaskTimings` |
| realtime hub, task list (`realtime`, `web/src/App.tsx`) | subscribers with bounded buffers, kept copies | replay and live events meet; three requests make one task | order, nothing slept through, the end of a task that is asked for is shown | `TaskFeed` |
| conversation broker and task adapter (`conversation`) | mutex, lease, outbox, turns, completion inbox | three kinds of goroutine deliver messages; the App Server answers by notification; crash between call and receipt | a message is sent at most once, one turn at a time, every completion is worked off | `ConversationBroker` |
| conversation service, composite dispatcher | sessions, threads on the server, clean-up intents | a thread exists before anything is written about it | an owned thread is kept, an orphan is remembered, bound work stays on the main session | `ConversationThreads` |
| App Server manager and client (`codexapp`) | child processes, pending requests, notification channels | exit of the child, cancellation and Close while calls wait | one child at a time, none after Close; every call returns | `CodexApp` |
| montage registration (`montage`, `store/montage.go`) | attempts, a bounded queue, a folder of another program | a stop or a lost answer after the folder was published | published once, a ready draft is registered, every attempt is decided | `MontageRegistration` |
| image and video jobs (`imagevideo`, `store/imagevideojobs.go`) | jobs, items, attempts, leases | a lease runs out between a paid submit and its answer | submitted once, drafts of all scenes, the media phase ends | `ImageVideo`, `SceneTiming` |
| remix lab (`remixlab`, `agentruntime/openaicompat`) | runs, files of an output directory, the graph of agents, library | workers, reruns and edits write rows of one experiment; attempts share a directory | comments are kept, runs are driven, an agent is asked with what those before it answered | `RemixLab`, `RemixFlow`, `RunCanvas`, `RemixWorkflow`, `LabAgent` |
| productions (`remixproducer`, `remixlab/production.go`) | the row of a production, its driver | driver, redo, deletion and restart write one row | a running production has a driver, a completed one its draft | `RemixProduction` |
| workflow coordinator (`workflow`) | runs and the tasks of their steps | a task ends before it is bound; a crash between launch and binding | one task per step, an ended task moves its run | `ProjectRemix` |
| assets, projects (`assets`, `store/assets_v2.go`, `store/projects.go`) | versions, dependencies, stage, files | record and file are two writes; the stage follows from the assets | files match records, ready rests on ready, closed stays closed | `ProjectAssets` |
| AI shorts (`aishorts`) | one record, a lock per short and per shot | two locks taken by different requests; a paid video | locks exclude, one submission at a time, the draft is current | `AIShorts` |
| image projects (`imageproject`, `httpapi/imageproject*.go`) | project, items, images, one job | a job and requests write the same items; deletion meanwhile | an image is there, nothing returns after deletion, the job ends | `ImageProject`, `PlanReply` |
| media catalog (`mediacatalog`, `catalogbuilder`) | originals, rows, shots, embeddings | import, build and merge interleave; stops between transactions | rows have files, analysed shots have embeddings and stay analysed | `MediaCatalog` |
| settings (`settings`) | stored settings and the active snapshot | a save commits to one and applies to the other without a lock over both | active follows stored unless two saves cross, a fresh start is current | `Settings` |
| montage planner, captions (`agentruntime/montageplan`, `narration`) | none (pure) | boundaries: ends of narrations, clips and sentences | plans are whole and pass the validators | `MontagePlan`, `MontageOverlays`, `CaptionLines` |
| project page (`web/src/project-workbench`, `projects`) | action lock, cached queries, the one-click chain | queries answer in any order while a start is in flight | started once, in turn | `ProjectPage` |

The hard behaviours, at the line where each bites, are the `hazards` of `PROJECT.json`
and section 6.

## 2. The modules

A module models one component; a step is one critical section of a mutex, one transaction
of the store, one write of a file or one operation on a channel, and the program counters of
a goroutine follow the order of its statements. Whatever lies between two steps may be
interleaved with every other goroutine. The header of a module names its sources and what it leaves out, and
`map` in `PROJECT.json` gives the lines of every definition.

* **`TaskStore`** has each transaction of `store/tasks.go` as an operator on a row, with
  the condition `CanX` under which it commits. `TaskScheduler` and `ConversationBroker` are built on it:
  both transports write the same table. `rows[t].phases[k][a]` is the
  state of the phase run with key `k` and attempt `a`, `"none"` when there is no such row.
* **`TaskScheduler`**: `running`, `lock`, `limit`, `wake` and `closed` are the fields of
  `Scheduler`; `loop` is the local state of `dispatch`; `worker[<<"run", t>>]` is the
  goroutine `run` of `t` and `worker[<<"retry", t>>]` a request in `RetryOutput`;
  `canceledCtx` is the set of canceled run contexts and `signals` the runs that left the
  tables but have not called `signal` yet. **`TaskContract`** is what a client of the queue relies on (a life
  cycle, one execution per project); `TaskScheduler` refines it (`MeetsContract`).
* **`ConversationBroker`**: a delivery owns `mutex` from the reload of its message to the
  end of `deliverLocked`; `AfterDelivery` says what each kind of caller does next. `seen`
  and `todo` are what a goroutine read earlier and acts on later. `server`, `starter` and
  `sent` are the App Server and exist to state properties.
* **`CodexApp`**: `proc[c]` is a goroutine in `ManagerRPC.Call`; `current`, `active`, `starting` and `status`
  are the fields of `Manager`; `attempt[c]` is the `startAttempt` that `c` made; `closing`
  holds the clients whose transport is being closed. A frame is written by the child and
  read by `readLoop` in one step, because what is unread when the child ends is lost.
* **`RunnerProcess`** is what `TaskScheduler` takes as one step per ending: the child, its two pipes and their
  readers, the writer, the watcher of the context and `Run`, which joins them.
* **`RunCanvas`** extends `RemixFlow`: what the canvas shows is derived from the state of the module below, in every
  state that module reaches. `RemixProduction` has the canvas of a production in its last part.
* **`SceneTiming`, `PlanReply`, `MontageOverlays`, `CaptionLines`** and **`RemixWorkflow`** model pure code. A behaviour
  writes an input piece by piece, and the invariants compare the outcome of the algorithm with
  a definition of what it has to be. **`MontagePlan`** plans one slot per step.
* **`ProjectAssets`** is where the drafts of `MontageRegistration`, the results of the runner and the narration
  meet: it has the registrations of all of them as calls of concurrent requests.

Every other module has the rows and files of its component as variables and one action per
transaction or write of the functions named in its map.

**Composition for TLC.** Components that call each other share a module (scheduler with store and runner,
broker with adapter and App Server, page with its server, driver with lab and console). Components that only
meet in a table are checked next to each other. `MCSchedulerSafety`, `MCBrokerSafety`, `MCProduction`, `MCRecords` and
`MCSettles` hold several small instances each: `focus` names the instance a behaviour is about, `x1`, `x2`, … are
its variables, and a property is the conjunction of what the modules say about the same
hazard, each under its `focus`. An initial state chooses the instance, so one run explores all of them
completely.

**Abstractions.** Texts, prompts, digests and messages to users are left out unless a
property is about them. Ids are numbers in the order of creation. The App Server dies with the console (it is
its child), so a restart ends every turn. A lease of the process before expires at any later moment. External
services (video, voice and language models, the registration script, Codex) answer, refuse or stop at any
moment. A child of the console that is killed is dead at once.

**Bounds** are constants in guards: attempts (`MaxAttempt`, `MaxAttempts`, `MaxRounds`), requests
(`MaxReopen`, `MaxRequests`, `MaxOps`), crashes and faults (`MaxRestart`, `MaxCrashes`, `MaxFaults`, …) and sizes
(`MaxWords`, `MaxVersions`, …). `Operations` and `Endings` choose which requests, faults and results an
instance explores; nothing is assumed about the others. A transaction that needs an attempt above
`MaxAttempt` is refused as the unique index would; in every run `MaxAttempt` is above what `MaxReopen`
allows, so the bound refuses nothing.

Operators whose comment says *Mutant* (or "a mutated form") are plausible bugs of the definition they precede.
Every property of a passing run has one in `PROJECT.json` under which the same run finds it violated; the others
show the same of single conjuncts.

## 3. The runs

| run | instances | what it shows |
|---|---|---|
| `scheduler_safety` | `histories`: one task through five attempts, output retries, resumes, failed builds and lists, close and restarts; `cancellations`: one task whose answers, rejected results and output retries meet a cancellation at any point; `contention`: two tasks of one project with two slots, cancellations, failing starts and a restart; `limits`: three tasks while the limit changes | no lock or slot is leaked and slots are bounded (`RunsAreAccountedFor` = `ProjectExclusive /\ TablesMatchRuns /\ SlotBound`); phases never overlap, a finished task is timed and a commit follows its validation (`PhasesAreInOrder`); a running row has an owner and a queued one a wake-up (`NothingIsForgotten`); completed is final and a canceled task stays canceled, but for the two windows of finding 1 (`EndsStand`) |
| `scheduler_live` | two tasks of one project and an App Server task in the same table, close | `TypeOK`, one run per project (`ProjectExclusive`) and lock tables that match the runs (`TablesMatchRuns`), the invariants that are proved in section 4; every admitted task is dispatched, every run ends, the contract is implemented |
| `scheduler_cancel_violated` | one task, cancel | finding 1 |
| `broker_safety` | four requests (two with one client key) on three messages, three turns, refused calls, a lost thread, a crash; one task with two workers, resumes, cancellations, retries, completions claimed twice and ends notified before their turn is on record | a message is accepted once at most, one open turn and one validator (`OneOfEach`); accepted messages were sent, a running conversation has a turn (`RecordsAreTrue`); finished is final and, without a restart, a waiting task is not failed |
| `broker_mixed` | a task and a chat message that queues behind its turn, refused calls, a lost thread, a crash | `TypeOK`, `SentAtMostOnce`, `OneActiveTurn` and `BoundToItsOwnTurn`, the invariants that are proved in section 4; somebody finishes a running task (`RunningTaskCompletes`; without ends that overtake the record of their turn, section 5); completions are worked off; what is queued behind an open turn is sent or fails, unless the console stops before (`QueueMoves`) |
| `broker_queue_violated` | a task admitted behind a chat turn | finding 2 |
| `app_calls` | two calls, two children, full channels, two faults of any kind (cancellation, crash, bad frame, refusal, failed start), close | one child at a time, the status is true, nothing is left after Close, answers are kept, the tables hold no call that has gone |
| `app_live` | two calls, two children, one fault, close | every call returns, a dead client is replaced |
| `app_forward_violated` | two calls, two children, a crash and a notification | finding 3 |
| `production` | 20 instances of `ImageVideo`, `MontageRegistration`, `RemixLab`, `RunCanvas` (with `RemixFlow`), `RemixProduction`, `AIShorts`, `ImageProject`, `ProjectRemix`, `ProjectPage`, `LabAgent`, `TaskFeed`, `RunnerProcess` | nothing paid, published or started for somebody is done twice; what is shown as under way is driven; results rest on all of their inputs; pages and canvases show what is so; deleted things stay away; no step starts too soon; no write takes another back |
| `records` | 22 instances of `ProjectAssets`, `MediaCatalog`, `TaskManifest`, `Settings`, `ConversationThreads`, `TaskTimings`, and of the pure modules over every input up to their bounds | records are true, what counts as ready is sound, plans are whole and keep the rules they are checked by later, what was settled stays so |
| `settles` | nine modules, each with a crash, a fault or a lapsed lease | everything begun comes to an end |

Properties with a common subject are stated together as named conjunctions. For `production`, `records` and `settles`, this is what
they say of each module:

* `NothingIsDoneTwice`: a paid submission per attempt (`SubmittedOnce`), the folder of a montage
  (`PublishedOnce`), one task per step of a workflow (`OneTaskPerStep`), the spoken lines of a version
  (`StartedOnce`), and no two goroutines at once on a short and on one of its shots (`LocksExclude`).
* `WorkIsDriven`: `RunningAttemptIsCurrent`, `InFlightIsDriven`, `ExperimentStatusIsCurrent`, `RunningIsDriven`.
* `ResultsRestOnInputs`: `DraftFromAllScenes`, `ReadyIsRegistered`, `AskedWithTheResults`, `ScriptIsOfThisAttempt`,
  `RedoneAgentIsCalled`, `CompletedHasDraft`, `DraftIsCurrent`, `CompletedRunDidItsSteps`, `ImageIsThere`, `NothingIsLost`.
* `ShownIsTrue`: `CanvasIsOfThisAttempt`, `CanvasShowsTheStep`, `InOrder`, `NewsArrives`, `HydratedEndIsShown`, `CauseIsTold`.
* `NothingComesBack`: `NothingAfterDeletion`, `DeletedIsNotActive`, `HistoryIsExchanges`.
* `StartsInTurn`: a second paid video only when the first one is over (`SubmitsClosedOnly`), the narration of the
  one-click chain only when no keywords are being marked (`NarratesInTurn`, asked of the instance without faults; a lost answer
  to the request for the narration is not modelled). `WritesAreKept`: `KeepsComments`, `DropsDraftsForCause`.
* `RecordsAreTrue`: `FilesMatchRecords`, `RowHasFile`, `AnalysedHasEmbedding`, `RowHasItsManifest`, `OwnedThreadIsKept`,
  `OrphanIsRemembered`, `ActiveFollowsStored`, `UncrossedSavesAreHot`, `FreshStartIsCurrent`, `TimingsAddUp`.
* `CurrentIsSound`: `ReadyRestsOnCurrent` (at any distance), `OneNarration`, `StageFollowsAssets`, `CompletedDelivered`, `BoundWorkStaysOnMain`.
* `PlansAreSound`: `EveryAgentHasItsWave`, `SnapshotIsValid`; `SlideshowAlwaysPlans`, `NoImageFlashesBy`, `VideoScenesFit`;
  `CardsAreTheScript`, `EveryCutIsAccepted`; `PlanCoversNarration`, `RepeatsOnlyWhenSpent`, `ShotIsShownOnce`, `SlotsKeepTheirPace`,
  `WindowsFit`, `PoolIsSpread`; `LinesAreTheSentence`, `CaptionsKeepTheirPlace`, `SoundsPassValidation`; `CaptionsAreTheWords`,
  `FragmentsHaveNoPlace`, `LongLineHasReason`.
* `WorkSettles` is a leads-to: `Owed(k)` names what was begun in the instance in focus, `Settled(k)` its end.

**Why the bounds are enough.** The conflicts in this code are between two parties: two
tasks and one lock, a cancellation and a run, two requests with one key, two workers and
one completion, a crash and a delivery, a caller and the end of the child it uses, two locks of a short, a
page and its server, two saves of the settings, two dispatches on one conversation. Two of each, one crash and one fault beside them meet in all of these. A
third task is needed where a changed limit lets one run more than the slots allow, a
third turn where an answer, a chat message and a steer meet. `MeetsContract` is checked without restarts, and so speaks of
interleavings, not of crashes; those are `NothingIsForgotten`'s and `PhasesAreInOrder`'s. Three attempts of a task reach a retry after a
resume and a resume after a retry; the third version of a chain of assets reaches what rests on it at a distance of
two. The planners work from left to right with a memory of a clip, a scene or a line, so that inputs of three to
five pieces reach every pair of neighbouring decisions. Tasks are ordered by creation and turns by number, so
symmetry is used only for the calls of `app_calls`, a run without liveness properties.

`CHECK_DEADLOCK FALSE` is set everywhere: the console may come to rest when every request
is answered, and the bounds stop the rest.

**Fairness.** Goroutines are scheduled by the Go runtime: weak fairness of each
runner, of the dispatch loop, of recovery and of the notification consumer, of the worker, lifecycle and finalizer of the
image and video jobs, of the registration queue, the drives of the lab, the driver of a production, the jobs of shorts and image projects, the
observers of workflows, the catalog build, and the goroutines of a run. In `MCSettles` the goroutines of the
instance in focus share four names (`Goroutine1` to `Goroutine4`): only one
instance moves in a behaviour, so the fairness of a name is that of one goroutine of this instance.
`sync.Mutex` hands itself to a starving waiter, so a goroutine waiting for the
conversation's mutex gets it (strong fairness of each process of the broker). The inbox sweep
wakes a worker every second, so a completion that is pending again and again is claimed
(strong fairness of the claim); the claim of the video worker requeues what has expired at every round (`Claiming`). A started
Codex process or turn ends, and a child that is alive answers what it has read: the code sets no time limit on
either, so these are assumptions about Codex. No request,
cancellation, limit change, crash or fault is fair. The liveness run of the
scheduler leaves out the `listfault` and `startfault` faults: after a failed `List` the code waits for the next
signal, whoever sends it, and a run that returns before `Start` leaves its row running (section 6).

## 4. Proofs

For all sets of tasks, projects and limits, all attempts and restarts
(`TaskScheduler_proofs`):

* `TypeCorrect`: `Spec => []TypeOK`. `TaskStore_proofs` shows that each transaction takes a
  row to a row; one lemma per group of actions lifts that to the state.
* `TablesCorrect`: `Spec => []TablesMatchRuns`, and `MutualExclusion`:
  `Spec => []ProjectExclusive`. Mutual exclusion alone is not inductive: a step of the
  dispatcher may start a run only because it *holds* the lock it took two steps earlier,
  and a lock may be freed only by its holder. `LockInv` adds both facts: every live run
  holds the lock of its key (`RunsHoldLocks`) and so does the dispatcher for the task it
  is starting, which has no run yet (`DispatcherHoldsLock`); conversely, whoever holds a
  lock is one of these (`TablesMatchRuns`).
* `SlotsBounded`: `Spec => []SlotBound`. The slots are computed once per dispatch while
  runs end and the limit changes; `SlotsReserved` says that the runs and the slots the
  dispatch still has never exceed the highest limit.

On top of `LockInv`:

* `ContractMet`: as long as nobody cancels, `Spec => MeetsContract`, the refinement of
  `TaskContract`. The writes of a result and `Start` set the status without asking for it, so
  that a step follows the contract only because of who takes it. `WriterInv` says so: at most
  one goroutine writes the row of a task (the dispatcher that claimed it, its run, or a
  retry), and then the row is running, or canceled (`Fine`). Each action *serves* the task it
  is about: it leaves the other tasks alone, keeps `Fine`, and moves the row along the contract.
  Cancellations are excluded because `Start` and the writes of a result may take a canceled row on (finding 1).
* `CompletedStays`: `Spec => CompletedIsFinal`, with cancellations, from the same invariant.
* `OwnerExists`: without cancellations and refused starts, `Spec => []RunningHasOwner`. It is the
  converse of `Fine`: a running row has a goroutine that still writes it (`Owned`), which no
  goroutine stops doing before the row has left that status. Both hypotheses are
  needed (finding 1 and section 6).

On top of `WriterInv`:

* `PhasesAreDisjoint` (`OnePhaseOpen`), `CommitIsValidated` (`CommitFollowsValidation`) and, as long as nobody
  cancels, `FinishedIsTimed` (`FinishedTasksAreTimed`). The transactions close the *newest*
  run of *one* key, so none of these survives a transaction alone: `PhaseInv` says which key may be open
  at each point of the life of a task (`Timed`): the queue wait of a queued row, the execution
  until it is handed to the validation, the attempt a goroutine validates or commits
  (`Holds`), and none of a row that rests.
* `NothingStranded`: unless a listing fails, `Spec => []NoStrandedWork`. `WakeInv` says what a dispatch
  that will park knows as long as nobody signals (`Unsignaled`): every free slot (`KnowsTheSlots`), because runs end and
  limits change with a signal; and of every admitted task that it is in its list, or is being started,
  or waits for a lock that a *run* holds (`KnowsTheTasks`). The lock of the task being started does not count, for the
  dispatcher gives it up when the claim is refused. Without the hypothesis the theorem is false: after a failed
  `List` the code waits for the next signal, whoever sends it.
* `CancellationStands`: `Spec => CancelWins`, which is `[][KeepsCanceled]_vars`. A cancellation closes the attempt the goroutine
  holds, and every later write of the result asks for that attempt. The two ways to overtake a
  cancellation (`Overtakes`: a run that starts after it, a validation that begins after it) are the windows of finding 1. `CancelInv`
  says that a retry of the output has neither: it opens its phases in a running row, and a cancellation closes them all.

For all sets of calls and children, and all faults (`CodexApp_proofs`):

* `TypeCorrect`: `Spec => []TypeOK`, together with `CallShape`: a call that works on a
  child has one.
* `SingleProcess` (`OneProcess`), `StatusCorrect` (`StatusIsTrue`) and `CloseCorrect`
  (`CloseLeavesNothing`). That at most one child is alive says nothing about who will end
  it, so it is not inductive. `ManagerInv` adds it: a living child is the active one, or
  belongs to the one attempt under way, or is the one that Close is about to end
  (`Custody`); there is one attempt, and Close has canceled it (`OneAttempt`); the fields
  of the manager never name two children (`Roles`, `Closedness`). Steps that change none of
  this are covered by one frame lemma (`ManagerFrame`).

For the calls inside a client (the same module, on top of `ManagerCorrect`):

* `CallersServed`: `Spec => []CallersAreServed`, that is `AnswerIsKept` and `PendingHasCaller`.
  Whether a caller may be told "error" depends on a table, a channel and the wire that three
  goroutines change. `CallInv` ties them together: nothing is answered before it is
  registered, nor put on the wire before it is written (`NothingEarly`); as long as a request
  is in the table its channel is empty (`PendingIsOpen`), because whoever fills the channel
  removes the entry; and a terminated client has an empty table (`DoneIsEmpty`). So a cancellation
  that still finds its entry cannot meet an answer, and one that does not must take it. All
  steps but the registration and the arrival of an answer go through one frame lemma (`CallFrame`).

For one run of the legacy agent, with any number of lines and faults, and for all sets of sockets (the same module):

* `CauseTold` (`CauseIsTold`) of `RunnerProcess`. A run is stopped by the watcher, a reader or the writer, and what they do makes
  the others fail too. `ProcessInv` says that who stopped the run left its error with itself (`Traced`) and that
  nobody goes on when `Run` decides (`Joined`).
* `EventsInOrder` (`InOrder`), `NothingSleptThrough` (`NewsArrives`) and `HydratedEndShown` (`HydratedEndIsShown`) of `TaskFeed`. An event is
  either in what a socket replays or still on its way to it: `Followed` says so at each point between the registration of a socket,
  its read of the events and the write of a published one. `NewsArrives` is about the last event, for only that one is published
  (`cmd/console/main.go:245`); those before it may never come. `ListInv` says that the list never runs ahead of the row and that
  what is copied while a task is asked for agrees with the list. A task that is no longer asked for is shown by a copy
  nobody compares (`EndIsShown`, section 5); the theorem does not speak of it.

For all sets of tasks, messages, requests, workers and turns, and all orders of recoveries
and restarts of the broker:

* `TypeCorrect` and `FinishedStays` (`ConversationBroker_proofs`). `TypeInv` adds to the types what each
  process carries between its steps: a delivery has a message, a completion worker a turn, a list of
  messages to retry has messages of the store. `TaskSteps` reads every action as a step of the life of
  each task, with the lemmas of `TaskStore_proofs` on the transactions; a finished task only meets steps that
  refuse it.
* `OneTurnAtATime` (`OneActiveTurn`) and `OwnTurn` (`BoundToItsOwnTurn`) (the same module). That one turn is open
  follows from who may open one: a process in the critical section, which decided there that none
  is open (`Locked`, `OnServer`), and `OneOpen` carries the fact to the call. What is bound
  to a turn comes from the delivery that started it (`StartedFor`).
* `SentOnce` (`SentAtMostOnce`) and `AcceptedSent` (`AcceptedWasSent`) (`ConversationMessages_proofs`). The state of a message
  in the outbox does not say whether it may be sent: requests with one key, workers, the adapter
  of a task and a restart all read it before they lock. `MsgInv` says who may: a message is counted
  as sent exactly from the answer to its call on (`Counted`), only the holder of the lock knows a state that
  permits a call (`Knowledge`), a message that was just stored has not been sent
  (`Fresh`), a task has one adapter at a time and no turn while it enqueues or resumes
  (`EnqueueAlone`, `ResumeAlone`), and an open turn has the one answer its task waits
  for (`AnsweredOnce`, `BoundOnce`, `OneAnswer`). A worker delivers a task's message only while its row is
  running, so that its delivery never meets the adapter's (`RequestsServe`).
* `RunningHasATurn` (`RunningHasTurn`, the same module). The status of the conversation, its turns and the inbox are written
  by different steps. `StatusInv` says that a completion is closed only after its turn (`TurnsClosed`), that nothing is
  recorded twice or of a turn without a row (`Recorded`), and that the status has a cause which its own writers take away last
  (`RunningHasCause`).
* `ValidatedByOne` (`OneValidator`) and `WaitingStays` (`WaitingIsNotFailed`, which is `[][KeepsWaiting]_vars`). A completion may be claimed
  twice, an output be retried and an answer come, and each takes the task on from a status that another may restore. `TurnInv` says what
  a task has as long as it has its turn: no message of it is on its way, listed, or failed (`TurnIsLast`, `OneUnderway`, `Unlisted`), a turn that
  nobody has heard of is nobody's (`Untouched`), a late receipt is the one of the row (`ReceiptFits`), and who validates
  holds the task in a status that only he ends (`Validated`). The hypothesis `StopsBetweenAnswers` is that a restart finds no answered turn
  bound (`Restart => AnsweredTurnIsLeft`); a console without a restart satisfies it, as the `task` instance of `MCBrokerSafety` does.
  Without it a task that waits is failed (`AnsweredTurnIsLeft`, section 5), and `TurnInv` is not an invariant.

For all sets of shots and handlers, and any number of requests and crashes (`AIShorts_proofs`):

* `ShortOrShots` (`LocksExclude`), with `TypeCorrect`. A handler looks whether the short is free, then marks it, and
  a goroutine that it started frees it: the flag alone does not say who holds it. `LockInv` does: the short has one holder (`OneHolder`), each
  shot has one (`OneHolderOfShot`), whoever comes through one lock finds nobody at the other (`Apart`), and a
  stage of the work belongs to the holder that drives it (`Worked`).
* `PaidOnce` (`NoDoubleSubmission`). Whether a video may still be under way is known to the provider only. `VideoInv`
  says that the record and the goroutine between them keep track of it (`Known`): one of them has the number of an
  open request, or the mark that says the answer got lost, at each of the writes around a submission, a failure and a crash.
* `DraftCorrect` (`DraftIsCurrent`), unless the console was stopped. The draft is composed by one who holds the short, its
  inputs are changed by those who hold a shot, and the mark comes in a write of its own; `DraftInv` says that every
  shot is as the draft shows it, or about to be marked. The attempt to prove it led to the disagreement in section 5
  (`ReadyVideoShowsImage`): what the record calls the video of an image may be of the image before.

For all numbered items and modes, and any number of requests, failures and restarts (the same module):

* `ImagesTypeCorrect`, `ImageOnDisk` (`ImageIsThere`) and `DeletedStaysEmpty` (`NothingAfterDeletion`) of `ImageProject`. The job and
  the requests draw, replace and remove images after what they read of the items before. `ImageInv` says that an image that is
  drawn and not saved is known to nobody else (`Secret`), that an image belongs to one item, in the rows and in every
  copy of them (`OfOneItem`), and that what is about to be removed is no longer shown (`Replaced`); of a deleted project that
  its items are gone before its files (`Emptied`). The hypothesis `ItemAssumption` says that items are numbered from one.

For all sets of callers, runs and agents, and any number of requests, tasks, attempts and restarts (`ProjectRemix_proofs`):

* `TypeCorrect` and `StepsDone` (`CompletedRunDidItsSteps`). A remix is bound long after the card and the topic task were
  looked at, and nothing is asked again. `Held` says that only the holder of the mutex moves a run, also across a
  restart; `Informed` that what the holder has read stays true until it binds, because no step takes a card back or
  reopens a completed task (`Lasting`). The hypothesis `CallerAssumption` says that callers are not called like the observer, the
  reconciliation or the free mutex. `OneTask` (`OneTaskPerStep`): a second launch of a step meets the task of the first.
* `LabTypeCorrect`, `StatusFollowsRuns` (`ExperimentStatusIsCurrent`), `RunsAreDriven` (`InFlightIsDriven`) and `CommentsStay`
  (`CommentIsKept`, which is `[][KeepsComments]_vars`) of `RemixLab`. Goroutines and requests write rows back that they read before. The two
  properties are inductive together, once a run that does not exist leaves nothing behind (`NothingLeft`); the
  hypothesis `RemixAssumption` says that the first runs are some of the runs.
* `ProductionTypeCorrect`, `ProductionDriven` (`RunningIsDriven`), `DraftThere` (`CompletedHasDraft`) and `CanvasCorrect`
  (`CanvasShowsTheStep`) of `RemixProduction`. The row is written by a driver with a copy of its own and by requests with older ones.
  `ProductionInv` says that *every* copy fits the tasks that completed (`Fit`), which none of them takes back, that a
  request may still act on the row it read (`MayAct`), and that the entry of the driver stays while it exits (`Entered`). Excepted are
  a driver whose last save failed (`lost`, section 5) and a launch that met the entry of the driver before (`ignored`, section 6).
* `AskedInOrder` (`AskedWithTheResults`), `ScriptIsCurrent` (`ScriptIsOfThisAttempt`), `RedoneIsCalled` (`RedoneAgentIsCalled`) and
  `RunCanvasIsCurrent` (`CanvasIsOfThisAttempt`) of `RunCanvas`, for every graph of agents. The agents of a wave read what is there,
  ask and save in goroutines of their own. `Waves` says that an agent is under way in its wave only, that what it waits for has ended
  outside of it, and that what its prompt held is still the result of the attempt. It does not hold of an answer taken
  from the disk (section 5). What lies in the output directory does not say which
  attempt wrote it: `AttemptInv` and `Canvas` say that a run that waits for its attempt has no script, review
  or raw answer, and that an agent to be redone has no output until it was called.

For all sets of jobs, scenes and tasks, and any number of attempts, retries, cancellations and crashes (`Drafts_proofs`):

* `SentToProviderOnce` (`SubmittedOnce`) and `PaidIsCurrent` (`RunningAttemptIsCurrent`) of `ImageVideo`. An attempt and its request id
  are written to two rows, by a goroutine that a crash may stop between the submission and the write, while a lapsed
  lease, a retry round or a cancellation takes the item away. `AttemptInv` says that an attempt that runs is the
  current one of its item (`Current`), that later numbers have no row and a request id belongs to the current number
  (`Numbered`), and that a goroutine works on the attempt it began and has not sent it before (`Works`).
* `DraftIsWhole` (`DraftFromAllScenes`). The draft is built long after the media were looked at. `MediaInv` says that
  whoever is past the media phase had all scenes (`Whole`); it lasts because no step takes a scene that succeeded
  back (`MediaStays`), retries and cancellations included.
* `MontageTypeCorrect`, `FolderPublishedOnce` (`PublishedOnce`) and `ReadyWasRegistered` (`ReadyIsRegistered`) of `MontageRegistration`. Whether the
  script has published is known from the disk only, and the answer that says so may be lost. `FolderInv` says that the
  worker runs the script for a task without a folder and commits only with folder and receipt there; no step
  removes either, and none touches the last attempt of a completed task.

  The hypotheses are `ImageVideoAssumption` and `MontageAssumption`. Of `TypeOK` of
  `ImageVideo` the proofs need the tables, the goroutines and the folders (`TypeInv`); the rest stays with TLC: `finals`
  is sorted by `SetToSortSeq`, and that a finite set has a sorted sequence takes an induction.

The proofs use the named assumptions of `TaskStore`, `TaskScheduler`, `CodexApp` and `ConversationBroker` (finitely many
turns, keys of chats and of tasks that differ, bounds that are natural numbers), which TLC
evaluates on every run, those named with a theorem (`CallerAssumption`, `RemixAssumption`, `ProductionAssumption`,
`ItemAssumption`, `ImageVideoAssumption`, `MontageAssumption`), which `MCProduction` evaluates for its instances, and the library's
facts on finite sets, sequences and the order of the numbers. A few theorems add a hypothesis on what happens, named where they are listed.
There are no others.

Only model-checked:

* everything about liveness (`QueuedIsDispatched`, `RunsEnd`, `CompletionsAreDrained`, `RunningTaskCompletes`, `QueueMoves`, `CallsReturn`,
  `DeadClientIsReplaced`, `WorkSettles`), which the provers cannot express;
* of the modules in `MCProduction`: `ProjectPage` (`StartedOnce`, `NarratesInTurn`), `LabAgent`, the types of `RemixFlow`, `TaskFeed` and
  `RunnerProcess`, and `NothingIsLost` of the last, which speaks of what `SelectSeq` computes;
* the properties of the modules in `MCRecords`. The modules of pure code are checked for
  every input up to a bound; what a recursive function computes for all inputs is outside the reach of the prover.

## 5. Findings

1. **A cancellation is overwritten** (`CancelIsAuthoritative`, `store/tasks.go`). There are two windows. `TaskRepository.Start` sets
   the status to running whatever it is, so that a cancellation between the claim and the start is lost; this is the trace of the run.
   And `Run` looks at its context once after the process has ended (`codex/runner.go:171`): a cancellation between that look and
   the opening of the validation (`:194`) is lost as well, for none of the writes that follow asks for the status. TLC finds it
   with `CancelBeatsResult`, the same property for a run that has started.
2. **A queued task is failed instead of started** (`QueuedTaskKeepsItsPlace`, `conversation/broker.go`). The queue only
   delivers messages of *running* tasks, and a task that waits for its turn is `queued`.
3. **Nobody reads the second App Server** (`NotificationsArrive`, `codexapp/manager_rpc.go`). `ManagerRPC` starts its
   forwarding once, for the first client. After that child has ended, the notifications of
   the next one stay in its channel, whose overflow is a protocol error.

Further disagreements between code and text, or code and evident intent, met while modelling. The models follow the
code; each property named here is defined in its module, TLC finds it violated on instances like those of the
runs, and no run is spent on it.

Tasks and conversations:

* After an output retry that ends in `awaiting_input` and a resume, the validation of the new execution takes a number that is
  in use, and a good result is failed (`ValidationCanStart` in `TaskScheduler`). `PhasesAreInOrder` does not see this: the second row
  is refused, so that no phase is out of order.
* A `turn/completed` that is consumed before the number of the turn is on record finds no turn and is dropped; the turn and its
  task stay running (`RunningTaskCompletes` in `ConversationBroker`, with `"early"` among the `Operations`). The run that checks
  the property leaves these ends out; `broker_safety`, whose properties hold in spite of them, has them.
* A console that stops during a delivery leaves its lease behind, which refuses the one attempt that the recovery makes:
  what was queued then stays queued (`QueueIsRecovered` in `ConversationBroker`). `QueueMoves` therefore speaks of a console that goes on.
* The receipt of a start that is bound late takes a resumed task back to the answered turn (`AnsweredTurnIsLeft` in
  `ConversationBroker`). A restart then takes the old answer up again, and fails the task although it waits for an input
  (`KeepsWaiting` with `"resume"` and a restart).
* The lock of a conversation is released before a task is bound to it, and a second dispatch that finds the thread gone sets the
  conversation aside (`QueuedWorkIsOnMain` in `ConversationThreads`). `BoundWorkStaysOnMain` says that only a task bound after the
  look at the conversation's work is left behind.
* The dispatcher lists queued rows of both transports; when it meets an `app_server` row the claim
  is refused and the row is failed (`TransportRespected` in `TaskScheduler`).
* A prepared task is already `queued` and may run before it is admitted; the admission
  then fails (`ExecutionWasAdmitted` in `TaskScheduler`, `RunWasAdmitted` in `TaskManifest`).
* A message that is queued when no turn is open any more is not sent before the next turn has ended: the worker that would have
  sent it looked before (`QueueMoves` speaks of what is queued *behind* an open turn).
* `deliverTask` sends a message that a worker has failed in the meantime
  (`FailedIsNotSent` in `ConversationBroker`).
* Live remixes are read before the new one is entered: two requests at once start one model twice (`OneRemixPerModel` in `TaskManifest`).
* Two items of an agent that show one phase overlap, the second start is refused, and the legacy runner ends the run for
  it (`TimingNeverStopsARun` in `TaskTimings`); a task that ran before it was admitted has no queue boundary and no summary (`SummaryIsComputable`).
* With several requests at once, a task list that is put together between an end and its result keeps a copy without the result (`KeptCopyIsComplete` in `TaskFeed`).

Videos, shorts and images:

* `BeginDraft` moves a job whose registration is retried back to the draft phase, where
  `CompleteRegistration` does not match it: a retry that succeeded is recorded as failed (`RetriedRegistrationCompletes` in `ImageVideo`).
* A new image is saved while the video of the old one counts as done (`ReadyVideoShowsImage` in `AIShorts`). The number of
  the old request stays in the record until the next submission (`aishorts/service.go:903` clears a copy); when the gate in between
  fails or the console stops, the continuation fetches the video of the old image and counts it as that of the new one.
* A prompt edited while its image is drawn leaves a ready item that shows the old one (`ReadyShowsItsPrompt` in `ImageProject`);
  a run may be marked as running with no job behind it (`RunningHasJob`); of two requests for a first image the one that
  fails last clears the other's (`FailureKeepsImage`).
* A probe that stopped half-way is completed as it is by the next one (`NeverHalfFinished` in `MediaCatalog`), and a source that
  is requeued after its probe is listed by no build (`RequeuedIsProbed`).

Projects and the page:

* Two saves of the settings are stored in one order and applied in the other, and the console goes on with values that are no
  longer stored (`HotSettingsAreHot` in `Settings`). `UncrossedSavesAreHot`, in the `records` run, says that this is the only way.
* A montage or topic task that is no longer among the newest ones is served the copy that was kept while it ran, and is shown as
  running after it has ended (`EndIsShown` in `TaskFeed`; `web/src/App.tsx:241` against the comment at `:251`).
* The inputs of a result are compared in one transaction and the result is registered in the next: an input
  replaced in between is not noticed (`SupersededInputsRejected` in `ProjectAssets`). A mix draft has no dependencies, so
  new keywords do not make it stale (`KeywordsInvalidateDrafts`).
* A workflow reads the card before the status of the task that writes it, and fails for want of a card that is there (`FailedForWantOfCard` in `ProjectRemix`).
* The one-click chain waits for ever for keywords whose task failed before the button was pressed (`ChainIsNotLeftHanging` in
  `ProjectPage`); an import whose detail arrives while its own action holds the lock is not carried on (`ImportIsCarriedOn`).
* A start whose repair is refused uses a Codex that is gone (`StartUsesInstalledCodex` in `Settings`).

Remix lab:

* A retry redoes one agent; those behind it in the graph go on with what they have, which rests on the answer that was
  replaced (`CachedWithTheResults` in `RemixFlow`; `remixlab/rework.go:82`).
* An agent that answered is shown as failed, the reason of a failure is shown at several nodes, and a node's time may be
  of another draft (`AnswerIsNotAFailure`, `ToldOnce`, `TimeIsOfTheDraft` in `RunCanvas`).
* A driver that cannot save how it ended leaves the production running, with no driver, until a restart (`lost` in `RemixProduction`).
* A driver that waits for a narration made elsewhere takes the one that was there before (`OtherNarrationIsAwaited` in `RemixProduction`).
* An exchange is appended after the conversation was reset, a recovered answer may belong to another question, and a draft
  may be confirmed twice (`NewConversationIsNew`, `RecoveredIsItsOwn`, `ConfirmedOnce` in `LabAgent`).
* A caption line can exceed its limit, end on a connector or begin with punctuation (`LineFits`, `NoTrailingConnector`,
  `NoLeadingPunctuation` in `CaptionLines`): the passes that mend one of the three undo another.

## 6. Hazards without a property

Beside the hazards of `PROJECT.json`, the code is exposed to the following. The models have these steps unless it says
otherwise; the outcome is what the code makes of them, so that there is nothing to hold.

* `codex/scheduler.go:95`: a failed `List` drops the dispatch, and nothing schedules another one before the next signal.
* `codex/runner.go:79`: `Run` returns before `Start` without persisting a failure; the row stays running until a restart.
* `store/imagevideojobs.go`: the failure of a draft is written without testing the status, so that a job canceled
  meanwhile becomes failed; `imagevideo/lifecycle.go:118`: a job in its draft phase is known to an in-memory channel only,
  and a restart leaves it there; `imagevideo/register.go:260`: a stop between the folder and the root index makes every later registration of the job fail.
* `store/montage.go:415` and `:846`: a queued attempt of a canceled task is sent again at start-up; a task canceled during its
  registration keeps an active attempt until a restart.
* `remixlab/rework.go`: two drives of one experiment execute one queued run; a rework writes back the row it read before an edit.
* `remixproducer/driver.go:327`: a crash between the creation of a project and the save of its number makes a second project;
  `:191`: a launch is ignored while the driver of the same run is still exiting.
* `aishorts/service.go:312`: the index of a shot is checked against a record read before its lock was taken (the model keeps the number of shots).
* `httpapi/imageproject_quick.go:102`: a second resumption writes the phase it read before the first one ran.
* `httpapi/settings.go:65`: a save is laid over the settings the handler read before, and takes back what another request stored in between.
* `httpapi/task_preparation.go:96`: a failed preparation overwrites whatever row has its identity.
* `conversation/service.go:451`: when the read of the owned threads fails every noted thread is archived (instance `unread_conversations`, where `OwnedThreadIsKept` is therefore not asked).
* `mediacatalog/importer.go:314`, `catalogbuilder/merge.go:133`: an import that stopped before its rights, and a merge that stopped
  after its first shot, are never completed.
* `workflow/remix.go:239`: the publication of a task fails after it was prepared, and a new start launches a second one.
* `web/src/App.tsx:293`: the detail is read before a result and the list after it; nothing is live any more and the old detail stays.

## 7. Not modelled, and why

* **Authentication**: who is admitted is left to the tests of the package; the modules speak of the work of the console.
* **JianYing drafts, Grok video**, the registration script, Codex and the model providers: file formats and remote programs. What their
  callers rely on is modelled in `ImageVideo`, `AIShorts`, `MontageRegistration`, `RunnerProcess` and `CodexApp`.
* **Skill registry, BGM library, Obsidian, Baokuan, publishing, process plumbing**: scans of directories, exports, wiring, path
  checks and look-ups; no state over which two steps could disagree.
* **Of the HTTP API and the page**: decoding, rendering and requests that are one statement. Other pages than that of a montage
  project send one request per click.
* **Of the App Server**: its requests to the console (they are refused), frame sizes, diagnostics on stderr, and the window at
  start-up in which the broker has no task handler.
* **Of the agent runtimes**: the recall of media, the prompts and the parsing of free text; `MontagePlan` begins with the pool it is given.
* **Of the runner**: the montage completion gate, redaction and the choice of the command line.
* Failures of the database are modelled where the code handles them one by one (assets, catalog, conversations, montage); elsewhere a
  transaction commits or is refused.

## 8. What is next

1. Proofs about the page and the records: `StartedOnce` of `ProjectPage`, the properties of `ProjectAssets`, `MediaCatalog`,
   `TaskManifest` and `ConversationThreads`.
2. The montage completion gate between `RunnerProcess` and `MontageRegistration`.
3. The recall of media in front of `MontagePlan`.

---------------------------- MODULE ImageProject ----------------------------
(***************************************************************************)
(* One image project: its row, its items and their image files, the job of  *)
(* the process that plans and draws it, and the requests that generate,     *)
(* edit, resume and delete it at the same time.  store/imageprojects.go,    *)
(* httpapi/imageprojects.go, imageproject_quick.go, imageproject_jobs.go,   *)
(* imagevideos.go.                                                          *)
(*                                                                         *)
(* An agent is the job or a request.  A text is a version of an item's      *)
(* prompt, 0 before it has one; an image is the file that shows a text.     *)
(* Every statement of the repository is a step; reading the project takes   *)
(* its items with it.                                                       *)
(***************************************************************************)
EXTENDS Naturals, FiniteSets

CONSTANTS Items,        \* 1..n, the segments of every plan
          Mode,         \* run_mode: "manual", "quick" or "video"
          Callers,
          MaxRequests, MaxFails, MaxCrashes

\* Segments are numbered, and the job is no request.
ItemAssumption == Items \subseteq Nat \ {0} /\ "job" \notin Callers

Agents == Callers \cup {"job"}
Phases == {"planning", "prompting", "imaging", "completed"}

VARIABLES row,          \* the project: is it there, run_phase, run_status, status
          item,         \* its items: the plan they come from, status, text, image
          files,        \* images on disk
          drawn,        \* images made so far
          active,       \* the project is in imageProjectJobs.active
          agent,        \* what each agent has read and does next
          videoJobs,    \* image-video jobs started by the idempotency key
          requests, fails, crashes

vars == <<row, item, files, drawn, active, agent, videoJobs, requests, fails, crashes>>

NoImage == [id |-> 0, text |-> 0]
NoItem == [plan |-> 0, st |-> "none", text |-> 0, image |-> NoImage]
Idle == [pc |-> "idle", kind |-> "none", phase |-> "none", snap |-> [i \in Items |-> NoItem],
         todo |-> {}, left |-> {}, status |-> "none", image |-> NoImage]
Planned == [i \in Items |-> [NoItem EXCEPT !.plan = 1, !.st = "pending", !.text = 1]]

\* A manual project is created with its confirmed items; a quick or video
\* project without any, and its job is started at once.
Init ==
    /\ row = [here |-> TRUE, phase |-> IF Mode = "manual" THEN "idle" ELSE "planning",
              run |-> IF Mode = "manual" THEN "idle" ELSE "running", status |-> "draft"]
    /\ item = IF Mode = "manual" THEN Planned ELSE [i \in Items |-> NoItem]
    /\ files = {} /\ drawn = 0 /\ active = (Mode # "manual")
    /\ agent = [a \in Agents |-> IF a = "job" /\ Mode # "manual" THEN [Idle EXCEPT !.pc = "loop"] ELSE Idle]
    /\ videoJobs = 0 /\ requests = 0 /\ fails = 0 /\ crashes = 0

At(a, pc) == agent[a].pc = pc
Go(a, pc) == agent' = [agent EXCEPT ![a].pc = pc]
Exists == {i \in Items : item[i].plan > 0}
\* The row of an item that was read is there until a new plan replaces it.
SameItem(a, i) == row.here /\ item[i].plan = agent[a].snap[i].plan

\* aggregateProjectStatus
Aggregate ==
    LET with(s) == {i \in Exists : item[i].st = s}
    IN IF with("ready") = Exists THEN "ready" ELSE IF with("ready") # {} THEN "partial"
       ELSE IF with("failed") = Exists THEN "failed" ELSE "draft"

MarkProjectStatus(s) == row' = [row EXCEPT !.status = s]
SetRunState(phase, run) == row' = [row EXCEPT !.phase = phase, !.run = run]

---------------------------------------------------------------------------
(* generate: for one request or for the imaging phase of the job.          *)

\* What follows an error: the job fails its run, a request ends.
After(a, ok) == IF a = "job" THEN (IF ok THEN "settle" ELSE "failing") ELSE "idle"

GenerateBegins(a) ==
    /\ At(a, "generate")
    /\ IF agent[a].todo = {} THEN Go(a, After(a, TRUE)) /\ row' = row
       ELSE IF row.here THEN MarkProjectStatus("generating") /\ agent' = [agent EXCEPT ![a].pc = "mark", ![a].left = agent[a].todo]
       ELSE Go(a, After(a, FALSE)) /\ row' = row
    /\ UNCHANGED <<item, files, drawn, active, videoJobs, requests, fails, crashes>>

First(S) == CHOOSE i \in S : \A j \in S : i <= j

MarkItemGenerating(a) ==
    /\ At(a, "mark")
    /\ LET i == First(agent[a].left)
       IN IF SameItem(a, i)
          THEN /\ item' = [item EXCEPT ![i].st = "generating"]
               /\ agent' = IF agent[a].left = {i} THEN [agent EXCEPT ![a].pc = "draw", ![a].left = agent[a].todo]
                           ELSE [agent EXCEPT ![a].left = @ \ {i}]
          ELSE item' = item /\ Go(a, After(a, FALSE))
    /\ UNCHANGED <<row, files, drawn, active, videoJobs, requests, fails, crashes>>

\* The next item that is left, or the status of the project.
NextResult(a) == LET i == First(agent[a].left)
                 IN [agent EXCEPT ![a].left = @ \ {i}, ![a].pc = IF agent[a].left = {i} THEN "sum" ELSE "draw"]

\* MarkItemRegenerationFailed keeps the image of an item that had one when it
\* was read; MarkItemFailed clears the image of the others.
FailItem(a, i) ==
    item' = [item EXCEPT ![i] = IF agent[a].snap[i].image # NoImage
                                THEN [@ EXCEPT !.st = IF agent[a].snap[i].st = "ready" THEN "ready" ELSE "pending"]
                                ELSE [@ EXCEPT !.st = "failed", !.image = NoImage]]

\* The finalisation of the first item that is left, which had no prompt or
\* whose generation or file failed.
DrawFails(a) ==
    LET i == First(agent[a].left)
    IN /\ At(a, "draw")
       /\ IF agent[a].snap[i].text = 0 THEN fails' = fails ELSE fails < MaxFails /\ fails' = fails + 1
       /\ IF SameItem(a, i) /\ (agent[a].snap[i].image # NoImage => item[i].image # NoImage)
          THEN FailItem(a, i) /\ agent' = NextResult(a)
          ELSE item' = item /\ Go(a, After(a, FALSE))
       /\ UNCHANGED <<row, files, drawn, active, videoJobs, requests, crashes>>

RemoveOldFirst(a) ==
    LET i == First(agent[a].left)
        image == [id |-> drawn + 1, text |-> agent[a].snap[i].text]
    IN /\ At(a, "draw") /\ image.text > 0 /\ drawn' = drawn + 1
       /\ files' = (files \ {agent[a].snap[i].image.id}) \cup {image.id}
       /\ agent' = [agent EXCEPT ![a].pc = "save", ![a].image = image]
       /\ UNCHANGED <<row, item, active, videoJobs, requests, fails, crashes>>

\* The new image has a file of its own before its item is marked.
DrawSucceeds(a) ==
    LET i == First(agent[a].left)
        image == [id |-> drawn + 1, text |-> agent[a].snap[i].text]
    IN /\ At(a, "draw") /\ image.text > 0 /\ drawn' = drawn + 1
       /\ files' = files \cup {image.id}
       /\ agent' = [agent EXCEPT ![a].pc = "save", ![a].image = image]
       /\ UNCHANGED <<row, item, active, videoJobs, requests, fails, crashes>>

\* MarkItemReady, or the removal of the new file when the item is gone.
MarkItemReady(a) ==
    LET i == First(agent[a].left)
    IN /\ At(a, "save")
       /\ IF SameItem(a, i)
          THEN /\ item' = [item EXCEPT ![i].st = "ready", ![i].image = agent[a].image]
               /\ agent' = IF agent[a].snap[i].image \in {NoImage, agent[a].image} THEN NextResult(a) ELSE [agent EXCEPT ![a].pc = "replace"]
               /\ files' = files
          ELSE item' = item /\ files' = files \ {agent[a].image.id} /\ Go(a, After(a, FALSE))
       /\ UNCHANGED <<row, drawn, active, videoJobs, requests, fails, crashes>>

\* The image that the item had when it was read.
RemoveReplaced(a) ==
    LET i == First(agent[a].left)
    IN /\ At(a, "replace") /\ files' = files \ {agent[a].snap[i].image.id}
       /\ agent' = NextResult(a)
       /\ UNCHANGED <<row, item, drawn, active, videoJobs, requests, fails, crashes>>

\* The status is computed in one transaction and written in the next.
Summarise(a) ==
    /\ At(a, "sum")
    /\ IF row.here THEN agent' = [agent EXCEPT ![a].pc = "put", ![a].status = Aggregate] ELSE Go(a, After(a, FALSE))
    /\ UNCHANGED <<row, item, files, drawn, active, videoJobs, requests, fails, crashes>>

PutStatus(a) ==
    /\ At(a, "put")
    /\ IF row.here THEN MarkProjectStatus(agent[a].status) /\ Go(a, After(a, TRUE)) ELSE row' = row /\ Go(a, After(a, FALSE))
    /\ UNCHANGED <<item, files, drawn, active, videoJobs, requests, fails, crashes>>

Generate(a) == \/ GenerateBegins(a) \/ MarkItemGenerating(a) \/ DrawFails(a) \/ DrawSucceeds(a)
               \/ MarkItemReady(a) \/ RemoveReplaced(a) \/ Summarise(a) \/ PutStatus(a)

---------------------------------------------------------------------------
(* The job: runQuickProject and runVideoProject.                           *)

JobReads ==
    /\ At("job", "loop")
    /\ IF ~row.here \/ row.phase = "completed" THEN Go("job", "leave")
       ELSE agent' = [agent EXCEPT !["job"].phase = row.phase, !["job"].snap = item,
                          !["job"].pc = IF row.phase = "imaging" THEN "generate" ELSE row.phase,
                          !["job"].todo = {i \in Exists : item[i].st # "ready"}]
    /\ UNCHANGED <<row, item, files, drawn, active, videoJobs, requests, fails, crashes>>

NewPlan(text) == [i \in Items |-> [NoItem EXCEPT !.plan = 1 + item[i].plan, !.st = "pending", !.text = text]]

SavePlanUnchecked ==
    /\ At("job", "planning") /\ Mode = "quick"
    /\ item' = NewPlan(0) /\ row' = [row EXCEPT !.phase = "prompting"] /\ Go("job", "loop")
    /\ UNCHANGED <<files, drawn, active, videoJobs, requests, fails, crashes>>

\* SaveQuickPlan: new items and the next phase, or nothing.
SaveQuickPlan ==
    /\ At("job", "planning") /\ Mode = "quick"
    /\ IF row.here THEN item' = NewPlan(0) /\ row' = [row EXCEPT !.phase = "prompting"] /\ Go("job", "loop")
       ELSE UNCHANGED <<item, row>> /\ Go("job", "failing")
    /\ UNCHANGED <<files, drawn, active, videoJobs, requests, fails, crashes>>

\* SaveVideoPlan: the scenes of the narration, with their prompts.
SaveVideoPlan ==
    /\ At("job", "planning") /\ Mode = "video"
    /\ IF row.here THEN item' = NewPlan(1) /\ row' = [row EXCEPT !.phase = "imaging"] /\ Go("job", "loop")
       ELSE UNCHANGED <<item, row>> /\ Go("job", "failing")
    /\ UNCHANGED <<files, drawn, active, videoJobs, requests, fails, crashes>>

\* A prompt for every item, also over a text that was edited in the meantime.
SavePrompts ==
    /\ At("job", "prompting")
    /\ IF row.here
       THEN /\ item' = [i \in Items |-> [item[i] EXCEPT !.text = @ + 1]]
            /\ row' = [row EXCEPT !.phase = "imaging"] /\ Go("job", "loop")
       ELSE UNCHANGED <<item, row>> /\ Go("job", "failing")
    /\ UNCHANGED <<files, drawn, active, videoJobs, requests, fails, crashes>>

\* The narration, the text model or the service of the images failed.
PhaseFails ==
    /\ agent["job"].pc \in {"planning", "prompting", "generate"} /\ fails < MaxFails /\ fails' = fails + 1
    /\ Go("job", "failing")
    /\ UNCHANGED <<row, item, files, drawn, active, videoJobs, requests, crashes>>

FailRun ==
    /\ At("job", "failing")
    /\ (IF row.here THEN SetRunState(agent["job"].phase, "failed") ELSE row' = row) /\ Go("job", "leave")
    /\ UNCHANGED <<item, files, drawn, active, videoJobs, requests, fails, crashes>>

SettleWhenReady ==
    /\ At("job", "settle") /\ \A i \in Exists : item[i].st = "ready"
    /\ agent' = [agent EXCEPT !["job"].pc = "finish"]
    /\ videoJobs' = IF Mode = "video" /\ row.here /\ Exists # {} THEN 1 ELSE videoJobs
    /\ UNCHANGED <<row, item, files, drawn, active, requests, fails, crashes>>

\* The counts of the images, and the job of a video whose images are ready:
\* Service.Start answers a key it knows with the job it has.
Settle ==
    /\ At("job", "settle")
    /\ agent' = [agent EXCEPT !["job"].pc = "finish"]
    /\ videoJobs' = IF Mode = "video" /\ row.here /\ Exists # {} /\ \A i \in Exists : item[i].st = "ready" THEN 1 ELSE videoJobs
    /\ UNCHANGED <<row, item, files, drawn, active, requests, fails, crashes>>

\* A start that failed leaves the phase for a resumption.
StartFails ==
    /\ At("job", "settle") /\ Mode = "video" /\ videoJobs = 0 /\ fails < MaxFails /\ fails' = fails + 1
    /\ row.here /\ \A i \in Exists : item[i].st = "ready"
    /\ SetRunState("imaging", "completed") /\ Go("job", "failing")
    /\ UNCHANGED <<item, files, drawn, active, videoJobs, requests, crashes>>

FinishRun ==
    /\ At("job", "finish")
    /\ IF row.here THEN SetRunState("completed", "completed") /\ Go("job", "loop") ELSE row' = row /\ Go("job", "failing")
    /\ UNCHANGED <<item, files, drawn, active, videoJobs, requests, fails, crashes>>

Leave ==
    /\ At("job", "leave") /\ active' = FALSE /\ agent' = [agent EXCEPT !["job"] = Idle]
    /\ UNCHANGED <<row, item, files, drawn, videoJobs, requests, fails, crashes>>

Job == \/ JobReads \/ SaveQuickPlan \/ SaveVideoPlan \/ SavePrompts \/ PhaseFails \/ FailRun
       \/ Settle \/ StartFails \/ FinishRun \/ Leave \/ Generate("job")

---------------------------------------------------------------------------
(* The requests.                                                           *)

\* Every request reads the project and its items.
Request(c) ==
    /\ At(c, "idle") /\ row.here /\ requests < MaxRequests /\ requests' = requests + 1
    /\ \/ /\ \E todo \in {{i} : i \in Exists} \cup {{i \in Exists : item[i].st # "ready"}} :
                /\ todo # {}
                /\ agent' = [agent EXCEPT ![c] = [Idle EXCEPT !.pc = "generate", !.snap = item, !.todo = todo]]
       \/ Exists # {} /\ agent' = [agent EXCEPT ![c] = [Idle EXCEPT !.pc = "edit"]]
       \/ agent' = [agent EXCEPT ![c] = [Idle EXCEPT !.pc = "delete", !.snap = item]]
       \/ /\ Mode # "manual" /\ row.run = "failed"
          /\ agent' = [agent EXCEPT ![c] = [Idle EXCEPT !.pc = "resume", !.phase = row.phase]]
    /\ UNCHANGED <<row, item, files, drawn, active, videoJobs, fails, crashes>>

\* UpdateItemText
Edit(c) ==
    /\ At(c, "edit")
    /\ IF row.here /\ Exists # {}
       THEN \E i \in Exists : item' = [item EXCEPT ![i].text = @ + 1, ![i].st = "pending"] /\ Go(c, "sum")
       ELSE item' = item /\ Go(c, "idle")
    /\ UNCHANGED <<row, files, drawn, active, videoJobs, requests, fails, crashes>>

\* The items go with the project; the files of those that were read after it.
Delete(c) ==
    \/ /\ At(c, "delete")
       /\ row' = [row EXCEPT !.here = FALSE] /\ item' = [i \in Items |-> NoItem]
       /\ Go(c, IF row.here THEN "sweep" ELSE "idle")
       /\ UNCHANGED <<files, drawn, active, videoJobs, requests, fails, crashes>>
    \/ /\ At(c, "sweep")
       /\ files' = files \ {agent[c].snap[i].image.id : i \in Items} /\ Go(c, "idle")
       /\ UNCHANGED <<row, item, drawn, active, videoJobs, requests, fails, crashes>>

\* The run is marked as running before the job is started.
Resume(c) ==
    \/ /\ At(c, "resume")
       /\ IF row.here THEN SetRunState(agent[c].phase, "running") /\ Go(c, "start") ELSE row' = row /\ Go(c, "idle")
       /\ UNCHANGED <<item, files, drawn, active, videoJobs, requests, fails, crashes>>
    \/ /\ At(c, "start")
       /\ active' = TRUE
       /\ agent' = IF active THEN [agent EXCEPT ![c] = Idle]
                   ELSE [agent EXCEPT ![c] = Idle, !["job"] = [Idle EXCEPT !.pc = "loop"]]
       /\ UNCHANGED <<row, item, files, drawn, videoJobs, requests, fails, crashes>>

\* MarkRunningQuickProjectsInterrupted: an interrupted run is resumed like a
\* failed one.
Restart ==
    /\ crashes < MaxCrashes /\ crashes' = crashes + 1
    /\ row' = [row EXCEPT !.run = IF @ = "running" THEN "failed" ELSE @]
    /\ active' = FALSE /\ agent' = [a \in Agents |-> Idle]
    /\ UNCHANGED <<item, files, drawn, videoJobs, requests, fails>>

Next == \/ Job \/ Restart
        \/ \E c \in Callers : Request(c) \/ Generate(c) \/ Edit(c) \/ Delete(c) \/ Resume(c)

Spec == Init /\ [][Next]_vars
FairSpec == Spec /\ WF_vars(Job)

---------------------------------------------------------------------------
TypeOK ==
    /\ row.phase \in Phases \cup {"idle"} /\ row.run \in {"idle", "running", "failed", "completed"}
    /\ row.status \in {"draft", "generating", "partial", "ready", "failed"}
    /\ \A i \in Items : item[i].st \in {"none", "pending", "generating", "ready", "failed"}
    /\ files \subseteq 1..drawn /\ active = (agent["job"].pc # "idle")

\* The image of an item is on disk, whichever requests replace it at the same
\* time and whatever of them fails.
ImageIsThere == \A i \in Items : item[i].image # NoImage => item[i].image.id \in files

\* A deleted project leaves no items, although its job goes on.
NothingAfterDeletion == ~row.here => Exists = {}

\* The job that runs ends its run.
Working == active
JobEnds == Working ~> ~Working

\* A ready item shows the prompt that it has.
ReadyShowsItsPrompt == \A i \in Items : item[i].st = "ready" => item[i].image.text = item[i].text

\* A project that runs has a job, or is being started or resumed.
RunningHasJob == row.run = "running" /\ row.here => active \/ \E c \in Callers : At(c, "start")

\* An image that was drawn is not lost to a request that fails.
FailureKeepsImage == [][\A i \in Items : item[i].image # NoImage /\ item'[i].plan = item[i].plan => item'[i].image # NoImage]_vars
=============================================================================

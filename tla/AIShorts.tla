-------------------------------- MODULE AIShorts --------------------------------
(***************************************************************************)
(* One AI short: its storyboard, the images and videos of its shots, the   *)
(* draft made of them, and the two kinds of lock that keep the requests    *)
(* and their goroutines apart (internal/aishorts/service.go, store.go,     *)
(* opening.go, visual.go, types.go). Every write of the record is          *)
(* read-modify-write under the store's mutex (Store.Update) and so one     *)
(* step here. The image and video services are external; an image is its   *)
(* version, a video and its request the version of the image they are of.  *)
(***************************************************************************)
EXTENDS Naturals, FiniteSets

CONSTANTS Shots, VideoShots,    \* the shots a plan or a timeline may want a video of
          Callers, MaxRequests, MaxCrashes   \* handlers, and bounds of the instance

ShotAssumption == VideoShots \subseteq Shots

VARIABLES status,
          story,     \* whether the storyboard is stale, and the shots NeedsVideo holds of
          shot,      \* the shots of the record
          draft,     \* the assembled draft: made, stale, and what it shows of each shot
          busy, shotBusy,           \* Service.busy and shotBusy
          call,      \* a request at its lock
          job,       \* the goroutine that holds the short
          work,      \* generateOneShot, one for each shot: where it is, whether it is the one of
                     \* RegenerateShot, and its copies of the request and of NeedsVideo
          open,      \* a video of the shot is, or may be, under way at the provider
          submits, requests, crashes

vars == <<status, story, shot, draft, busy, shotBusy, call, job, work, open, submits, requests, crashes>>
record == <<status, story, shot, draft>>
locks == <<busy, shotBusy, call, job>>
bounds == <<requests, crashes>>

NoShot == [img |-> "pending", iv |-> 0, stale |-> FALSE, vid |-> "pending", vv |-> 0, rid |-> 0, unc |-> FALSE]
NoDraft == [made |-> FALSE, stale |-> FALSE, of |-> [i \in Shots |-> <<0, 0, FALSE>>]]
NoCall == [op |-> "none", i |-> 0, at |-> "idle"]
NoWork == [at |-> "off", own |-> FALSE, rid |-> 0, unc |-> FALSE, video |-> FALSE]
Short == {"update", "storyboard", "generate", "assemble", "character", "get"}   \* need the whole short
Regen == {"image", "video"}                                                     \* need one shot

TypeOK ==
    /\ status \in {"draft", "storyboard", "generating", "ready", "assembling", "assembled", "failed"}
    /\ story.stale \in BOOLEAN /\ story.needs \subseteq VideoShots /\ busy \in BOOLEAN /\ shotBusy \subseteq Shots
    /\ \A i \in Shots : /\ {shot[i].img, shot[i].vid} \subseteq {"pending", "running", "done", "failed"}
                        /\ shot[i].vv <= shot[i].iv /\ work[i].at \in {"off", "image", "drawing", "mark", "gate",
                              "submit", "send", "save", "wait", "mark2", "end", "finish", "unlock"}
    /\ \A c \in Callers : call[c].at \in {"idle", "checked", "stored", "held"}
    /\ job \in {"off", "start", "shots", "assembling", "character"}

Init ==
    /\ status = "draft" /\ story = [stale |-> FALSE, needs |-> {}] /\ shot = [i \in Shots |-> NoShot] /\ draft = NoDraft
    /\ busy = FALSE /\ shotBusy = {} /\ call = [c \in Callers |-> NoCall]
    /\ job = "off" /\ work = [i \in Shots |-> NoWork]
    /\ open = [i \in Shots |-> FALSE] /\ submits = [i \in Shots |-> 0] /\ requests = 0 /\ crashes = 0

Versions == [i \in Shots |-> <<shot[i].iv, shot[i].vv, i \in story.needs>>]
ShotReady(i) ==
    /\ ~shot[i].stale
    /\ IF i \in story.needs THEN shot[i].vid = "done" /\ shot[i].vv # 0 ELSE shot[i].img = "done" /\ shot[i].iv # 0
markDraftStale == draft' = [draft EXCEPT !.stale = draft.made]
\* prepareOpeningTimeline and whatever else moves the shots in time: other shots may be in reach of the plan.
Retimed == \E V \in SUBSET VideoShots : story' = [story EXCEPT !.needs = V]

----------------------------------------------------------------------------
(* tryLock and tryLockShot: look at the other lock, take one's own, look again *)

Ask(c, op, i) ==
    /\ call[c].at = "idle" /\ requests < MaxRequests /\ requests' = requests + 1
    /\ op = "get" => status \in {"generating", "assembling"}
    /\ op \in Short \ {"storyboard"} => status # "draft"
    /\ op = "video" => i \in story.needs
    /\ IF op \in Short THEN shotBusy = {} ELSE ~busy /\ status # "draft"
    /\ call' = [call EXCEPT ![c] = [op |-> op, i |-> i, at |-> "checked"]]
    /\ UNCHANGED <<record, busy, shotBusy, job, work, open, submits, crashes>>

Leave(c) == call' = [call EXCEPT ![c] = NoCall]
Move(c, at) == call' = [call EXCEPT ![c].at = at]

StoreLock(c) ==
    /\ call[c].at = "checked"
    /\ IF call[c].op \in Short
       THEN busy' = TRUE /\ UNCHANGED shotBusy /\ (IF busy THEN Leave(c) ELSE Move(c, "stored"))
       ELSE shotBusy' = shotBusy \cup {call[c].i} /\ UNCHANGED busy
            /\ (IF call[c].i \in shotBusy THEN Leave(c) ELSE Move(c, "stored"))
    /\ UNCHANGED <<record, job, work, open, submits, bounds>>

\* Mutant: tryLock does not look at the shots again.
RecheckShotOnly(c) ==
    /\ call[c].at = "stored"
    /\ IF call[c].op \in Short
       THEN Move(c, "held") /\ UNCHANGED <<busy, shotBusy>>
       ELSE IF busy THEN shotBusy' = shotBusy \ {call[c].i} /\ Leave(c) /\ UNCHANGED busy
            ELSE Move(c, "held") /\ UNCHANGED <<busy, shotBusy>>
    /\ UNCHANGED <<record, job, work, open, submits, bounds>>
Recheck(c) ==
    /\ call[c].at = "stored"
    /\ IF call[c].op \in Short
       THEN IF shotBusy # {} THEN busy' = FALSE /\ Leave(c) /\ UNCHANGED shotBusy
            ELSE Move(c, "held") /\ UNCHANGED <<busy, shotBusy>>
       ELSE IF busy THEN shotBusy' = shotBusy \ {call[c].i} /\ Leave(c) /\ UNCHANGED busy
            ELSE Move(c, "held") /\ UNCHANGED <<busy, shotBusy>>
    /\ UNCHANGED <<record, job, work, open, submits, bounds>>

----------------------------------------------------------------------------
(* Requests that hold the short *)

Holds(c, op) == call[c].at = "held" /\ call[c].op = op /\ Leave(c)
Release == busy' = FALSE /\ UNCHANGED <<shotBusy, job>>

\* Get: a short that is said to be worked on and is not locked was interrupted.
Recover(c) ==
    /\ Holds(c, "get") /\ Release
    /\ LET lost(x) == IF x = "running" THEN "failed" ELSE x
       IN  IF status \in {"generating", "assembling"}
           THEN /\ status' = "failed"
                /\ shot' = [i \in Shots |-> [shot[i] EXCEPT !.img = lost(@), !.vid = lost(@)]]
           ELSE UNCHANGED <<status, shot>>
    /\ UNCHANGED <<story, draft, work, open, submits, bounds>>

\* UpdateShot and UpdateText: an edit that changes the picture of some shots makes their images
\* stale, one of the text the storyboard, and new settings may want videos of other shots.
Edited == \E text \in BOOLEAN, V \in SUBSET VideoShots : story' = [stale |-> story.stale \/ text, needs |-> V]
UpdateShot(c) ==
    /\ Holds(c, "update") /\ Release /\ Edited
    /\ \E S \in SUBSET Shots :
          shot' = [i \in Shots |-> IF i \in S /\ shot[i].iv # 0 THEN [shot[i] EXCEPT !.stale = TRUE] ELSE shot[i]]
    /\ UNCHANGED status \/ (status' = "storyboard" /\ \E i \in Shots : ~ShotReady(i)')
    /\ markDraftStale
    /\ UNCHANGED <<work, open, submits, bounds>>
\* The shots in S get another style and their videos are given up; after that every image is held
\* against the prompt of now (those in T do not show it), and one marked stale may be good again.
reapplyShotStyles(c) ==
    /\ Holds(c, "update") /\ Release /\ Edited
    /\ \E S \in SUBSET Shots \ {{}}, T \in SUBSET Shots :
          /\ shot' = [i \in Shots |-> IF i \in S THEN [shot[i] EXCEPT !.stale = shot[i].iv # 0 /\ i \in T,
                                                                     !.vid = "pending", !.vv = 0, !.rid = 0]
                                      ELSE [shot[i] EXCEPT !.stale = shot[i].iv # 0 /\ i \in T]]
          /\ open' = [i \in Shots |-> open[i] /\ i \notin S]
    /\ markDraftStale /\ status' \in {status, "storyboard"}
    /\ UNCHANGED <<work, submits, bounds>>

\* The new shots have no images, and the videos of the old ones are given up.
Storyboard(c) ==
    /\ Holds(c, "storyboard") /\ Release
    /\ \/ UNCHANGED <<record, open>>
       \/ /\ shot' = [i \in Shots |-> NoShot] /\ open' = [i \in Shots |-> FALSE]
          /\ \E V \in SUBSET VideoShots : story' = [stale |-> FALSE, needs |-> V]
          /\ status' = "storyboard" /\ markDraftStale
    /\ UNCHANGED <<work, submits, bounds>>

GenerateAll(c) ==
    /\ Holds(c, "generate")
    /\ IF story.stale THEN Release /\ UNCHANGED status
       ELSE job' = "start" /\ status' = "generating" /\ UNCHANGED <<busy, shotBusy>>
    /\ UNCHANGED <<story, shot, draft, work, open, submits, bounds>>

\* Mutant: the shots are not asked whether they are ready.
AssembleAnyway(c) ==
    /\ Holds(c, "assemble")
    /\ IF story.stale THEN Release /\ UNCHANGED status
       ELSE job' = "assembling" /\ status' = "assembling" /\ UNCHANGED <<busy, shotBusy>>
    /\ UNCHANGED <<story, shot, draft, work, open, submits, bounds>>
AssembleAsync(c) ==
    /\ Holds(c, "assemble")
    /\ IF story.stale \/ \E i \in Shots : ~ShotReady(i) THEN Release /\ UNCHANGED status
       ELSE job' = "assembling" /\ status' = "assembling" /\ UNCHANGED <<busy, shotBusy>>
    /\ UNCHANGED <<story, shot, draft, work, open, submits, bounds>>

RegenerateCharacter(c) ==
    /\ Holds(c, "character") /\ job' = "character"
    /\ UNCHANGED <<record, busy, shotBusy, work, open, submits, bounds>>

\* The shot is marked at once; a retry of a failed video goes on asking for the one submitted,
\* unless the endpoint has changed. Its goroutine begins with the timeline, and does nothing for
\* a video that is not wanted any more.
RegenerateShot(c) ==
    LET i == call[c].i
        s == shot[i]
    IN  /\ call[c].at = "held" /\ call[c].op \in Regen /\ Leave(c)
        /\ status' = "generating"
        /\ IF call[c].op = "image"
           THEN /\ shot' = [shot EXCEPT ![i] = [s EXCEPT !.img = "running", !.vid = "pending", !.vv = 0,
                                                        !.rid = 0, !.unc = FALSE]]
                /\ markDraftStale
           ELSE /\ \E moved \in BOOLEAN :
                      shot' = [shot EXCEPT ![i] = [s EXCEPT !.vid = "running", !.unc = FALSE,
                                                           !.rid = IF s.vid = "failed" /\ ~moved THEN @ ELSE 0]]
                /\ UNCHANGED draft
        /\ open' = [open EXCEPT ![i] = @ /\ shot'[i].rid # 0]
        /\ Retimed
        /\ work' = [work EXCEPT ![i] = [own |-> TRUE, at |-> IF shot'[i].img # "done" \/ s.iv = 0 \/ s.stale THEN "image"
                                                             ELSE IF i \in story'.needs THEN "gate" ELSE "finish",
                                        rid |-> shot'[i].rid, unc |-> FALSE, video |-> i \in story'.needs]]
        /\ UNCHANGED <<busy, shotBusy, job, submits, bounds>>

----------------------------------------------------------------------------
(* The goroutine of the short *)

Off == job' = "off" /\ busy' = FALSE /\ UNCHANGED <<shotBusy, call>>
finishGeneration ==
    status' = IF \E i \in Shots : "running" \in {shot[i].img, shot[i].vid} THEN "generating"
              ELSE IF \A i \in Shots : ShotReady(i) THEN "ready" ELSE "storyboard"

\* Settings, the timeline of the opening and the characters come first and may fail.
StartShots ==
    /\ job = "start" /\ Retimed
    /\ UNCHANGED <<shot, draft, open, submits, bounds>>
    /\ \/ status' = "failed" /\ Off /\ UNCHANGED work
       \/ /\ job' = "shots" /\ UNCHANGED <<status, busy, shotBusy, call>>
          /\ work' = [i \in Shots |->
                IF ShotReady(i)' THEN NoWork
                ELSE [own |-> FALSE, at |-> IF shot[i].img # "done" \/ shot[i].iv = 0 \/ shot[i].stale THEN "image"
                             ELSE IF i \in story'.needs THEN "gate" ELSE "end",
                      rid |-> shot[i].rid, unc |-> shot[i].unc, video |-> i \in story'.needs]]

FinishShots ==
    /\ job = "shots" /\ \A i \in Shots : work[i].at = "end" \/ work[i].at = "off"
    /\ finishGeneration /\ Off /\ work' = [i \in Shots |-> NoWork]
    /\ UNCHANGED <<story, shot, draft, open, submits, bounds>>

\* A draft brings the times of its narration.
Assemble ==
    /\ job = "assembling" /\ Off
    /\ \/ status' = "failed" /\ UNCHANGED <<draft, story>>
       \/ status' = "assembled" /\ draft' = [made |-> TRUE, stale |-> FALSE, of |-> Versions] /\ Retimed
    /\ UNCHANGED <<shot, work, open, submits, bounds>>

generateCharacters ==
    /\ job = "character" /\ Off /\ status' \in {status, "failed"}
    /\ UNCHANGED <<story, shot, draft, work, open, submits, bounds>>

----------------------------------------------------------------------------
(* generateOneShot *)

To(i, at) == work' = [work EXCEPT ![i].at = at]
\* The end of the work on a shot: of one that was asked for by itself, the state of the short follows.
Done(i) == To(i, IF work[i].own THEN "finish" ELSE "end")
Set(i, s) == shot' = [shot EXCEPT ![i] = s]
Rest == UNCHANGED <<status, story, locks, bounds>>

\* The goroutine of RegenerateShot may fail before its image: it fails what it was asked for.
StartImage(i) ==
    /\ work[i].at = "image"
    /\ \/ Set(i, [shot[i] EXCEPT !.img = "running"]) /\ To(i, "drawing")
       \/ /\ work[i].own /\ Done(i)
          /\ IF shot[i].vid = "running" THEN Set(i, [shot[i] EXCEPT !.vid = "failed"])
             ELSE Set(i, [shot[i] EXCEPT !.img = "failed"])
    /\ UNCHANGED <<draft, open, submits>> /\ Rest

\* A new image: nothing that was submitted for the old one counts.
generateShotImage(i) ==
    /\ work[i].at = "drawing"
    /\ \/ Set(i, [shot[i] EXCEPT !.img = "failed"]) /\ Done(i) /\ UNCHANGED open
       \/ /\ Set(i, [shot[i] EXCEPT !.img = "done", !.iv = @ + 1, !.stale = FALSE])
          /\ work' = [work EXCEPT ![i] = [@ EXCEPT !.at = "mark", !.rid = 0, !.unc = FALSE]]
          /\ open' = [open EXCEPT ![i] = FALSE]
    /\ UNCHANGED <<draft, submits>> /\ Rest

MarkImage(i) ==
    /\ work[i].at = "mark" /\ markDraftStale
    /\ IF work[i].video THEN To(i, "gate") ELSE Done(i)
    /\ UNCHANGED <<shot, open, submits>> /\ Rest

FailVideo(i, s) == Set(i, [s EXCEPT !.vid = "failed"]) /\ Done(i)

StartVideo(i) ==
    /\ work[i].at = "gate"
    /\ \/ FailVideo(i, shot[i])
       \/ Set(i, [shot[i] EXCEPT !.vid = "running"]) /\ To(i, "submit")
    /\ UNCHANGED <<draft, open, submits>> /\ Rest

\* Mutant: that a submission is about to be made is not recorded.
SubmitUnrecorded(i) ==
    /\ work[i].at = "submit"
    /\ IF work[i].rid # 0 THEN To(i, "save") /\ UNCHANGED shot
       ELSE IF work[i].unc THEN FailVideo(i, shot[i])
       ELSE Set(i, [shot[i] EXCEPT !.rid = 0]) /\ To(i, "send")
    /\ UNCHANGED <<draft, open, submits>> /\ Rest
\* A saved request is resumed; after a submission of unknown outcome nothing is submitted; else
\* the intent is recorded before the submission.
PrepareSubmit(i) ==
    /\ work[i].at = "submit"
    /\ IF work[i].rid # 0 THEN To(i, "save") /\ UNCHANGED shot
       ELSE IF work[i].unc THEN FailVideo(i, shot[i])
       ELSE Set(i, [shot[i] EXCEPT !.unc = TRUE, !.rid = 0]) /\ To(i, "send")
    /\ UNCHANGED <<draft, open, submits>> /\ Rest

SendVideo(i) ==
    /\ work[i].at = "send"
    /\ \/ /\ work' = [work EXCEPT ![i].at = "save", ![i].rid = shot[i].iv]   \* accepted
          /\ open' = [open EXCEPT ![i] = TRUE] /\ submits' = [submits EXCEPT ![i] = @ + 1] /\ UNCHANGED shot
       \/ FailVideo(i, [shot[i] EXCEPT !.unc = FALSE]) /\ UNCHANGED <<open, submits>>   \* refused
       \/ /\ FailVideo(i, [shot[i] EXCEPT !.unc = TRUE])               \* no answer: it may have been accepted
          /\ open' = [open EXCEPT ![i] = TRUE] /\ submits' = [submits EXCEPT ![i] = @ + 1]
    /\ UNCHANGED draft /\ Rest

SaveRequest(i) ==
    /\ work[i].at = "save" /\ Set(i, [shot[i] EXCEPT !.rid = work[i].rid, !.unc = FALSE]) /\ To(i, "wait")
    /\ UNCHANGED <<draft, open, submits>> /\ Rest

WaitVideo(i) ==
    /\ work[i].at = "wait"
    /\ \/ Set(i, [shot[i] EXCEPT !.vid = "done", !.vv = work[i].rid]) /\ To(i, "mark2") /\ open' = [open EXCEPT ![i] = FALSE]
       \/ FailVideo(i, shot[i]) /\ UNCHANGED open
       \/ FailVideo(i, [shot[i] EXCEPT !.rid = 0]) /\ open' = [open EXCEPT ![i] = FALSE]
    /\ UNCHANGED <<draft, submits>> /\ Rest

MarkVideo(i) ==
    /\ work[i].at = "mark2" /\ markDraftStale /\ Done(i)
    /\ UNCHANGED <<shot, open, submits>> /\ Rest

FinishShot(i) ==
    /\ work[i].at = "finish" /\ (finishGeneration \/ status' = "failed") /\ To(i, "unlock")
    /\ UNCHANGED <<story, shot, draft, locks, open, submits, bounds>>

unlockShot(i) ==
    /\ work[i].at = "unlock" /\ shotBusy' = shotBusy \ {i} /\ work' = [work EXCEPT ![i] = NoWork]
    /\ UNCHANGED <<record, busy, call, job, open, submits, bounds>>

Crash ==
    /\ crashes < MaxCrashes /\ crashes' = crashes + 1
    /\ busy' = FALSE /\ shotBusy' = {} /\ call' = [c \in Callers |-> NoCall]
    /\ job' = "off" /\ work' = [i \in Shots |-> NoWork]
    /\ UNCHANGED <<record, open, submits, requests>>

----------------------------------------------------------------------------

Locking(c) == StoreLock(c) \/ Recheck(c)
Handling(c) ==
    \/ Recover(c) \/ UpdateShot(c) \/ reapplyShotStyles(c) \/ Storyboard(c) \/ GenerateAll(c)
    \/ AssembleAsync(c) \/ RegenerateCharacter(c) \/ RegenerateShot(c)
Jobs == StartShots \/ FinishShots \/ Assemble \/ generateCharacters
OneShot(i) ==
    \/ StartImage(i) \/ generateShotImage(i) \/ MarkImage(i) \/ StartVideo(i) \/ PrepareSubmit(i) \/ SendVideo(i)
    \/ SaveRequest(i) \/ WaitVideo(i) \/ MarkVideo(i) \/ FinishShot(i) \/ unlockShot(i)

Next ==
    \/ \E c \in Callers : Locking(c) \/ Handling(c) \/ \E op \in Short : Ask(c, op, 0)
    \/ \E c \in Callers, op \in Regen, i \in Shots : Ask(c, op, i)
    \/ Jobs \/ \E i \in Shots : OneShot(i)
    \/ Crash

Spec == Init /\ [][Next]_vars

\* Handlers and goroutines run on; every wait of theirs has a time limit.
Fairness == \A c \in Callers : WF_vars(Locking(c) \/ Handling(c)) /\ WF_vars(Jobs) /\ \A i \in Shots : WF_vars(OneShot(i))
FairSpec == Spec /\ Fairness

----------------------------------------------------------------------------
(* Properties *)

\* Nobody works on the whole short while somebody works on one of its shots: the two looks of
\* each lock at the other leave no order in which both get through.
LocksExclude ==
    LET whole == job # "off" \/ \E c \in Callers : call[c].at = "held" /\ call[c].op \in Short
        one == {i \in Shots : work[i].own}
               \cup {call[c].i : c \in {d \in Callers : call[d].at = "held" /\ call[d].op \in Regen}}
    IN  ~(whole /\ one # {})

\* A paid video is not submitted a second time while the first may still be under way for the
\* same image, through failures, stops and continuations; only the operator's own request to
\* make the shot again, or a change of its style, gives the first one up.
SubmitsClosedOnly == \A i \in Shots : submits'[i] > submits[i] => ~open[i]
NoDoubleSubmission == [][SubmitsClosedOnly]_vars

\* A draft not marked stale shows the images and videos the shots have now, and was made of
\* shots that all had what they needed then (as long as the console was not stopped between two
\* writes).
ShowsShot(i) ==
    /\ draft.of[i][1] = shot[i].iv /\ draft.of[i][2] = shot[i].vv
    /\ shot[i].iv # 0 /\ (draft.of[i][3] => shot[i].vv # 0)
DraftIsCurrent ==
    draft.made /\ ~draft.stale /\ crashes = 0 => \A i \in Shots : ShowsShot(i) \/ work[i].at \in {"mark", "mark2"}

\* What types.go says of ShotReady: the material of the shot is complete. Its video is one of
\* its image.
ReadyVideoShowsImage == \A i \in story.needs : ShotReady(i) /\ work[i].at = "off" => shot[i].vv = shot[i].iv

\* Every lock is given back.
Locked == busy \/ shotBusy # {}
LocksAreReleased == Locked ~> ~Locked
==============================================================================

------------------------------ MODULE ProjectPage ------------------------------
(***************************************************************************)
(* The page of one montage project: the project action lock and its calls   *)
(* (useProjectActions.ts), the two polled queries and the sockets that      *)
(* refresh them (App.tsx), and the three effects that start work by         *)
(* themselves: the caption keywords, the one-click chain                    *)
(* (ProjectWorkbench.tsx) and the spoken lines of an imported script        *)
(* (App.tsx).  The server is what the page sees of it: the versions of the  *)
(* assets, of which a new one makes the assets derived from it stale, and   *)
(* the tasks.  A render runs the effects of the page in React's order: the  *)
(* workbench before the application around it.                              *)
(***************************************************************************)
EXTENDS Integers, Sequences, FiniteSets

CONSTANTS
    HasSource,  \* the project has a script of a peer to rewrite
    HasBackground, \* the account has a background image at first
    Chained,    \* the operator may press the one-click button
    UserCalls,  \* the calls the operator makes by hand
    MaxScripts, \* bound on versions of the script
    MaxTasks,   \* bound on tasks
    MaxArms,    \* bound on presses of the one-click button
    MaxFaults   \* bound on requests and refreshes that fail

VARIABLES
    srv,    \* the assets of the project on the server
    tasks,  \* its tasks, oldest first
    shown,  \* the answers of the two queries the page renders
    calls,  \* the project actions in flight
    ui      \* the state and the references of the page

vars == <<srv, tasks, shown, calls, ui>>

Actions == {"source-remix", "remix-review", "save-continuous-script", "save-caption-keywords", "spoken-lines",
            "caption-keywords", "generate-narration", "montage", "upload:narration", "upload:account_background",
            "publish"}
TaskActions == {"source-remix", "remix-review", "spoken-lines", "caption-keywords", "montage"}
Queries == {"detail", "tasks"}
Starters == {"user", "auto", "chain"}

Live(seq, action) == \E i \in DOMAIN seq : seq[i].action = action /\ seq[i].status = "running"
AnyLive(seq) == \E i \in DOMAIN seq : seq[i].status = "running"

Assets == [script : 0 .. MaxScripts, spoken : Nat, spokenReady : BOOLEAN, keywords : BOOLEAN,
           narration : Nat, narrationReady : BOOLEAN, mix : {"none", "ready", "stale"}, published : BOOLEAN, background : BOOLEAN]
TaskRecords == [action : TaskActions, status : {"running", "completed", "failed"}, of : Nat, since : BOOLEAN]
Idle == [phase |-> "idle", left |-> {}, ok |-> FALSE, by |-> "user"]

\* The keys of what was done already, which a render must not do again.
Page == [dirty : BOOLEAN, due : SUBSET Queries, armed : BOOLEAN, pending : SUBSET Actions,
         spokenAuto : Nat, keywordAuto : Nat, clickSpoken : Nat, clickKeyword : Nat, clickNarration : Nat,
         clickMontage : Nat, keywordFailed : Nat, started : SUBSET (Nat \X Nat), arms : Nat, faults : Nat]

TypeOK ==
    /\ srv \in Assets
    /\ tasks \in Seq(TaskRecords)
    /\ shown.detail \in Assets /\ shown.tasks \in Seq(TaskRecords)
    /\ calls \in [Actions -> [phase : {"idle", "sent", "refresh"}, left : SUBSET Queries, ok : BOOLEAN, by : Starters]]
    /\ ui \in Page

(* What the page derives from the project it shows (workflow.ts).           *)
montageInputsReady(d) == d.script > 0 /\ d.narrationReady /\ d.background
canRemakeMontage(d) == montageInputsReady(d) /\ (d.mix # "none" \/ d.published)
canOneClickProduce(d) == ~d.published /\ d.script > 0 /\ d.mix # "ready"
deriveProductionStage(d) ==
    IF d.published THEN "published"
    ELSE IF d.mix = "ready" THEN "review"
    ELSE IF montageInputsReady(d) THEN "mixing"
    ELSE IF d.script > 0 /\ d.spokenReady THEN "assets"
    ELSE "script"

(* The button the page offers first.                                        *)
nextPrimaryAction(d) ==
    CASE deriveProductionStage(d) = "script" -> IF d.script = 0 THEN "source-remix" ELSE "spoken-lines"
      [] deriveProductionStage(d) = "assets" -> "generate-narration"
      [] deriveProductionStage(d) = "mixing" -> "montage"
      [] deriveProductionStage(d) = "review" -> "publish"
      [] OTHER -> "none"

-----------------------------------------------------------------------------
(* The lock: one action of a project at a time, whatever the action.        *)
InFlight == {a \in Actions : calls[a].phase # "idle"}
lockAction(c, a) == \A b \in Actions : c[b].phase = "idle"

(* What an action asks of the project the page shows before it is sent.     *)
Allowed(a, d) ==
    CASE a = "spoken-lines" -> d.script > 0
      [] a = "caption-keywords" -> d.spokenReady
      [] a = "generate-narration" -> d.script > 0 /\ d.spokenReady
      [] a = "remix-review" -> d.script > 0
      [] OTHER -> TRUE

(* Sends the request of an action, or answers that it was not started.      *)
Started(p, a, d) == Allowed(a, d) /\ lockAction(p.calls, a)
Send(p, a, by) == [p EXCEPT !.calls[a] = [phase |-> "sent", left |-> {}, ok |-> FALSE, by |-> by], !.ui.dirty = TRUE]

(* A start that failed: the chain stops, except over the keywords, which    *)
(* are given up for this version of the spoken script.                      *)
Refused(u, a, by, spoken) ==
    CASE a = "caption-keywords" /\ by # "user" -> [u EXCEPT !.keywordFailed = spoken, !.dirty = TRUE]
      [] by = "chain" -> [u EXCEPT !.armed = FALSE, !.dirty = TRUE]
      [] OTHER -> u
startBy(p, a, by, d) ==
    IF Started(p, a, d) THEN Send(p, a, by) ELSE [p EXCEPT !.ui = Refused(@, a, by, d.spoken)]

-----------------------------------------------------------------------------
(* The effect that marks the keywords of a new spoken script.               *)
keywordEffect(p, d, t) ==
    IF ~p.ui.armed /\ d.spokenReady /\ ~d.keywords /\ ~Live(t, "caption-keywords") /\ p.ui.keywordAuto # d.spoken
    THEN startBy([p EXCEPT !.ui.keywordAuto = d.spoken, !.ui.clickKeyword = d.spoken], "caption-keywords", "auto", d)
    ELSE p

FailedAtAnyTime(t, a) == \E i \in DOMAIN t : t[i].action = a /\ t[i].status = "failed"
failedSinceArm(t, a) == \E i \in DOMAIN t : t[i].action = a /\ t[i].status = "failed" /\ t[i].since

oneClickBusy(p, t) ==
    \/ p.ui.pending # {}
    \/ \E a \in {"spoken-lines", "montage", "source-remix"} : Live(t, a)

Disarm(p) == [p EXCEPT !.ui.armed = FALSE, !.ui.dirty = TRUE]
keywordsGivenUp(p, d, t) == failedSinceArm(t, "caption-keywords") \/ p.ui.keywordFailed = d.spoken

(* The steps of the chain, each remembered by the version it was started    *)
(* for.                                                                     *)
ChainSpoken(p, d, t) ==
    IF oneClickBusy(p, t) THEN p
    ELSE IF p.ui.clickSpoken = d.script THEN IF failedSinceArm(t, "spoken-lines") THEN Disarm(p) ELSE p
    ELSE startBy([p EXCEPT !.ui.clickSpoken = d.script], "spoken-lines", "chain", d)
ChainKeywords(p, d, t) ==
    IF Live(t, "caption-keywords") \/ oneClickBusy(p, t) \/ d.spoken \in {p.ui.clickKeyword, p.ui.keywordAuto} THEN p
    ELSE startBy([p EXCEPT !.ui.clickKeyword = d.spoken, !.ui.keywordAuto = d.spoken], "caption-keywords", "chain", d)
ChainNarration(p, d, t) ==
    IF oneClickBusy(p, t) THEN p
    ELSE IF p.ui.clickNarration = d.spoken THEN Disarm(p)
    ELSE startBy([p EXCEPT !.ui.clickNarration = d.spoken], "generate-narration", "chain", d)
ChainMontage(p, d, t) ==
    IF Live(t, "caption-keywords") \/ oneClickBusy(p, t) THEN p
    ELSE IF ~montageInputsReady(d) THEN Disarm(p)
    ELSE IF p.ui.clickMontage = d.narration THEN IF failedSinceArm(t, "montage") THEN Disarm(p) ELSE p
    ELSE startBy([p EXCEPT !.ui.clickMontage = d.narration], "montage", "chain", d)

chainEffect(p, d, t) ==
    CASE ~p.ui.armed -> p
      [] p.ui.armed /\ ~canOneClickProduce(d) -> Disarm(p)
      [] p.ui.armed /\ canOneClickProduce(d) /\ ~d.spokenReady -> ChainSpoken(p, d, t)
      [] p.ui.armed /\ canOneClickProduce(d) /\ d.spokenReady /\ ~d.keywords /\ ~keywordsGivenUp(p, d, t) -> ChainKeywords(p, d, t)
      [] OTHER -> IF d.narrationReady THEN ChainMontage(p, d, t) ELSE ChainNarration(p, d, t)

(* The effect that goes on from an imported script: once for a version.     *)
SpokenAsOftenAsAsked(p, d, t) ==
    IF ~HasSource /\ d.script > 0 /\ ~d.spokenReady /\ ~Live(t, "spoken-lines") /\ Started(p, "spoken-lines", d)
    THEN startBy([p EXCEPT !.ui.started = @ \cup {<<d.script, Len(t)>>}], "spoken-lines", "auto", d)
    ELSE p
spokenEffect(p, d, t) ==
    IF ~HasSource /\ d.script > 0 /\ ~d.spokenReady /\ ~Live(t, "spoken-lines") /\ p.ui.spokenAuto # d.script
    THEN startBy([p EXCEPT !.ui.spokenAuto = d.script,
                           !.ui.started = IF Started(p, "spoken-lines", d) THEN @ \cup {<<d.script, Len(t)>>} ELSE @],
                 "spoken-lines", "auto", d)
    ELSE p

(* A render and its effects.  The effects see the pending actions of the    *)
(* render; the lock itself is a reference and always current.               *)
Effects(p, d, t) == spokenEffect(chainEffect(keywordEffect(p, d, t), d, t), d, t)
Render ==
    /\ ui.dirty
    /\ LET page == [calls |-> calls, ui |-> [ui EXCEPT !.dirty = FALSE, !.pending = InFlight]]
           after == Effects(page, shown.detail, shown.tasks)
       IN calls' = after.calls /\ ui' = after.ui
    /\ UNCHANGED <<srv, tasks, shown>>

-----------------------------------------------------------------------------
(* The operator.                                                            *)
By(a, offered) ==
    /\ a \in UserCalls /\ ~ui.dirty /\ offered /\ ui.pending = {}
    /\ Started([calls |-> calls, ui |-> ui], a, shown.detail)
    /\ LET after == Send([calls |-> calls, ui |-> ui], a, "user")
       IN calls' = after.calls /\ ui' = after.ui
    /\ UNCHANGED <<srv, tasks, shown>>

saveSourceScriptAndStartRemix == By("source-remix", HasSource)
startRemixReview == By("remix-review", shown.detail.script > 0)
saveContinuousScript == By("save-continuous-script", shown.detail.script > 0)
importContinuousScript == By("save-continuous-script", shown.detail.script = 0)
adoptContinuousScript ==
    By("save-continuous-script", \E i \in DOMAIN shown.tasks : shown.tasks[i].action = "source-remix" /\ shown.tasks[i].status = "completed")
saveCaptionKeywords == By("save-caption-keywords", shown.detail.spokenReady)
startSpokenLinesTask == By("spoken-lines", nextPrimaryAction(shown.detail) = "spoken-lines" /\ ~Live(shown.tasks, "spoken-lines"))
generateNarration == By("generate-narration", nextPrimaryAction(shown.detail) = "generate-narration")
MixOffered ==
    /\ ~Live(shown.tasks, "montage")
    /\ nextPrimaryAction(shown.detail) = "montage" \/ canRemakeMontage(shown.detail)
startMontageTask == By("montage", MixOffered)
startMovieMontageTask == By("montage", MixOffered)
startImageVideoTask == By("montage", MixOffered)
uploadAsset == By("upload:narration", TRUE)
replaceBackground == By("upload:account_background", TRUE)
publishProject == By("publish", nextPrimaryAction(shown.detail) = "publish")

armOneClickProduce ==
    /\ Chained /\ ui.arms < MaxArms /\ ~ui.dirty /\ ~ui.armed
    /\ canOneClickProduce(shown.detail)
    /\ ~oneClickBusy([calls |-> calls, ui |-> ui], shown.tasks)
    /\ ui' = [ui EXCEPT !.armed = TRUE, !.dirty = TRUE, !.arms = @ + 1,
                        !.clickSpoken = 0, !.clickKeyword = 0, !.clickNarration = 0, !.clickMontage = 0]
    /\ tasks' = [i \in DOMAIN tasks |-> [tasks[i] EXCEPT !.since = FALSE]]
    /\ shown' = [shown EXCEPT !.tasks = [i \in DOMAIN @ |-> [@[i] EXCEPT !.since = FALSE]]]
    /\ UNCHANGED <<srv, calls>>

-----------------------------------------------------------------------------
(* The server.  A new version makes what was derived from the old one       *)
(* stale.                                                                   *)
MixAfter(s) == IF s.mix = "ready" THEN "stale" ELSE s.mix
NewScript(s) == [s EXCEPT !.script = @ + 1, !.spokenReady = FALSE, !.keywords = FALSE, !.narrationReady = FALSE, !.mix = MixAfter(s)]
NewSpoken(s) == [s EXCEPT !.spoken = @ + 1, !.spokenReady = TRUE, !.keywords = FALSE, !.narrationReady = FALSE, !.mix = MixAfter(s)]
NewNarration(s) == [s EXCEPT !.narration = @ + 1, !.narrationReady = TRUE, !.mix = MixAfter(s)]

Registers(a, s) ==
    CASE a \in {"source-remix", "remix-review", "save-continuous-script"} -> NewScript(s)
      [] a = "spoken-lines" -> NewSpoken(s)
      [] a \in {"caption-keywords", "save-caption-keywords"} -> [s EXCEPT !.keywords = TRUE]
      [] a = "upload:account_background" -> [s EXCEPT !.background = TRUE]
      [] a \in {"generate-narration", "upload:narration"} -> NewNarration(s)
      [] a = "montage" -> [s EXCEPT !.mix = "ready"]
      [] OTHER -> [s EXCEPT !.published = TRUE]

(* What the task was given, by version: a result over superseded inputs is  *)
(* rejected.                                                                *)
InputOf(a, s) == CASE a = "spoken-lines" -> s.script [] a = "caption-keywords" -> s.spoken [] a = "montage" -> s.narration [] OTHER -> s.script
Admits(a, s, t) ==
    CASE a \in TaskActions -> ~Live(t, a) /\ Len(t) < MaxTasks /\ (a = "montage" => montageInputsReady(s)) /\ (a = "caption-keywords" => s.spokenReady)
      [] a = "generate-narration" -> s.spokenReady /\ s.narration < MaxScripts + 1
      [] a = "save-continuous-script" -> s.script < MaxScripts
      [] a = "upload:narration" -> s.narration < MaxScripts + 1
      [] a = "save-caption-keywords" -> s.spokenReady
      [] a = "upload:account_background" -> TRUE
      [] OTHER -> s.mix = "ready"

(* The answer of the server; a mutation that was accepted refreshes both    *)
(* queries before it is over.                                               *)
Serve(a) ==
    /\ calls[a].phase = "sent"
    /\ IF Admits(a, srv, tasks)
       THEN /\ IF a \in TaskActions
               THEN /\ tasks' = Append(tasks, [action |-> a, status |-> "running", of |-> InputOf(a, srv), since |-> TRUE])
                    /\ UNCHANGED srv
               ELSE srv' = Registers(a, srv) /\ UNCHANGED tasks
            /\ calls' = [calls EXCEPT ![a].phase = "refresh", ![a].left = Queries, ![a].ok = TRUE]
       ELSE calls' = [calls EXCEPT ![a].phase = "refresh"] /\ UNCHANGED <<srv, tasks>>
    /\ UNCHANGED <<shown, ui>>
RequestFails(a) ==
    /\ calls[a].phase = "sent" /\ ui.faults < MaxFaults
    /\ calls' = [calls EXCEPT ![a].phase = "refresh"]
    /\ ui' = [ui EXCEPT !.faults = @ + 1]
    /\ UNCHANGED <<srv, tasks, shown>>

(* The call is over: the lock is released and the caller learns whether the *)
(* action was started.                                                      *)
unlockAction(a) == [calls EXCEPT ![a] = Idle]
Settled(a) ==
    /\ calls[a].phase = "refresh" /\ calls[a].left = {}
    /\ calls' = unlockAction(a)
    /\ ui' = [IF calls[a].ok THEN ui ELSE Refused(ui, a, calls[a].by, shown.detail.spoken) EXCEPT !.dirty = TRUE]
    /\ UNCHANGED <<srv, tasks, shown>>

(* A task ends.  While the page shows it live a socket brings the news and  *)
(* both queries are refreshed, unless the socket was down.                  *)
TaskEnds(i, ok) ==
    /\ tasks[i].status = "running"
    /\ ok => InputOf(tasks[i].action, srv) = tasks[i].of
             /\ (tasks[i].action \in {"source-remix", "remix-review"} => srv.script < MaxScripts)
    /\ tasks' = [tasks EXCEPT ![i].status = IF ok THEN "completed" ELSE "failed"]
    /\ srv' = IF ok THEN Registers(tasks[i].action, srv) ELSE srv
    /\ ui' = [ui EXCEPT !.due = IF AnyLive(shown.tasks) THEN Queries ELSE @]
    /\ UNCHANGED <<shown, calls>>
scheduleDetailRefresh ==
    /\ AnyLive(shown.tasks) /\ ui.due # Queries /\ shown.tasks # tasks
    /\ ui' = [ui EXCEPT !.due = Queries]
    /\ UNCHANGED <<srv, tasks, shown, calls>>

(* An answer of one of the two queries: of a poll while something is live,  *)
(* of a refresh a socket asked for, or of the one a call waits for.         *)
detailPollInterval == AnyLive(shown.tasks)
Wanted(q) == detailPollInterval \/ q \in ui.due \/ \E a \in Actions : q \in calls[a].left
Arrives(q) == [a \in Actions |-> [calls[a] EXCEPT !.left = @ \ {q}]]
detailQuery ==
    /\ Wanted("detail")
    /\ shown' = [shown EXCEPT !.detail = srv]
    /\ calls' = Arrives("detail")
    /\ ui' = [ui EXCEPT !.due = @ \ {"detail"}, !.dirty = @ \/ shown.detail # srv]
    /\ UNCHANGED <<srv, tasks>>
tasksQuery ==
    /\ Wanted("tasks")
    /\ shown' = [shown EXCEPT !.tasks = tasks]
    /\ calls' = Arrives("tasks")
    /\ ui' = [ui EXCEPT !.due = @ \ {"tasks"}, !.dirty = @ \/ shown.tasks # tasks]
    /\ UNCHANGED <<srv, tasks>>
refreshFails(q) ==
    /\ Wanted(q) /\ ui.faults < MaxFaults
    /\ calls' = Arrives(q)
    /\ ui' = [ui EXCEPT !.due = @ \ {q}, !.faults = @ + 1]
    /\ UNCHANGED <<srv, tasks, shown>>

-----------------------------------------------------------------------------
Fresh == [script |-> 0, spoken |-> 0, spokenReady |-> FALSE, keywords |-> FALSE,
          narration |-> 0, narrationReady |-> FALSE, mix |-> "none", published |-> FALSE, background |-> HasBackground]

Init ==
    /\ srv = Fresh /\ tasks = <<>>
    /\ shown = [detail |-> Fresh, tasks |-> <<>>]
    /\ calls = [a \in Actions |-> Idle]
    /\ ui = [dirty |-> FALSE, due |-> {}, armed |-> FALSE, pending |-> {}, spokenAuto |-> 0, keywordAuto |-> 0,
             clickSpoken |-> 0, clickKeyword |-> 0, clickNarration |-> 0, clickMontage |-> 0, keywordFailed |-> 0,
             started |-> {}, arms |-> 0, faults |-> 0]

Operator ==
    \/ saveSourceScriptAndStartRemix \/ startRemixReview \/ saveContinuousScript \/ importContinuousScript
    \/ adoptContinuousScript \/ saveCaptionKeywords \/ startSpokenLinesTask \/ generateNarration
    \/ startMontageTask \/ startMovieMontageTask \/ startImageVideoTask
    \/ uploadAsset \/ replaceBackground \/ publishProject \/ armOneClickProduce
System ==
    \/ Render \/ detailQuery \/ tasksQuery \/ scheduleDetailRefresh
    \/ \E a \in Actions : Serve(a) \/ Settled(a)
    \/ \E i \in DOMAIN tasks, ok \in BOOLEAN : TaskEnds(i, ok)
Faults == (\E a \in Actions : RequestFails(a)) \/ (\E q \in Queries : refreshFails(q))
Next == Operator \/ System \/ Faults

Spec == Init /\ [][Next]_vars

-----------------------------------------------------------------------------
(* The chain does not start the narration while the keywords of the script  *)
(* are still being marked: the project lock allows one action at a time and *)
(* the keywords are given up only for a failure of this run.                *)
NarratesInTurn ==
    (/\ calls["generate-narration"].phase = "idle"
     /\ calls'["generate-narration"].phase = "sent"
     /\ calls'["generate-narration"].by = "chain")
       => (Live(tasks, "caption-keywords") => srv.keywords) /\ InFlight = {}
NarrationAfterKeywords == [][NarratesInTurn]_vars

(* The page starts the spoken lines of a version by itself once at most,    *)
(* whatever the order in which its queries answer.                          *)
StartedOnce == \A s, r \in ui.started : s[1] = r[1] => s = r

(* The one-click chain waits for something: a call, a task, a render, or an *)
(* answer the page has not seen.  When nothing is under way and a render    *)
(* would start nothing, the chain has stopped with its button still busy.   *)
AtRest == InFlight = {} /\ ~ui.dirty /\ ui.due = {} /\ ~AnyLive(tasks) /\ shown = [detail |-> srv, tasks |-> tasks]
ChainIsNotLeftHanging ==
    ui.armed /\ AtRest
        => LET page == [calls |-> calls, ui |-> ui] IN chainEffect(page, shown.detail, shown.tasks) # page

(* A script that was imported is carried on by itself: when everything has  *)
(* come to rest its spoken lines were started at least once.                *)
ImportIsCarriedOn ==
    (~HasSource /\ AtRest /\ srv.script > 0 /\ ~srv.spokenReady /\ ui.faults = 0)
        => \E s \in ui.started : s[1] = srv.script
=============================================================================

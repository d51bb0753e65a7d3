------------------------------ MODULE MCRecords ------------------------------
(* The components that keep records or compute plans, each in small instances, checked in one run; composed    *)
(* like MCProduction.                                                                                          *)
EXTENDS Integers, Sequences, FiniteSets

VARIABLES focus,
          x1, x2, x3, x4, x5, x6, x7, x8, x9, x10, x11, x12, x13, x14, x15

vars == <<focus, x1, x2, x3, x4, x5, x6, x7, x8, x9, x10, x11, x12, x13, x14, x15>>

\* Every action of a task; a project may be without some of its assets.
Requests == {"remix.standard", "remix.enhanced", "remix.from_topic_card", "remix.review", "remix.spoken_lines",
             "remix.caption_keywords", "topic.brainstorm", "topic.commit", "topic.deepen", "montage.plan", "montage.execute"}
Absent == {{}, {"source_script", "topic_card"}, {"continuous_script"}, {"narration", "word_timing"}, {"caption_keywords", "subtitle_srt"}}

\* Graphs of an editor: with both, one or none of the nodes after the writer, agents in a chain, in a circle or
\* beside the writer, with and without a reference draft.
TailOf(selfcheck, reviewer) ==
    LET last == IF selfcheck THEN "selfcheck" ELSE "writer"
    IN  (IF selfcheck THEN {<<"writer", "selfcheck">>} ELSE {}) \cup
        (IF reviewer THEN {<<last, "reviewer">>, <<"reviewer", "output">>} ELSE {<<last, "output">>})
Graphs ==
    {[nodes |-> {"input", "writer", "output", "a1", "a2"} \cup refs
                \cup (IF t # 2 THEN {"selfcheck"} ELSE {}) \cup (IF t # 3 THEN {"reviewer"} ELSE {}),
      edges |-> TailOf(t # 2, t # 3) \cup e \cup {<<"input", "a1">>} \cup ({"input"} \X refs) \cup (refs \X {"writer"})] :
     t \in 1..3, refs \in {{}, {"r1"}},
     e \in {{<<"a1", "a2">>}, {<<"a1", "a2">>, <<"a2", "a1">>}, {<<"input", "writer">>, <<"r1", "a1">>}}}

\* A library: two shots of one film, one of another, two pieces of stock footage, an image; tenths of seconds.
Medium(id, kind, source, shot, from, to, length, category, frac, score, intent) ==
    [id |-> id, kind |-> kind, source |-> source, shot |-> shot, in |-> from, out |-> to, duration |-> length,
     category |-> category, frac |-> frac, score |-> score, intent |-> intent]
Library == {Medium(1, "broll", "b1", "", 0, 0, 120, "nature", 2, 0, 0),
            Medium(2, "broll", "b2", "", 0, 0, 102, "city", 9, 0, 0),
            Medium(3, "movie", "f1", "f1a", 0, 60, 600, "city", 5, 2, 1),
            Medium(4, "movie", "f1", "f1b", 60, 180, 600, "room", 0, 1, 2),
            Medium(5, "image", "i1", "", 0, 0, 0, "city", 7, 0, 0),
            Medium(6, "movie", "f2", "f2a", 90, 126, 300, "city", 4, 3, 2)}
Moments == <<[from |-> 0, to |-> 120, importance |-> 4], [from |-> 120, to |-> 300, importance |-> 7]>>

\* Words of one, two and seven runes, a comma, a full stop and a connector.
Spoken == {[n |-> 1, k |-> "word", d |-> 1], [n |-> 2, k |-> "word", d |-> 2], [n |-> 7, k |-> "word", d |-> 4],
           [n |-> 1, k |-> "soft", d |-> 0], [n |-> 1, k |-> "strong", d |-> 1], [n |-> 2, k |-> "connector", d |-> 1]}

\* Scripts, narration and subtitles, two requests at a time, a fault.
PA == INSTANCE ProjectAssets WITH
    Types <- {"continuous_script", "spoken_script", "narration", "subtitle_srt"},
    Actors <- {"a1", "a2"}, Seeded <- <<"continuous_script", "narration">>, MaxVersions <- 6,
    MaxOps <- 2, MaxFaults <- 1,
    stage <- x1, versions <- x2, current <- x3, files <- x4, act <- x5, narrating <- x6, ops <- x7,
    faults <- x8, saves <- x9, excused <- x10
PAInit == focus = "project_scripts" /\ PA!Init
    /\ x11 = 0 /\ x12 = 0 /\ x13 = 0 /\ x14 = 0 /\ x15 = 0
PANext == focus = "project_scripts" /\ PA!Next /\ UNCHANGED <<focus, x11, x12, x13, x14, x15>>

\* Keywords and the draft that rests on them, and the card of the topic.
PD == INSTANCE ProjectAssets WITH
    Types <- {"topic_card", "continuous_script", "spoken_script", "caption_keywords", "mix_draft"},
    Actors <- {"a1", "a2"}, Seeded <- <<"continuous_script", "spoken_script">>, MaxVersions <- 6,
    MaxOps <- 2, MaxFaults <- 0,
    stage <- x1, versions <- x2, current <- x3, files <- x4, act <- x5, narrating <- x6, ops <- x7,
    faults <- x8, saves <- x9, excused <- x10
PDInit == focus = "project_drafts" /\ PD!Init
    /\ x11 = 0 /\ x12 = 0 /\ x13 = 0 /\ x14 = 0 /\ x15 = 0
PDNext == focus = "project_drafts" /\ PD!Next /\ UNCHANGED <<focus, x11, x12, x13, x14, x15>>

\* The chain from the script to the draft, one request after the other.
PC == INSTANCE ProjectAssets WITH
    Types <- {"continuous_script", "narration", "subtitle_srt", "caption_keywords", "mix_draft"},
    Actors <- {"a1"}, Seeded <- <<"continuous_script", "narration", "subtitle_srt">>,
    MaxVersions <- 7, MaxOps <- 3, MaxFaults <- 1,
    stage <- x1, versions <- x2, current <- x3, files <- x4, act <- x5, narrating <- x6, ops <- x7,
    faults <- x8, saves <- x9, excused <- x10
PCInit == focus = "project_chain" /\ PC!Init
    /\ x11 = 0 /\ x12 = 0 /\ x13 = 0 /\ x14 = 0 /\ x15 = 0
PCNext == focus = "project_chain" /\ PC!Next /\ UNCHANGED <<focus, x11, x12, x13, x14, x15>>

\* Keywords that rest on the script by way of the spoken script.
PK == INSTANCE ProjectAssets WITH
    Types <- {"continuous_script", "spoken_script", "caption_keywords"}, Actors <- {"a1"},
    Seeded <- <<"continuous_script">>, MaxVersions <- 4, MaxOps <- 3, MaxFaults <- 0,
    stage <- x1, versions <- x2, current <- x3, files <- x4, act <- x5, narrating <- x6, ops <- x7,
    faults <- x8, saves <- x9, excused <- x10
PKInit == focus = "project_keywords" /\ PK!Init
    /\ x11 = 0 /\ x12 = 0 /\ x13 = 0 /\ x14 = 0 /\ x15 = 0
PKNext == focus = "project_keywords" /\ PK!Next /\ UNCHANGED <<focus, x11, x12, x13, x14, x15>>

\* A video of a provider, two builds, a crash and a fault.
MC == INSTANCE MediaCatalog WITH
    Videos <- {"v"}, Images <- {}, External <- {"v"}, Pack <- {}, Scenes <- 2, Frames <- 2,
    Workers <- {"w1"}, MaxBuilds <- 2, MaxRetries <- 1, MaxCrashes <- 1, MaxFaults <- 1,
    disk <- x1, source <- x2, rights <- x3, job <- x4, shots <- x5, frames <- x6, analysis <- x7,
    embedded <- x8, build <- x9, import <- x10, merge <- x11, builds <- x12, retries <- x13,
    crashes <- x14, faults <- x15
MCInit == focus = "media_catalog" /\ MC!Init
MCNext == focus = "media_catalog" /\ MC!Next /\ UNCHANGED <<focus>>

\* An image of a provider.
MI == INSTANCE MediaCatalog WITH
    Videos <- {}, Images <- {"i"}, External <- {"i"}, Pack <- {}, Scenes <- 1, Frames <- 1,
    Workers <- {"w1"}, MaxBuilds <- 1, MaxRetries <- 1, MaxCrashes <- 1, MaxFaults <- 0,
    disk <- x1, source <- x2, rights <- x3, job <- x4, shots <- x5, frames <- x6, analysis <- x7,
    embedded <- x8, build <- x9, import <- x10, merge <- x11, builds <- x12, retries <- x13,
    crashes <- x14, faults <- x15
MIInit == focus = "media_images" /\ MI!Init
MINext == focus = "media_images" /\ MI!Next /\ UNCHANGED <<focus>>

\* A video of the pack, merged while builds run.
MP == INSTANCE MediaCatalog WITH
    Videos <- {"v"}, Images <- {}, External <- {}, Pack <- {"v"}, Scenes <- 1, Frames <- 1,
    Workers <- {"w1"}, MaxBuilds <- 2, MaxRetries <- 1, MaxCrashes <- 1, MaxFaults <- 1,
    disk <- x1, source <- x2, rights <- x3, job <- x4, shots <- x5, frames <- x6, analysis <- x7,
    embedded <- x8, build <- x9, import <- x10, merge <- x11, builds <- x12, retries <- x13,
    crashes <- x14, faults <- x15
MPInit == focus = "media_pack" /\ MP!Init
MPNext == focus = "media_pack" /\ MP!Next /\ UNCHANGED <<focus>>

\* One task of every action, one request after the other.
TM == INSTANCE TaskManifest WITH
    Actions <- Requests, Callers <- {"c1"}, Models <- {"m1"}, Absences <- Absent, MaxTasks <- 1,
    MaxChanges <- 0, MaxLosses <- 0,
    assets <- x1, settings <- x2, files <- x3, rows <- x4, calls <- x5, changes <- x6, losses <- x7
TMInit == focus = "task_actions" /\ TM!Init
    /\ x8 = 0 /\ x9 = 0 /\ x10 = 0 /\ x11 = 0 /\ x12 = 0 /\ x13 = 0 /\ x14 = 0 /\ x15 = 0
TMNext == focus = "task_actions" /\ TM!Next /\ UNCHANGED <<focus, x8, x9, x10, x11, x12, x13, x14, x15>>

\* The remix of a workflow, a changed project, a preparation that is repeated.
TR == INSTANCE TaskManifest WITH
    Actions <- {"remix.from_topic_card"}, Callers <- {"c1"}, Models <- {"m1"}, Absences <- {{}},
    MaxTasks <- 0, MaxChanges <- 1, MaxLosses <- 1,
    assets <- x1, settings <- x2, files <- x3, rows <- x4, calls <- x5, changes <- x6, losses <- x7
TRInit == focus = "task_retries" /\ TR!Init
    /\ x8 = 0 /\ x9 = 0 /\ x10 = 0 /\ x11 = 0 /\ x12 = 0 /\ x13 = 0 /\ x14 = 0 /\ x15 = 0
TRNext == focus = "task_retries" /\ TR!Next /\ UNCHANGED <<focus, x8, x9, x10, x11, x12, x13, x14, x15>>

\* A save, a restart and a program that moves.
ST == INSTANCE Settings WITH
    Callers <- {"c1"}, Models <- {"m1"}, Binaries <- {"b1", "b2"}, MaxSaves <- 1, MaxRestarts <- 1,
    MaxChanges <- 1,
    stored <- x1, version <- x2, secrets <- x3, sealed <- x4, active <- x5, installed <- x6,
    ffmpegThere <- x7, callers <- x8, crossed <- x9, saves <- x10, restarts <- x11, changes <- x12,
    fresh <- x13
STInit == focus = "settings" /\ ST!Init
    /\ x14 = 0 /\ x15 = 0
STNext == focus = "settings" /\ ST!Next /\ UNCHANGED <<focus, x14, x15>>

\* Two saves at a time, two models, a restart.
SX == INSTANCE Settings WITH
    Callers <- {"c1", "c2"}, Models <- {"m1", "m2"}, Binaries <- {"b1"}, MaxSaves <- 2,
    MaxRestarts <- 1, MaxChanges <- 0,
    stored <- x1, version <- x2, secrets <- x3, sealed <- x4, active <- x5, installed <- x6,
    ffmpegThere <- x7, callers <- x8, crossed <- x9, saves <- x10, restarts <- x11, changes <- x12,
    fresh <- x13
SXInit == focus = "two_saves" /\ SX!Init
    /\ x14 = 0 /\ x15 = 0
SXNext == focus = "two_saves" /\ SX!Next /\ UNCHANGED <<focus, x14, x15>>

\* One task, two requests at a time, two threads, a failing call.
CW == INSTANCE ConversationThreads WITH
    Callers <- {"c1", "c2"}, Tasks <- {"t1"}, MaxThreads <- 2, MaxFaults <- 1, MaxGone <- 1,
    MaxCrashes <- 0, ReadsFail <- FALSE,
    threads <- x1, sessions <- x2, intents <- x3, tasks <- x4, callers <- x5, ensureMu <- x6,
    orphans <- x7, late <- x8, faults <- x9, gone <- x10, crashes <- x11
CWInit == focus = "two_dispatches" /\ CW!Init
    /\ x12 = 0 /\ x13 = 0 /\ x14 = 0 /\ x15 = 0
CWNext == focus = "two_dispatches" /\ CW!Next /\ UNCHANGED <<focus, x12, x13, x14, x15>>

\* Two tasks of a project, two threads, failing calls.
CT == INSTANCE ConversationThreads WITH
    Callers <- {"c1"}, Tasks <- {"t1", "t2"}, MaxThreads <- 2, MaxFaults <- 2, MaxGone <- 1,
    MaxCrashes <- 1, ReadsFail <- FALSE,
    threads <- x1, sessions <- x2, intents <- x3, tasks <- x4, callers <- x5, ensureMu <- x6,
    orphans <- x7, late <- x8, faults <- x9, gone <- x10, crashes <- x11
CTInit == focus = "conversations" /\ CT!Init
    /\ x12 = 0 /\ x13 = 0 /\ x14 = 0 /\ x15 = 0
CTNext == focus = "conversations" /\ CT!Next /\ UNCHANGED <<focus, x12, x13, x14, x15>>

\* One task, with reads that fail.
CR == INSTANCE ConversationThreads WITH
    Callers <- {"c1"}, Tasks <- {"t1"}, MaxThreads <- 2, MaxFaults <- 2, MaxGone <- 1,
    MaxCrashes <- 0, ReadsFail <- TRUE,
    threads <- x1, sessions <- x2, intents <- x3, tasks <- x4, callers <- x5, ensureMu <- x6,
    orphans <- x7, late <- x8, faults <- x9, gone <- x10, crashes <- x11
CRInit == focus = "unread_conversations" /\ CR!Init
    /\ x12 = 0 /\ x13 = 0 /\ x14 = 0 /\ x15 = 0
CRNext == focus = "unread_conversations" /\ CR!Next /\ UNCHANGED <<focus, x12, x13, x14, x15>>

\* Two items of the agent that show one phase, over the App Server.
TT == INSTANCE TaskTimings WITH
    Items <- {"i1", "i2"}, KeyOf <- [i \in {"i1", "i2"} |-> "media_search"],
    Transport <- "app_server", MaxClock <- 3, MaxAttempts <- 1,
    clock <- x1, task <- x2, phases <- x3, item <- x4, alive <- x5, rec <- x6, run <- x7,
    user <- x8, broken <- x9
TTInit == focus = "task_times" /\ TT!Init
    /\ x10 = 0 /\ x11 = 0 /\ x12 = 0 /\ x13 = 0 /\ x14 = 0 /\ x15 = 0
TTNext == focus = "task_times" /\ TT!Next /\ UNCHANGED <<focus, x10, x11, x12, x13, x14, x15>>

\* The same with a legacy process.
TL == INSTANCE TaskTimings WITH
    Items <- {"i1"}, KeyOf <- [i \in {"i1"} |-> "media_search"], Transport <- "legacy_exec",
    MaxClock <- 3, MaxAttempts <- 2,
    clock <- x1, task <- x2, phases <- x3, item <- x4, alive <- x5, rec <- x6, run <- x7,
    user <- x8, broken <- x9
TLInit == focus = "legacy_times" /\ TL!Init
    /\ x10 = 0 /\ x11 = 0 /\ x12 = 0 /\ x13 = 0 /\ x14 = 0 /\ x15 = 0
TLNext == focus = "legacy_times" /\ TL!Next /\ UNCHANGED <<focus, x10, x11, x12, x13, x14, x15>>

\* Graphs of an editor over two agents and two reference drafts.
RW == INSTANCE RemixWorkflow WITH
    Input <- "input", Writer <- "writer", Selfcheck <- "selfcheck", Reviewer <- "reviewer",
    Output <- "output", Agents <- {"a1", "a2"}, References <- {"r1", "r2"}, maxWorkflowAgents <- 4,
    Accounts <- {"acc"}, Candidates <- Graphs, MaxModels <- 2,
    file <- x1, snapshot <- x2
RWInit == focus = "workflow_graphs" /\ RW!Init
    /\ x3 = 0 /\ x4 = 0 /\ x5 = 0 /\ x6 = 0 /\ x7 = 0 /\ x8 = 0 /\ x9 = 0 /\ x10 = 0 /\ x11 = 0 /\
    x12 = 0 /\ x13 = 0 /\ x14 = 0 /\ x15 = 0
RWNext == focus = "workflow_graphs" /\ RW!Next /\ UNCHANGED <<focus, x3, x4, x5, x6, x7, x8, x9, x10, x11, x12, x13, x14, x15>>

\* Narrations of four words, early images of 2 to 3, later ones of 4, videos of 3.
SC == INSTANCE SceneTiming WITH
    firstPart <- 5, earlyMin <- 2, earlyMax <- 3, earlyAim <- 2, laterMin <- 4, maxVideo <- 3,
    MaxTimedScenes <- 2, MaxWords <- 4, Lengths <- {1, 3}, Gaps <- {0, 1},
    words <- x1
SCInit == focus = "scene_timing" /\ SC!Init
    /\ x2 = 0 /\ x3 = 0 /\ x4 = 0 /\ x5 = 0 /\ x6 = 0 /\ x7 = 0 /\ x8 = 0 /\ x9 = 0 /\ x10 = 0 /\
    x11 = 0 /\ x12 = 0 /\ x13 = 0 /\ x14 = 0 /\ x15 = 0
SCNext == focus = "scene_timing" /\ SC!Next /\ UNCHANGED <<focus, x2, x3, x4, x5, x6, x7, x8, x9, x10, x11, x12, x13, x14, x15>>

\* Scripts of three runes cut into two cards.
PL == INSTANCE PlanReply WITH
    Runes <- {"a", " "}, MaxScript <- 3, MaxExcerpt <- 2, MaxCards <- 2,
    script <- x1, cards <- x2
PLInit == focus = "plan_reply" /\ PL!Init
    /\ x3 = 0 /\ x4 = 0 /\ x5 = 0 /\ x6 = 0 /\ x7 = 0 /\ x8 = 0 /\ x9 = 0 /\ x10 = 0 /\ x11 = 0 /\
    x12 = 0 /\ x13 = 0 /\ x14 = 0 /\ x15 = 0
PLNext == focus = "plan_reply" /\ PL!Next /\ UNCHANGED <<focus, x3, x4, x5, x6, x7, x8, x9, x10, x11, x12, x13, x14, x15>>

\* Libraries of one, three and all of two films, stock footage and an image, three lengths of narration.
MO == INSTANCE MontagePlan WITH
    Items <- Library, Pools <- {ids \in SUBSET (1..6) : Cardinality(ids) \in {1, 3, 6}},
    Versions <- {"1.0", "2.0"}, Presets <- {"movie_mix", "movie_catalog", "image_video"},
    Durations <- {40, 333, 480}, Intents <- Moments,
    pool <- x1, version <- x2, preset <- x3, duration <- x4, slots <- x5, state <- x6
MOInit == focus = "montage_plan" /\ MO!Init
    /\ x7 = 0 /\ x8 = 0 /\ x9 = 0 /\ x10 = 0 /\ x11 = 0 /\ x12 = 0 /\ x13 = 0 /\ x14 = 0 /\ x15 = 0
MONext == focus = "montage_plan" /\ MO!Next /\ UNCHANGED <<focus, x7, x8, x9, x10, x11, x12, x13, x14, x15>>

\* Sentences of five runes, three cues in 16 s, three beats.
OV == INSTANCE MontageOverlays WITH
    spokenLineMaxRunes <- 4, spokenLineMinRunes <- 2, MaxRunes <- 5, MaxCues <- 3,
    Narration <- 160, Gaps <- {0 - 7, 3, 30}, Lengths <- {5, 30, 60}, MaxBeats <- 3,
    SoundGaps <- {5000, 30000, 100000}, SoundDurations <- {100000, 240000, 265000, 600000},
    about <- x1, text <- x2, cues <- x3, beats <- x4
OVInit == focus = "montage_overlays" /\ OV!Init
    /\ x5 = 0 /\ x6 = 0 /\ x7 = 0 /\ x8 = 0 /\ x9 = 0 /\ x10 = 0 /\ x11 = 0 /\ x12 = 0 /\
    x13 = 0 /\ x14 = 0 /\ x15 = 0
OVNext == focus = "montage_overlays" /\ OV!Next /\ UNCHANGED <<focus, x5, x6, x7, x8, x9, x10, x11, x12, x13, x14, x15>>

\* Narrations of up to four atoms for lines of five runes.
CA == INSTANCE CaptionLines WITH
    Atoms <- Spoken, MaxLineRunes <- 5, MinCaptionRunes <- 2, MinDuration <- 1, MaxWords <- 4,
    words <- x1
CAInit == focus = "caption_lines" /\ CA!Init
    /\ x2 = 0 /\ x3 = 0 /\ x4 = 0 /\ x5 = 0 /\ x6 = 0 /\ x7 = 0 /\ x8 = 0 /\ x9 = 0 /\ x10 = 0 /\
    x11 = 0 /\ x12 = 0 /\ x13 = 0 /\ x14 = 0 /\ x15 = 0
CANext == focus = "caption_lines" /\ CA!Next /\ UNCHANGED <<focus, x2, x3, x4, x5, x6, x7, x8, x9, x10, x11, x12, x13, x14, x15>>

ASSUME ManifestBounds == TM!BoundsAssumption /\ TR!BoundsAssumption
ASSUME TimingBounds == SC!WindowAssumption
ASSUME LibraryBounds == MO!ItemAssumption
ASSUME CaptionBounds == CA!OptionsAssumption

Init == \/ PAInit \/ PDInit \/ PCInit \/ PKInit \/ MCInit \/ MIInit \/ MPInit \/ TMInit \/ TRInit
    \/ STInit \/ SXInit \/ CWInit \/ CTInit \/ CRInit \/ TTInit \/ TLInit \/ RWInit \/ SCInit
    \/ PLInit \/ MOInit \/ OVInit \/ CAInit
Next == \/ PANext \/ PDNext \/ PCNext \/ PKNext \/ MCNext \/ MINext \/ MPNext \/ TMNext \/ TRNext
    \/ STNext \/ SXNext \/ CWNext \/ CTNext \/ CRNext \/ TTNext \/ TLNext \/ RWNext \/ SCNext
    \/ PLNext \/ MONext \/ OVNext \/ CANext
Spec == Init /\ [][Next]_vars

------------------------------------------------------------------------------
\* The type invariant of the component in focus.
TypeOK ==
    /\ focus = "project_scripts" => PA!TypeOK
    /\ focus = "project_drafts" => PD!TypeOK
    /\ focus = "project_chain" => PC!TypeOK
    /\ focus = "project_keywords" => PK!TypeOK
    /\ focus = "media_catalog" => MC!TypeOK
    /\ focus = "media_images" => MI!TypeOK
    /\ focus = "media_pack" => MP!TypeOK
    /\ focus = "task_actions" => TM!TypeOK
    /\ focus = "task_retries" => TR!TypeOK
    /\ focus = "settings" => ST!TypeOK
    /\ focus = "two_saves" => SX!TypeOK
    /\ focus = "conversations" => CT!TypeOK
    /\ focus = "unread_conversations" => CR!TypeOK
    /\ focus = "two_dispatches" => CW!TypeOK
    /\ focus = "task_times" => TT!TypeOK
    /\ focus = "legacy_times" => TL!TypeOK
    /\ focus = "montage_plan" => MO!TypeOK
    /\ focus = "caption_lines" => CA!TypeOK

\* What is recorded is well typed and so, although the record and the thing are written apart: files and
\* versions, originals and their rows, embeddings and analysed shots, the manifest on disk and the row of its
\* task, threads and conversations, the stored settings and those in use, phases and the time of their task.
RecordsAreTrue ==
    /\ TypeOK
    /\ focus = "project_scripts" => PA!FilesMatchRecords
    /\ focus = "project_drafts" => PD!FilesMatchRecords
    /\ focus = "project_chain" => PC!FilesMatchRecords
    /\ focus = "project_keywords" => PK!FilesMatchRecords
    /\ focus = "media_catalog" => MC!RowHasFile /\ MC!AnalysedHasEmbedding
    /\ focus = "media_images" => MI!RowHasFile /\ MI!AnalysedHasEmbedding
    /\ focus = "media_pack" => MP!RowHasFile /\ MP!AnalysedHasEmbedding
    /\ focus = "task_actions" => TM!RowHasItsManifest
    /\ focus = "task_retries" => TR!RowHasItsManifest
    /\ focus = "conversations" => CT!OwnedThreadIsKept
    /\ focus = "two_dispatches" => CW!OwnedThreadIsKept
    /\ focus = "conversations" => CT!OrphanIsRemembered
    /\ focus = "unread_conversations" => CR!OrphanIsRemembered
    /\ focus = "two_dispatches" => CW!OrphanIsRemembered
    /\ focus = "settings" => ST!ActiveFollowsStored /\ ST!UncrossedSavesAreHot /\ ST!FreshStartIsCurrent
    /\ focus = "two_saves" => SX!ActiveFollowsStored /\ SX!UncrossedSavesAreHot /\ SX!FreshStartIsCurrent
    /\ focus = "task_times" => TT!TimingsAddUp
    /\ focus = "legacy_times" => TL!TimingsAddUp

\* What counts as ready rests on what is current: an asset on ready inputs at any distance, narration and
\* subtitles on one synthesis, the stage of a project on its assets, a completed task on everything it was
\* asked for, bound work on the one main conversation unless that was being set aside when it was bound.
CurrentIsSound ==
    /\ focus = "project_scripts" => PA!ReadyRestsOnCurrent /\ PA!OneNarration /\ PA!StageFollowsAssets
    /\ focus = "project_drafts" => PD!ReadyRestsOnCurrent /\ PD!OneNarration /\ PD!StageFollowsAssets
    /\ focus = "project_chain" => PC!ReadyRestsOnCurrent /\ PC!OneNarration /\ PC!StageFollowsAssets
    /\ focus = "project_keywords" => PK!ReadyRestsOnCurrent /\ PK!OneNarration /\ PK!StageFollowsAssets
    /\ focus = "task_actions" => TM!CompletedDelivered
    /\ focus = "task_retries" => TR!CompletedDelivered
    /\ focus = "conversations" => CT!BoundWorkStaysOnMain
    /\ focus = "unread_conversations" => CR!BoundWorkStaysOnMain
    /\ focus = "two_dispatches" => CW!BoundWorkStaysOnMain

\* A plan is whole and keeps the rules it is checked by later: no agent of a graph is left out, no word, rune or
\* second of a narration is lost or shown twice, no clip is shown longer than it is, nothing repeats while
\* something else is free, and sounds and captions keep their distance.
PlansAreSound ==
    /\ focus = "workflow_graphs" => RW!EveryAgentHasItsWave /\ RW!SnapshotIsValid
    /\ focus = "scene_timing" => SC!SlideshowAlwaysPlans /\ SC!NoImageFlashesBy /\ SC!VideoScenesFit
    /\ focus = "plan_reply" => PL!CardsAreTheScript /\ PL!EveryCutIsAccepted
    /\ focus = "montage_plan" => MO!PlanCoversNarration /\ MO!RepeatsOnlyWhenSpent /\ MO!ShotIsShownOnce /\ MO!SlotsKeepTheirPace /\ MO!WindowsFit /\ MO!PoolIsSpread
    /\ focus = "montage_overlays" => OV!LinesAreTheSentence /\ OV!CaptionsKeepTheirPlace /\ OV!SoundsPassValidation
    /\ focus = "caption_lines" => CA!CaptionsAreTheWords /\ CA!FragmentsHaveNoPlace /\ CA!LongLineHasReason

\* What was settled stays so: a closed project is opened by its operator alone, an analysed shot stays analysed,
\* and the first end of a phase is kept.
EndsStand ==
    [][ /\ focus = "project_scripts" => PA!LeavesClosedByMove
        /\ focus = "project_drafts" => PD!LeavesClosedByMove
        /\ focus = "project_chain" => PC!LeavesClosedByMove
        /\ focus = "project_keywords" => PK!LeavesClosedByMove
        /\ focus = "media_catalog" => MC!KeepsAnalysed
        /\ focus = "media_images" => MI!KeepsAnalysed
        /\ focus = "media_pack" => MP!KeepsAnalysed
        /\ focus = "task_times" => TT!KeepsEnds
        /\ focus = "legacy_times" => TL!KeepsEnds]_vars
==============================================================================

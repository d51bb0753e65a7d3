---------------------------- MODULE MediaCatalog ----------------------------
(***************************************************************************)
(* The media library of one process: the originals on disk, catalog.db, one *)
(* build (ingest, probe, analysis), one import and one merge of a pack at a *)
(* time, which interleave, and retries of a source.  mediacatalog/,         *)
(* app/media_catalog_service.go, catalogbuilder/.                           *)
(*                                                                         *)
(* A content stands for its SHA-256, its file and its path.  A video has    *)
(* Scenes scenes with Frames keyframes each, an image one shot without      *)
(* keyframes.  The crash of the process is possible between any two         *)
(* transactions; writes of one job row that only its own next writer reads  *)
(* are taken together.                                                      *)
(***************************************************************************)
EXTENDS Naturals, FiniteSets

CONSTANTS Videos, Images,
          External,     \* the contents that an import takes from a provider
          Pack,         \* the videos of the pack that may be merged, analysed there
          Scenes, Frames, Workers,
          MaxBuilds, MaxRetries, MaxCrashes,
          MaxFaults     \* bound on failing probes, analyses and expired builds

Contents == Videos \cup Images
Shots == Contents \X (1..Scenes)

VARIABLES disk,         \* originals that are there
          source,       \* media_sources.status, "none" before the row
          rights,       \* sources with a media_rights row
          job,          \* media_jobs.status by content: image_shot or probe
          shots,        \* rows of media_shots
          frames,       \* the number of media_keyframes rows of a shot
          analysis,     \* media_shots.analysis_status
          embedded,     \* shots with an embedding
          build, import, merge,
          builds, retries, crashes, faults

vars == <<disk, source, rights, job, shots, frames, analysis, embedded,
          build, import, merge, builds, retries, crashes, faults>>
catalog == <<source, rights, job, shots, frames, analysis, embedded>>
bounds == <<builds, retries, crashes, faults>>

Free == [st |-> "free", shot |-> <<>>]
NoBuild == [pc |-> "idle", todo |-> {}, at |-> "none", n |-> 0,
            worker |-> [w \in Workers |-> Free], expired |-> FALSE]
NoImport == [pc |-> "idle", at |-> "none"]
NoMerge == [pc |-> "idle", todo |-> {}, at |-> "none", n |-> 0]

Init == /\ disk \in SUBSET (Contents \ External)
        /\ source = [c \in Contents |-> "none"] /\ rights = {}
        /\ job = [c \in Contents |-> "none"] /\ shots = {}
        /\ frames = [s \in Shots |-> 0] /\ analysis = [s \in Shots |-> "pending"] /\ embedded = {}
        /\ build = NoBuild /\ import = NoImport /\ merge = NoMerge
        /\ builds = 0 /\ retries = 0 /\ crashes = 0 /\ faults = 0

ShotsOf(c) == {s \in shots : s[1] = c}

\* UpsertSource: a row that is there is left as it is.
UpsertSource(c) ==
    source' = [source EXCEPT ![c] = IF @ # "none" THEN @ ELSE IF c \in Images THEN "ready" ELSE "pending_probe"]

---------------------------------------------------------------------------
(* The build: the single indexing job of the service.                      *)

BuildAt(pc) == build.pc = pc
GoTo(pc) == build' = [build EXCEPT !.pc = pc]

StartIndex ==
    /\ BuildAt("idle") /\ builds < MaxBuilds /\ builds' = builds + 1
    /\ build' = [NoBuild EXCEPT !.pc = "walk", !.todo = disk]
    /\ UNCHANGED <<disk, catalog, import, merge, retries, crashes, faults>>

\* RetrySource requeues a source, and starts a build if none is under way.
RetrySource(c) ==
    /\ source[c] # "none" /\ retries < MaxRetries /\ retries' = retries + 1
    /\ source' = [source EXCEPT ![c] = "pending_probe"]
    /\ build' = IF BuildAt("idle") THEN [NoBuild EXCEPT !.pc = "walk", !.todo = disk] ELSE build
    /\ UNCHANGED <<disk, rights, job, shots, frames, analysis, embedded, import, merge, builds, crashes, faults>>

\* Indexer.Run
Walk ==
    /\ BuildAt("walk")
    /\ IF build.todo = {} THEN GoTo("list")
       ELSE \E c \in build.todo : build' = [build EXCEPT !.pc = "row", !.at = c, !.todo = @ \ {c}]
    /\ UNCHANGED <<disk, catalog, import, merge, bounds>>

IndexRow ==
    /\ BuildAt("row") /\ UpsertSource(build.at) /\ GoTo("jobs")
    /\ UNCHANGED <<disk, rights, job, shots, frames, analysis, embedded, import, merge, bounds>>

\* A video gets its probe job; an image its shot, unless its job completed.
IndexJobs ==
    LET c == build.at
    IN /\ BuildAt("jobs")
       /\ job' = [job EXCEPT ![c] = IF c \in Videos /\ @ = "none" THEN "pending"
                                    ELSE IF c \in Images /\ @ # "completed" THEN "running" ELSE @]
       /\ GoTo(IF c \in Images /\ job[c] # "completed" THEN "shot" ELSE "walk")
       /\ UNCHANGED <<disk, source, rights, shots, frames, analysis, embedded, import, merge, bounds>>

IndexImage ==
    LET c == build.at
    IN /\ \/ BuildAt("shot") /\ shots' = shots \cup {<<c, 1>>} /\ GoTo("mark") /\ UNCHANGED <<source, job>>
          \/ BuildAt("mark") /\ source' = [source EXCEPT ![c] = "ready"] /\ GoTo("done") /\ UNCHANGED <<shots, job>>
          \/ BuildAt("done") /\ job' = [job EXCEPT ![c] = "completed"] /\ GoTo("walk") /\ UNCHANGED <<shots, source>>
       /\ UNCHANGED <<disk, rights, frames, analysis, embedded, import, merge, bounds>>

\* SourcesWithIncompleteProbe
ListProbes ==
    /\ BuildAt("list")
    /\ build' = [build EXCEPT !.pc = "next", !.todo = {c \in Videos : job[c] \notin {"none", "completed"}}]
    /\ UNCHANGED <<disk, catalog, import, merge, bounds>>

\* Without incomplete probes, or after the last one, the shots to analyse.
NextProbe ==
    /\ BuildAt("next")
    /\ IF build.todo = {} THEN build' = [build EXCEPT !.pc = "analyze", !.todo = {s \in shots : analysis[s] # "completed"}]
       ELSE \E c \in build.todo :
               build' = [build EXCEPT !.todo = @ \ {c}, !.at = c, !.pc = IF job[c] = "completed" THEN "next" ELSE "probe"]
    /\ UNCHANGED <<disk, catalog, import, merge, bounds>>

\* StartJob, ffprobe; the scenes are cut only if the source has no shot yet.
ProbeSource ==
    LET c == build.at
    IN /\ BuildAt("probe")
       /\ job' = [job EXCEPT ![c] = "running"]
       /\ GoTo(IF ShotsOf(c) = {} THEN "cut" ELSE "frames")
       /\ UNCHANGED <<disk, source, rights, shots, frames, analysis, embedded, import, merge, bounds>>

NextScene(c) == CHOOSE n \in 1..(Scenes + 1) : <<c, n>> \notin shots /\ \A k \in 1..(n - 1) : <<c, k>> \in shots

\* InsertShot, one transaction for every scene
CutScene ==
    LET c == build.at
    IN /\ BuildAt("cut")
       /\ IF NextScene(c) > Scenes THEN GoTo("frames") /\ shots' = shots
          ELSE shots' = shots \cup {<<c, NextScene(c)>>} /\ build' = build
       /\ UNCHANGED <<disk, source, rights, job, frames, analysis, embedded, import, merge, bounds>>

\* extractShotKeyframes: a shot that already has some is skipped.
ExtractFrame ==
    LET c == build.at
        bare == {s \in ShotsOf(c) : frames[s] = 0}
    IN /\ BuildAt("frames")
       /\ IF bare = {} THEN GoTo("ready") /\ frames' = frames
          ELSE \E s \in bare : frames' = [frames EXCEPT ![s] = 1] /\ build' = [build EXCEPT !.pc = "more", !.n = s[2]]
       /\ UNCHANGED <<disk, source, rights, job, shots, analysis, embedded, import, merge, bounds>>

MoreFrames ==
    LET s == <<build.at, build.n>>
    IN /\ BuildAt("more")
       /\ IF frames[s] < Frames THEN frames' = [frames EXCEPT ![s] = @ + 1] /\ build' = build
          ELSE frames' = frames /\ GoTo("frames")
       /\ UNCHANGED <<disk, source, rights, job, shots, analysis, embedded, import, merge, bounds>>

\* The source is ready first, the job completed after.
FinishProbe ==
    LET c == build.at
    IN /\ \/ BuildAt("ready") /\ source' = [source EXCEPT ![c] = "ready"] /\ GoTo("close") /\ job' = job
          \/ BuildAt("close") /\ job' = [job EXCEPT ![c] = "completed"] /\ GoTo("next") /\ source' = source
       /\ UNCHANGED <<disk, rights, shots, frames, analysis, embedded, import, merge, bounds>>

\* Any step of processSource may fail: the job first, then the source.
ProbeFails ==
    LET c == build.at
    IN /\ \/ /\ build.pc \in {"probe", "cut", "frames", "more"} /\ faults < MaxFaults
             /\ faults' = faults + 1
             /\ job' = [job EXCEPT ![c] = "failed"] /\ GoTo("failed")
             /\ source' = source
          \/ /\ BuildAt("failed") /\ source' = [source EXCEPT ![c] = "failed"] /\ GoTo("next")
             /\ UNCHANGED <<job, faults>>
       /\ UNCHANGED <<disk, rights, shots, frames, analysis, embedded, import, merge, builds, retries, crashes>>

---------------------------------------------------------------------------
(* AnalysisRunner.Run: one sender, and workers that take shots from it.    *)

Worker(w, st) == build' = [build EXCEPT !.worker[w].st = st]
Busy(w) == build.worker[w].st \in {"seen", "stored"}

\* A shot without keyframes is skipped; a worker that is handed a shot after
\* the build expired ends, and the sender then sees the expiry.
TakeShot(w) ==
    /\ BuildAt("analyze") /\ build.worker[w].st = "free"
    /\ \E s \in build.todo :
          build' = IF build.expired THEN [build EXCEPT !.todo = {}, !.worker[w].st = "gone"]
                   ELSE [build EXCEPT !.todo = @ \ {s},
                            !.worker[w] = IF frames[s] = 0 THEN Free ELSE [st |-> "seen", shot |-> s]]
    /\ UNCHANGED <<disk, catalog, import, merge, bounds>>

StoreCompletedFirst(w) ==
    LET s == build.worker[w].shot
    IN /\ BuildAt("analyze") /\ Busy(w) /\ frames[s] >= 2
       /\ IF build.worker[w].st = "seen"
          THEN analysis' = [analysis EXCEPT ![s] = "completed"] /\ Worker(w, "stored") /\ embedded' = embedded
          ELSE embedded' = embedded \cup {s} /\ Worker(w, "free") /\ analysis' = analysis
       /\ UNCHANGED <<disk, source, rights, job, shots, frames, import, merge, bounds>>

\* The embedding first, and the mark that the analysis is complete last.
StoreAnalysis(w) ==
    LET s == build.worker[w].shot
    IN /\ BuildAt("analyze") /\ Busy(w) /\ frames[s] >= 2
       /\ IF build.worker[w].st = "seen"
          THEN embedded' = embedded \cup {s} /\ Worker(w, "stored") /\ analysis' = analysis
          ELSE analysis' = [analysis EXCEPT ![s] = "completed"] /\ Worker(w, "free") /\ embedded' = embedded
       /\ UNCHANGED <<disk, source, rights, job, shots, frames, import, merge, bounds>>

MarkAnyFailed(s) == analysis' = [analysis EXCEPT ![s] = "failed"]

\* MarkShotAnalysisFailed never downgrades a completed shot.
MarkFailed(s) == analysis' = [analysis EXCEPT ![s] = IF @ = "completed" THEN @ ELSE "failed"]

AnalysisRequeues(w) ==
    LET s == build.worker[w].shot
    IN /\ BuildAt("analyze") /\ Busy(w)
       /\ \/ frames[s] < 2 /\ faults' = faults
          \/ build.expired /\ faults' = faults
          \/ faults < MaxFaults /\ faults' = faults + 1
       /\ build' = [build EXCEPT !.worker[w] = Free, !.todo = @ \cup {s}] /\ MarkFailed(s)
       /\ UNCHANGED <<disk, source, rights, job, shots, frames, embedded, import, merge, builds, retries, crashes>>

\* Too few keyframes, or the model or the transaction failed; a worker whose
\* build has expired ends with the error.
AnalysisFails(w) ==
    LET s == build.worker[w].shot
    IN /\ BuildAt("analyze") /\ Busy(w)
       /\ \/ frames[s] < 2 /\ faults' = faults
          \/ build.expired /\ faults' = faults
          \/ faults < MaxFaults /\ faults' = faults + 1
       /\ IF build.expired THEN Worker(w, "gone") /\ analysis' = analysis ELSE Worker(w, "free") /\ MarkFailed(s)
       /\ UNCHANGED <<disk, source, rights, job, shots, frames, embedded, import, merge, builds, retries, crashes>>

\* The timeout of the build.  The sender looks at it before it offers a shot,
\* and may then be blocked with the shot it has in hand.
Expire ==
    /\ BuildAt("analyze") /\ ~build.expired /\ faults < MaxFaults /\ faults' = faults + 1
    /\ build' = [build EXCEPT !.expired = TRUE]
    /\ UNCHANGED <<disk, catalog, import, merge, builds, retries, crashes>>

\* Every shot was sent and every worker is back; lastRunError is set or reset.
EndBuild ==
    /\ BuildAt("analyze") /\ build.todo = {} /\ \A w \in Workers : ~Busy(w)
    /\ build' = NoBuild
    /\ UNCHANGED <<disk, catalog, import, merge, bounds>>

---------------------------------------------------------------------------
(* Importer.Import, one at a time under its mutex.                         *)

ImportTo(pc) == import' = [import EXCEPT !.pc = pc]

\* A content that is in the catalog is returned as it is.
BeginImport ==
    /\ import.pc = "idle"
    /\ \E c \in External : source[c] = "none" /\ import' = [pc |-> "file", at |-> c]
    /\ UNCHANGED <<disk, catalog, build, merge, bounds>>

RowBeforeFile ==
    /\ import.pc = "file" /\ UpsertSource(import.at) /\ ImportTo("row") /\ disk' = disk
    /\ UNCHANGED <<rights, job, shots, frames, analysis, embedded, build, merge, bounds>>

\* writeAtomically
WriteFile ==
    /\ import.pc = "file" /\ disk' = disk \cup {import.at} /\ ImportTo("row")
    /\ UNCHANGED <<catalog, build, merge, bounds>>

ImportRow ==
    /\ import.pc = "row" /\ UpsertSource(import.at) /\ ImportTo("rights")
    /\ UNCHANGED <<disk, rights, job, shots, frames, analysis, embedded, build, merge, bounds>>

ImportRights ==
    /\ import.pc = "rights" /\ rights' = rights \cup {import.at} /\ ImportTo("jobs")
    /\ UNCHANGED <<disk, source, job, shots, frames, analysis, embedded, build, merge, bounds>>

\* registerJobs, with the shot of an image in the same way as the indexer.
ImportJobs ==
    LET c == import.at
    IN /\ \/ /\ import.pc = "jobs" /\ c \in Videos
             /\ job' = [job EXCEPT ![c] = IF @ = "none" THEN "pending" ELSE @]
             /\ import' = NoImport /\ shots' = shots
          \/ /\ import.pc = "jobs" /\ c \in Images
             /\ job' = [job EXCEPT ![c] = IF @ = "completed" THEN @ ELSE "running"]
             /\ (IF job[c] = "completed" THEN import' = NoImport ELSE ImportTo("shot")) /\ shots' = shots
          \/ /\ import.pc = "shot" /\ shots' = shots \cup {<<c, 1>>} /\ ImportTo("close") /\ job' = job
          \/ /\ import.pc = "close" /\ job' = [job EXCEPT ![c] = "completed"]
             /\ import' = NoImport /\ shots' = shots
       /\ UNCHANGED <<disk, source, rights, frames, analysis, embedded, build, merge, bounds>>

---------------------------------------------------------------------------
(* MergePack, source by source; a video that has a shot already is skipped. *)

BeginMerge ==
    /\ merge.pc = "idle" /\ Pack # {} /\ BuildAt("idle")
    /\ merge' = [NoMerge EXCEPT !.pc = "source", !.todo = Pack]
    /\ UNCHANGED <<disk, catalog, build, import, bounds>>

MergeSource ==
    /\ merge.pc = "source"
    /\ IF merge.todo = {} THEN merge' = NoMerge /\ source' = source
       ELSE \E c \in merge.todo :
               IF ShotsOf(c) # {} THEN merge' = [merge EXCEPT !.todo = @ \ {c}] /\ source' = source
               ELSE /\ source' = [source EXCEPT ![c] = "ready"]
                    /\ merge' = [merge EXCEPT !.todo = @ \ {c}, !.pc = "shot", !.at = c, !.n = 1]
    /\ UNCHANGED <<disk, rights, job, shots, frames, analysis, embedded, build, import, bounds>>

\* ensureLocalShot takes the shot of the same ordinal if it has come since.
MergeShot ==
    /\ merge.pc = "shot"
    /\ shots' = shots \cup {<<merge.at, merge.n>>} /\ merge' = [merge EXCEPT !.pc = "payload"]
    /\ UNCHANGED <<disk, source, rights, job, frames, analysis, embedded, build, import, bounds>>

\* copyShotPayload and copyShotKeyframes
MergePayload ==
    LET s == <<merge.at, merge.n>>
    IN /\ \/ merge.pc = "payload" /\ analysis' = [analysis EXCEPT ![s] = "completed"]
             /\ merge' = [merge EXCEPT !.pc = "vector"] /\ UNCHANGED <<embedded, frames, job>>
          \/ merge.pc = "vector" /\ embedded' = embedded \cup {s}
             /\ merge' = [merge EXCEPT !.pc = "frames"] /\ UNCHANGED <<analysis, frames, job>>
          \/ merge.pc = "frames" /\ frames' = [frames EXCEPT ![s] = IF @ > 0 THEN @ ELSE Frames]
             /\ merge' = [merge EXCEPT !.pc = IF merge.n < Scenes THEN "shot" ELSE "jobs",
                                       !.n = IF merge.n < Scenes THEN @ + 1 ELSE 0]
             /\ UNCHANGED <<analysis, embedded, job>>
          \/ merge.pc = "jobs" /\ job' = [job EXCEPT ![merge.at] = "completed"]
             /\ merge' = [merge EXCEPT !.pc = "source", !.at = "none"] /\ UNCHANGED <<analysis, embedded, frames>>
       /\ UNCHANGED <<disk, source, rights, shots, build, import, bounds>>

Crash ==
    /\ crashes < MaxCrashes /\ crashes' = crashes + 1
    /\ build' = NoBuild /\ import' = NoImport /\ merge' = NoMerge
    /\ UNCHANGED <<disk, catalog, builds, retries, faults>>

BuildStep ==
    \/ Walk \/ IndexRow \/ IndexJobs \/ IndexImage \/ ListProbes \/ NextProbe
    \/ ProbeSource \/ CutScene \/ ExtractFrame \/ MoreFrames \/ FinishProbe \/ ProbeFails
    \/ (\E w \in Workers : TakeShot(w) \/ StoreAnalysis(w) \/ AnalysisFails(w)) \/ EndBuild
ImportStep == WriteFile \/ ImportRow \/ ImportRights \/ ImportJobs
MergeStep == MergeSource \/ MergeShot \/ MergePayload

Next == \/ StartIndex \/ (\E c \in Contents : RetrySource(c)) \/ BuildStep \/ Expire
        \/ BeginImport \/ ImportStep \/ BeginMerge \/ MergeStep \/ Crash

Spec == Init /\ [][Next]_vars
FairSpec == Spec /\ WF_vars(BuildStep) /\ WF_vars(ImportStep) /\ WF_vars(MergeStep)

---------------------------------------------------------------------------
TypeOK ==
    /\ disk \subseteq Contents /\ rights \subseteq Contents /\ shots \subseteq Shots /\ embedded \subseteq Shots
    /\ \A c \in Contents : /\ source[c] \in {"none", "pending_probe", "ready", "failed"}
                           /\ job[c] \in {"none", "pending", "running", "completed", "failed"}
    /\ \A s \in Shots : frames[s] <= Frames /\ analysis[s] \in {"pending", "completed", "failed"}

\* A shot counts as analysed only with the embedding that recall needs, in
\* whatever order builds, crashes and retries come; the shots of the pack,
\* whose payload is copied in the opposite order, are excepted.
AnalysedHasEmbedding ==
    \A s \in shots : analysis[s] = "completed" /\ s[1] \notin Pack => s \in embedded

\* A catalogued original is on disk: the file comes before its row.
RowHasFile == \A c \in Contents \ Pack : source[c] # "none" => c \in disk

\* An analysed shot stays analysed, whatever a concurrent or later build
\* finds when it tries it again.
KeepsAnalysed == \A s \in Shots : analysis[s] = "completed" => analysis'[s] = "completed"
AnalysedStays == [][KeepsAnalysed]_vars

\* An indexing job that neither expires nor fails ends, and the next can start.
Building == build.pc # "idle" /\ ~build.expired
BuildEnds == Building ~> ~Building

\* A completed probe is not half-finished: all scenes and all their keyframes.
NeverHalfFinished ==
    \A c \in Videos \ Pack : job[c] = "completed" =>
        \A n \in 1..Scenes : <<c, n>> \in shots /\ frames[<<c, n>>] = Frames

\* A source that waits for its probe has a job that a build will take up.
RequeuedIsProbed ==
    build.pc = "idle" /\ merge.pc = "idle" => \A c \in Videos : source[c] = "pending_probe" => job[c] # "completed"
=============================================================================

--------------------------- MODULE ProjectAssets ---------------------------
(***************************************************************************)
(* One project: its stage, its asset versions with their dependencies, and *)
(* the files of the managed directory.  Uploads, narration, agent tasks,   *)
(* montage registrations, stage moves, publication and deletion are the    *)
(* calls of concurrent requests (Actors); each is cut where the code       *)
(* leaves one database transaction or file operation for the next.         *)
(* store/assets_v2.go, store/projects.go, assets/service.go,               *)
(* httpapi/projects.go, httpapi/narration.go, codex/runner.go.             *)
(*                                                                         *)
(* The account background is taken as present, and the directories of      *)
(* tasks, which no reconciliation enters, are not modelled: a version      *)
(* written by a task has file 0.                                           *)
(***************************************************************************)
EXTENDS Naturals, Sequences, FiniteSets

CONSTANTS Types,        \* the asset types of the instance
          Actors,       \* the requests that may be in progress together
          Seeded,       \* the types uploaded before the modelled requests, in order
          MaxVersions,  \* bound on the versions ever recorded
          MaxOps,       \* bound on the requests ever made
          MaxFaults     \* bound on restarts and commits of unknown outcome

VARIABLES stage,        \* projects.stage, "deleted" once the row is gone
          versions,     \* asset_versions, in the order they were recorded
          current,      \* asset_items.current_version_id, 0 for none
          files,        \* the managed files on disk
          act,          \* what each request has read and still has to do
          narrating,    \* narrationHandler.inFlight
          ops, faults, saves,
          excused       \* stage updates and files given up (see the actions)

vars == <<stage, versions, current, files, act, narrating, ops, faults, saves, excused>>

Lanes == <<"script", "assets", "mixing", "review">>

\* productionStageOrder; "archived" and "deleted" have no place in it.
Order(s) == CASE s = "script" -> 0 [] s = "assets" -> 1 [] s = "mixing" -> 2
              [] s = "review" -> 3 [] s = "published" -> 4 [] OTHER -> 9

\* domain.invalidates: the types that a new version of a type makes stale.
Invalidates(t) ==
    LET mixed == {"mix_draft", "final_video"}
        spoken == {"narration", "word_timing", "subtitle_srt"}
    IN CASE t \in {"source_script", "topic_card"} ->
               {"continuous_script", "spoken_script", "caption_keywords"} \cup spoken \cup mixed
         [] t = "continuous_script" -> {"spoken_script", "caption_keywords"} \cup spoken \cup mixed
         [] t = "spoken_script" -> {"caption_keywords"} \cup spoken \cup mixed
         [] t = "narration" -> {"word_timing", "subtitle_srt"} \cup mixed
         [] t \in {"caption_keywords", "word_timing", "subtitle_srt", "account_background"} -> mixed
         [] t = "mix_draft" -> {"final_video"}
         [] OTHER -> {}

IsCurrent(v) == v \in {current[t] : t \in Types}
ReadyCurrent(t) == current[t] # 0 /\ versions[current[t]].state = "ready"

\* Does a version depend on v, directly or through other versions?
DependsOn(v) ==
    LET affected[w \in DOMAIN versions] ==
            \E d \in versions[w].deps : d = v \/ affected[d]
    IN {w \in DOMAIN versions : affected[w]}

DirectlyDependsOn(v) == {w \in DOMAIN versions : v \in versions[w].deps}

AddVersionDirectOnly(t, deps, reads, file, source) ==
    LET old == current[t]
        stale == IF old = 0 THEN {} ELSE DirectlyDependsOn(old)
    IN /\ current' = [current EXCEPT ![t] = Len(versions) + 1]
       /\ versions' = Append([w \in DOMAIN versions |->
                                IF w \in stale /\ IsCurrent(w) /\ w # old
                                THEN [versions[w] EXCEPT !.state = "stale"] ELSE versions[w]],
                             [type |-> t, deps |-> deps, state |-> "ready", reads |-> reads,
                              file |-> file, source |-> source,
                              late |-> {d \in deps : ~IsCurrent(d) \/ versions[d].state # "ready"}])

\* addVersion: the new version becomes current and what depended on the one
\* it replaces becomes stale, as far as it is current itself.
AddVersion(t, deps, reads, file, source) ==
    LET new == Len(versions) + 1
        old == current[t]
        stale == IF old = 0 THEN {} ELSE DependsOn(old)
        late == {d \in deps : ~IsCurrent(d) \/ versions[d].state # "ready"}
    IN /\ current' = [current EXCEPT ![t] = new]
       /\ versions' = Append([w \in DOMAIN versions |->
                                IF w \in stale /\ IsCurrent(w) /\ w # old
                                THEN [versions[w] EXCEPT !.state = "stale"] ELSE versions[w]],
                             [type |-> t, deps |-> deps, state |-> "ready",
                              reads |-> reads, file |-> file, source |-> source, late |-> late])

Recorded == IF stage = "deleted" THEN {} ELSE {versions[v].file : v \in DOMAIN versions} \ {0}

Idle == [op |-> "none", pc |-> "idle", todo |-> <<>>, inputs |-> {}, file |-> 0,
         seen |-> "", goal |-> "", id |-> 0]

Begin(a, op, pc, todo, inputs) ==
    /\ act[a].pc = "idle" /\ stage # "deleted" /\ ops < MaxOps
    /\ ops' = ops + 1
    /\ act' = [act EXCEPT ![a] = [Idle EXCEPT !.op = op, !.pc = pc, !.todo = todo,
                                              !.inputs = inputs, !.id = ops + 1]]

Finish(a) == act' = [act EXCEPT ![a] = Idle]
To(a, pc) == act' = [act EXCEPT ![a].pc = pc]

---------------------------------------------------------------------------
(* Uploads and narration: save a file, record it, then move the stage.     *)

Uploadable == {"source_script", "continuous_script", "spoken_script", "caption_keywords",
               "narration", "subtitle_srt", "mix_draft", "final_video"}

BeginUpload(a) ==
    /\ \E t \in Uploadable \cap Types : Begin(a, "upload", "save", <<t>>, {})
    /\ UNCHANGED <<stage, versions, current, files, narrating, faults, saves, excused>>

\* uploadTopicCardVersion: the ready card that was read is the parent.
BeginCard(a) ==
    /\ "topic_card" \in Types /\ ReadyCurrent("topic_card")
    /\ Begin(a, "card", "save", <<"topic_card">>, {current["topic_card"]})
    /\ UNCHANGED <<stage, versions, current, files, narrating, faults, saves, excused>>

NarrationOutputs == SelectSeq(<<"narration", "subtitle_srt", "word_timing">>, LAMBDA t : t \in Types)

BeginNarrationUnlocked(a) ==
    /\ {"continuous_script", "spoken_script", "narration", "subtitle_srt"} \subseteq Types
    /\ ReadyCurrent("continuous_script") /\ ReadyCurrent("spoken_script")
    /\ Begin(a, "narrate", "save", NarrationOutputs, {})
    /\ narrating' = narrating \cup {a}
    /\ UNCHANGED <<stage, versions, current, files, faults, saves, excused>>

\* narrationHandler.create: one synthesis per project, from both scripts.
BeginNarration(a) ==
    /\ narrating = {}
    /\ {"continuous_script", "spoken_script", "narration", "subtitle_srt"} \subseteq Types
    /\ ReadyCurrent("continuous_script") /\ ReadyCurrent("spoken_script")
    /\ Begin(a, "narrate", "save", NarrationOutputs, {})
    /\ narrating' = {a}
    /\ UNCHANGED <<stage, versions, current, files, faults, saves, excused>>

\* A request that ends before its sync leaves the stage of what it recorded,
\* and a narration that ends half way its parts, as they are.
GiveUp(a) ==
    /\ Finish(a)
    /\ narrating' = narrating \ {a}
    /\ excused' = [excused EXCEPT !.stage = @ \/ act[a].op = "narrate",
                                  !.pair = @ \/ act[a].op = "narrate"]

\* saveProjectAsset: the bytes are checked under a temporary name, then renamed.
Save(a) ==
    /\ act[a].pc = "save"
    /\ saves' = saves + 1
    /\ files' = files \cup {saves + 1}
    /\ act' = [act EXCEPT ![a].pc = "add", ![a].file = saves + 1]
    /\ UNCHANGED <<stage, versions, current, narrating, ops, faults, excused>>

SaveFails(a) ==
    /\ act[a].pc = "save" /\ GiveUp(a)
    /\ UNCHANGED <<stage, versions, current, files, ops, faults, saves>>

\* The project may be gone, and UpgradeTopicCard compares the parent.
Refused(a) == \/ stage = "deleted"
              \/ act[a].op = "card" /\ ~IsCurrent(CHOOSE v \in act[a].inputs : TRUE)

Add(a) ==
    LET t == Head(act[a].todo)
        rest == Tail(act[a].todo)
    IN /\ act[a].pc = "add" /\ ~Refused(a) /\ Len(versions) < MaxVersions
       /\ AddVersion(t, {}, {}, act[a].file, act[a].id)
       /\ IF act[a].op = "card" THEN Finish(a)
          ELSE act' = [act EXCEPT ![a].pc = IF rest = <<>> THEN "sync" ELSE "save",
                                  ![a].todo = rest]
       /\ excused' = [excused EXCEPT !.pair = @ \/ (act[a].op = "upload" /\ t \in {"narration", "subtitle_srt"})]
       /\ UNCHANGED <<stage, files, narrating, ops, faults, saves>>

\* The transaction is known not to have committed: the file is removed.
AddRefused(a) ==
    /\ act[a].pc = "add" /\ Refused(a)
    /\ files' = files \ {act[a].file}
    /\ GiveUp(a)
    /\ UNCHANGED <<stage, versions, current, ops, faults, saves>>

AddUnknownRemoves(a) ==
    /\ act[a].pc = "add" /\ ~Refused(a) /\ faults < MaxFaults /\ Len(versions) < MaxVersions
    /\ faults' = faults + 1
    /\ Finish(a) /\ narrating' = narrating \ {a}
    /\ files' = files \ {act[a].file}
    /\ \/ AddVersion(Head(act[a].todo), {}, {}, act[a].file, act[a].id)
       \/ UNCHANGED <<versions, current>>
    /\ excused' = [excused EXCEPT !.stage = TRUE, !.pair = TRUE]
    /\ UNCHANGED <<stage, ops, saves>>

\* CommitUnknown: the version may or may not be there, so the file stays.
AddUnknown(a) ==
    /\ act[a].pc = "add" /\ ~Refused(a) /\ faults < MaxFaults /\ Len(versions) < MaxVersions
    /\ faults' = faults + 1
    /\ Finish(a) /\ narrating' = narrating \ {a}
    /\ \/ /\ AddVersion(Head(act[a].todo), {}, {}, act[a].file, act[a].id)
          /\ excused' = [excused EXCEPT !.stage = TRUE, !.pair = TRUE]
       \/ /\ UNCHANGED <<versions, current>>
          /\ excused' = [excused EXCEPT !.stage = TRUE, !.pair = TRUE, !.files = @ \cup {act[a].file}]
    /\ UNCHANGED <<stage, files, ops, saves>>

---------------------------------------------------------------------------
(* SyncStageFromAssets: read the project, read its assets, compare and set. *)

Done(a) == Finish(a) /\ narrating' = narrating \ {a}

SyncReadProject(a) ==
    /\ act[a].pc = "sync"
    /\ IF stage \in {"deleted", "archived", "published"} THEN Done(a)
       ELSE act' = [act EXCEPT ![a].pc = "ready", ![a].seen = stage] /\ UNCHANGED narrating
    /\ UNCHANGED <<stage, versions, current, files, ops, faults, saves, excused>>

HasReady(t) == t \in Types /\ ReadyCurrent(t)

SyncTarget ==
    IF HasReady("mix_draft") \/ HasReady("final_video") THEN "review"
    ELSE IF HasReady("narration") /\ HasReady("subtitle_srt") THEN "mixing"
    ELSE IF HasReady("continuous_script") /\ HasReady("spoken_script") THEN "assets"
    ELSE "script"

SyncReadAssets(a) ==
    /\ act[a].pc = "ready"
    /\ IF stage = "deleted" \/ Order(SyncTarget) <= Order(act[a].seen) THEN Done(a)
       ELSE act' = [act EXCEPT ![a].pc = "set", ![a].goal = SyncTarget] /\ UNCHANGED narrating
    /\ UNCHANGED <<stage, versions, current, files, ops, faults, saves, excused>>

SyncSetOnce(a) ==
    /\ act[a].pc = "set" /\ Done(a)
    /\ stage' = IF stage = act[a].seen THEN act[a].goal ELSE stage
    /\ UNCHANGED <<versions, current, files, ops, faults, saves, excused>>

SyncSetBlindly(a) ==
    /\ act[a].pc = "set" /\ Done(a)
    /\ stage' = IF stage = "deleted" THEN stage ELSE act[a].goal
    /\ UNCHANGED <<versions, current, files, ops, faults, saves, excused>>

SyncSet(a) ==
    /\ act[a].pc = "set"
    /\ IF stage = act[a].seen THEN stage' = act[a].goal /\ Done(a)
       ELSE To(a, "sync") /\ UNCHANGED <<stage, narrating>>
    /\ UNCHANGED <<versions, current, files, ops, faults, saves, excused>>

---------------------------------------------------------------------------
(* Agent tasks: the manifest fixes the inputs, the result is compared with *)
(* them in one transaction and recorded in a later one.                    *)

\* manifestInputs: what a task that writes a type must read, and may read.
Required(t) == CASE t = "continuous_script" -> {"topic_card"}
                 [] t = "spoken_script" -> {"continuous_script"}
                 [] t = "caption_keywords" -> {"spoken_script"}
                 [] t = "mix_draft" -> {"continuous_script", "narration", "subtitle_srt"}
                 [] OTHER -> {}
Optional(t) == IF t = "mix_draft" THEN {"word_timing", "caption_keywords"} ELSE {}

BeginTask(a) ==
    /\ \E t \in {"topic_card", "continuous_script", "spoken_script", "caption_keywords", "mix_draft"} \cap Types :
          /\ Required(t) \subseteq Types
          /\ \A r \in Required(t) : ReadyCurrent(r)
          /\ LET reads == Required(t) \cup {o \in Optional(t) \cap Types : ReadyCurrent(o)}
             IN Begin(a, "task", "run", <<t>>, {current[r] : r \in reads})
    /\ UNCHANGED <<stage, versions, current, files, narrating, faults, saves, excused>>

TaskFails(a) ==
    /\ act[a].pc = "run" /\ Finish(a)
    /\ UNCHANGED <<stage, versions, current, files, narrating, ops, faults, saves, excused>>

\* ensureManifestInputsCurrent, otherwise the task fails as input_superseded.
CheckInputs(a) ==
    /\ act[a].pc = "run"
    /\ IF \A i \in act[a].inputs : IsCurrent(i) THEN To(a, "commit") ELSE Finish(a)
    /\ UNCHANGED <<stage, versions, current, files, narrating, ops, faults, saves, excused>>

\* CompleteWithResult with manifestDependencies; the sync follows.
CommitTask(a) ==
    LET t == Head(act[a].todo)
    IN /\ act[a].pc = "commit" /\ t # "mix_draft" /\ Len(versions) < MaxVersions
       /\ AddVersion(t, {i \in act[a].inputs : t \in Invalidates(versions[i].type)}, act[a].inputs, 0, act[a].id)
       /\ To(a, "sync")
       /\ UNCHANGED <<stage, files, narrating, ops, faults, saves, excused>>

\* MontageRepository.Succeed: the draft has no dependencies, and the stage
\* moves in the same transaction.
CommitMix(a) ==
    /\ act[a].pc = "commit" /\ Head(act[a].todo) = "mix_draft" /\ Len(versions) < MaxVersions
    /\ AddVersion("mix_draft", {}, act[a].inputs, 0, act[a].id)
    /\ stage' = IF stage \in {"script", "assets", "mixing"} THEN "review" ELSE stage
    /\ Finish(a)
    /\ UNCHANGED <<files, narrating, ops, faults, saves, excused>>

---------------------------------------------------------------------------
(* Moving, publishing and deleting the project.                            *)

\* domain.CanMove, from whatever versions there are, stale ones included.
CanMove(from, to) ==
    LET available == {versions[v].type : v \in DOMAIN versions}
    IN /\ from # "archived" \/ to = "archived"
       /\ \/ to = "archived"
          \/ from = to
          \/ /\ Order(to) <= Order(from) + 1
             /\ from = "assets" /\ to = "mixing" =>
                   {"continuous_script", "narration", "subtitle_srt"} \subseteq available

BeginMove(a) ==
    /\ \E to \in {"script", "assets", "mixing", "review", "published", "archived"} :
          /\ to # stage /\ CanMove(stage, to)
          /\ act[a].pc = "idle" /\ stage # "deleted" /\ ops < MaxOps /\ ops' = ops + 1
          /\ act' = [act EXCEPT ![a] = [Idle EXCEPT !.op = "move", !.pc = "move",
                                                    !.seen = stage, !.goal = to]]
    /\ UNCHANGED <<stage, versions, current, files, narrating, faults, saves, excused>>

\* MoveProject: compare and set, or project_stage_conflict.
CommitMove(a) ==
    /\ act[a].pc = "move" /\ Finish(a)
    /\ IF stage = act[a].seen
       THEN /\ stage' = act[a].goal
            /\ excused' = [excused EXCEPT !.stage = @ \/ Order(act[a].goal) < Order(act[a].seen)]
       ELSE UNCHANGED <<stage, excused>>
    /\ UNCHANGED <<versions, current, files, narrating, ops, faults, saves>>

PublishProject ==
    /\ stage = "review" /\ stage' = "published"
    /\ UNCHANGED <<versions, current, files, act, narrating, ops, faults, saves, excused>>

\* DeleteProject refuses while a task is active; narration and uploads are not tasks.
BeginDelete(a) ==
    /\ \A b \in Actors : act[b].op = "task" => act[b].pc \notin {"run", "commit"}
    /\ Begin(a, "delete", "wipe", <<>>, {})
    /\ stage' = "deleted"
    /\ UNCHANGED <<versions, current, files, narrating, faults, saves, excused>>

\* DeleteProjectData
Wipe(a) ==
    /\ act[a].pc = "wipe" /\ Finish(a)
    /\ files' = {}
    /\ UNCHANGED <<stage, versions, current, narrating, ops, faults, saves, excused>>

ReconcileNothing == files' = files

\* A restart drops every request; ReconcileProjectAssets runs before serving.
ReconcileProjectAssets == files' = files \cap Recorded

Restart ==
    /\ faults < MaxFaults /\ faults' = faults + 1
    /\ act' = [a \in Actors |-> Idle] /\ narrating' = {}
    /\ ReconcileProjectAssets
    /\ excused' = [stage |-> TRUE, pair |-> TRUE, files |-> {}]
    /\ UNCHANGED <<stage, versions, current, ops, saves>>

\* A project whose Seeded assets were uploaded one after the other.
Init == /\ versions = [i \in DOMAIN Seeded |-> [type |-> Seeded[i], deps |-> {}, state |-> "ready",
                                               reads |-> {}, file |-> i, source |-> 0, late |-> {}]]
        /\ current = [t \in Types |-> IF \E i \in DOMAIN Seeded : Seeded[i] = t
                                      THEN CHOOSE i \in DOMAIN Seeded : Seeded[i] = t ELSE 0]
        /\ stage = SyncTarget
        /\ files = DOMAIN Seeded /\ saves = Len(Seeded)
        /\ act = [a \in Actors |-> Idle] /\ narrating = {}
        /\ ops = 0 /\ faults = 0
        /\ excused = [stage |-> FALSE, pair |-> FALSE, files |-> {}]

Next == \/ \E a \in Actors :
              \/ BeginUpload(a) \/ BeginCard(a) \/ BeginNarration(a)
              \/ Save(a) \/ SaveFails(a) \/ Add(a) \/ AddRefused(a) \/ AddUnknown(a)
              \/ SyncReadProject(a) \/ SyncReadAssets(a) \/ SyncSet(a)
              \/ BeginTask(a) \/ TaskFails(a) \/ CheckInputs(a) \/ CommitTask(a) \/ CommitMix(a)
              \/ BeginMove(a) \/ CommitMove(a) \/ BeginDelete(a) \/ Wipe(a)
        \/ PublishProject \/ Restart

Spec == Init /\ [][Next]_vars

---------------------------------------------------------------------------
(* Types and values.                                                       *)
TypeOK ==
    /\ stage \in {"script", "assets", "mixing", "review", "published", "archived", "deleted"}
    /\ Len(versions) <= MaxVersions
    /\ \A v \in DOMAIN versions : /\ versions[v].type \in Types
                                  /\ versions[v].deps \subseteq 1..(v - 1)
                                  /\ versions[v].state \in {"ready", "stale"}
    /\ \A t \in Types : current[t] # 0 => versions[current[t]].type = t
    /\ files \subseteq 1..saves /\ narrating \subseteq Actors

\* Every recorded version has its file, and every other file belongs to a
\* request in progress, to a deletion that has yet to empty the directory, or
\* to a commit whose outcome was unknown; a restart clears the last.
FilesMatchRecords ==
    /\ Recorded \subseteq files
    /\ files \subseteq Recorded \cup excused.files
                       \cup {act[a].file : a \in {b \in Actors : act[b].pc = "add"}}
                       \cup (IF \E a \in Actors : act[a].pc = "wipe" THEN 1..saves ELSE {})

\* The stage is at least what the ready assets allow once every request that
\* recorded one has synchronised, however the requests overlapped; a move
\* back, a restart and a narration given up half way excuse it.
StageFollowsAssets ==
    /\ stage \in {"script", "assets", "mixing", "review"}
    /\ ~excused.stage
    /\ \A a \in Actors : act[a].pc \notin {"sync", "ready", "set"} /\ act[a].op # "narrate"
    => Order(stage) >= Order(SyncTarget)

\* A project that was archived or published is taken out of that stage by
\* the operator's move alone, never by a sync that read it before.
LeavesClosedByMove ==
    (stage \in {"archived", "published"} /\ stage' # stage) =>
       (stage' = "deleted" \/ \E a \in Actors : act[a].pc = "move" /\ act'[a].pc = "idle")
ClosedStaysClosed == [][LeavesClosedByMove]_vars

\* A ready current version rests on current, ready ones, whatever was replaced
\* since and at any distance: except for the inputs that were replaced or stale
\* already when it was recorded (late), which the runner does not look at then.
ReadyRestsOnCurrent ==
    \A t \in Types : ReadyCurrent(t) =>
        \A d \in versions[current[t]].deps \ versions[current[t]].late :
            IsCurrent(d) /\ versions[d].state = "ready"

\* Narration and subtitles that no upload replaced come from one synthesis.
OneNarration ==
    /\ ~excused.pair /\ narrating = {} /\ {"narration", "subtitle_srt"} \subseteq Types
    /\ current["narration"] # 0 /\ current["subtitle_srt"] # 0
    => versions[current["narration"]].source = versions[current["subtitle_srt"]].source

\* A result whose inputs were replaced is rejected, not recorded: what
\* TestRunnerRejectsCompletionWhenManifestInputWasSuperseded says of it.
SupersededInputsRejected ==
    [][\A a \in Actors : (act[a].pc = "commit" /\ current' # current /\ act'[a].pc # "commit")
          => \A i \in act[a].inputs : IsCurrent(i)]_vars

\* Saving new caption keywords makes the mix draft that was made with the
\* ones they replace stale.
KeywordsInvalidateDrafts ==
    [][({"caption_keywords", "mix_draft"} \subseteq Types
        /\ current["caption_keywords"] # current'["caption_keywords"]
        /\ ReadyCurrent("mix_draft")
        /\ current["caption_keywords"] \in versions[current["mix_draft"]].reads)
       => versions'[current["mix_draft"]].state = "stale"]_vars
=============================================================================

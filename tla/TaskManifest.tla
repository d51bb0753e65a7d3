---------------------------- MODULE TaskManifest ----------------------------
(***************************************************************************)
(* How a task of one project comes to be and what its result must be:      *)
(* httpapi/tasks.go (create), httpapi/task_preparation.go and              *)
(* httpapi/task_manifest.go prepare it, codex/manifest.go builds and       *)
(* publishes its manifest, store/tasks.go enters it as a queued row, and   *)
(* codex/result_validator.go judges what comes back.  A request reads the  *)
(* active tasks, the settings and the current versions one after another;  *)
(* the manifest is a file and the row is in the database, and the client   *)
(* or the console may be gone between the two.  A task of a workflow step  *)
(* has an identity of its own, so its preparation is repeated.             *)
(***************************************************************************)
EXTENDS Naturals, FiniteSets, Sequences, TLC

CONSTANTS Actions,      \* the actions requested in this instance
          Callers, Models,
          Absences,     \* sets of asset types a project may be without
          MaxTasks, MaxChanges, MaxLosses

BoundsAssumption == {MaxTasks, MaxChanges, MaxLosses} \subseteq Nat

VARIABLES assets,       \* the current version of every type: its number, is it ready?
          settings,     \* which settings and skill snapshot a manifest would freeze
          files,        \* task_manifest.json of every task
          rows,         \* codex_tasks
          calls,        \* the requests being served
          changes, losses

vars == <<assets, settings, files, rows, calls, changes, losses>>

---------------------------------------------------------------------------
(* The tables of the protocol                                              *)

Remixes == {"remix.standard", "remix.enhanced", "remix.from_topic_card", "remix.review"}
Topics == {"topic.commit", "topic.deepen"}
Montages == {"montage.plan", "montage.execute"}

Types == {"source_script", "topic_card", "continuous_script", "spoken_script", "caption_keywords",
          "narration", "subtitle_srt", "word_timing", "account_background"}

MontageTypes == {"continuous_script", "narration", "word_timing", "subtitle_srt", "caption_keywords", "account_background"}

Roles(a) == CASE a = "topic.deepen" -> "topic_card" :> "topic_card"
              [] a \in {"remix.standard", "remix.enhanced"} -> "source_script" :> "primary_source"
              [] a = "remix.from_topic_card" -> "topic_card" :> "topic_brief"
              [] a = "remix.spoken_lines" -> "continuous_script" :> "continuous_script"
              [] a = "remix.caption_keywords" -> "spoken_script" :> "spoken_script"
              [] a = "remix.review" -> [t \in {"source_script", "continuous_script"} |-> "review_target"]
              [] a \in Montages -> [t \in MontageTypes |-> t]
              [] OTHER -> [t \in {} |-> t]

RequiredRoles(a) == CASE a \in {"remix.standard", "remix.enhanced"} -> {"primary_source"}
                      [] a = "remix.from_topic_card" -> {"topic_brief"}
                      [] a = "remix.spoken_lines" -> {"continuous_script"}
                      [] a = "remix.caption_keywords" -> {"spoken_script"}
                      [] a \in Montages -> MontageTypes \ {"word_timing", "caption_keywords"}
                      [] OTHER -> {}

RequiredOutputs(a) == CASE a = "topic.brainstorm" -> {"topic_candidates"}
                        [] a \in Topics -> {"topic_card"}
                        [] a \in Remixes -> {"continuous_script"}
                        [] a = "remix.spoken_lines" -> {"spoken_script"}
                        [] a = "remix.caption_keywords" -> {"caption_keywords"}
                        [] a = "montage.plan" -> {"production_plan"}
                        [] a = "montage.execute" -> {"production_plan", "plaintext_workspace"}

PlanArtifacts == {"production_plan", "qc_report", "execution_timings"}

\* One of the artifacts that are alike stands for them.
AllowedArtifacts(a) == CASE a = "topic.brainstorm" -> {"topic_candidates"}
                         [] a \in Topics -> {"topic_card"}
                         [] a \in Remixes -> {"publishing_package"}
                         [] a = "montage.plan" -> PlanArtifacts
                         [] a = "montage.execute" -> PlanArtifacts \cup {"plaintext_workspace"}
                         [] OTHER -> {}

AllowedAssets(a) == CASE a \in Remixes -> {"continuous_script"}
                      [] a = "remix.spoken_lines" -> {"spoken_script"}
                      [] a = "remix.caption_keywords" -> {"caption_keywords"}
                      [] a \in Montages -> {"word_timing"}
                      [] OTHER -> {}

---------------------------------------------------------------------------
(* Building a manifest                                                     *)

Ready(held) == {t \in Types : held[t].ready}

\* manifestInputs: what the action needs, and what it takes when it is there.
Needed(a, ready) ==
    CASE a \in {"remix.standard", "remix.enhanced"} -> {"source_script"}
      [] a \in {"remix.from_topic_card", "topic.deepen"} -> {"topic_card"}
      [] a = "remix.spoken_lines" -> {"continuous_script"}
      [] a = "remix.caption_keywords" -> {"spoken_script"}
      [] a \in Montages -> {"continuous_script", "narration", "subtitle_srt", "account_background"}
      [] OTHER -> {}

\* A review takes the script, or the source in its place when there is no script at all.
Taken(a, held) ==
    LET ready == Ready(held)
    IN CASE a = "remix.review" ->
              (IF held["continuous_script"].v # 0 THEN {"continuous_script"} ELSE {"source_script"})
                \cup ({"source_script"} \cap ready)
         [] a \in Montages -> Needed(a, ready) \cup ({"word_timing", "caption_keywords"} \cap ready)
         [] OTHER -> Needed(a, ready)

NoManifest == [action |-> "none"]

\* The values of the request that belong to the action are present or not.
Build(a, values, held, gen) ==
    [action |-> a, values |-> values, gen |-> gen, outputs |-> RequiredOutputs(a),
     inputs |-> {[type |-> t, role |-> Roles(a)[t], v |-> held[t].v] : t \in Taken(a, held)},
     engineering |-> IF a = "topic.commit" /\ values THEN {"topic_candidates"} ELSE {}]

Buildable(a, values, held) ==
    /\ Taken(a, held) \subseteq Ready(held)
    /\ Taken(a, held) \subseteq DOMAIN Roles(a)
    /\ RequiredRoles(a) \subseteq {Roles(a)[t] : t \in Taken(a, held)}
    /\ a \in Topics \cup Montages \cup {"topic.brainstorm"} => values
    /\ a = "topic.deepen" => Taken(a, held) = {"topic_card"}

---------------------------------------------------------------------------
(* Results                                                                 *)

Output == <<"output">>
Cards == <<"vault", "cards">>
Places == {<<"output", "a">>, <<"output", "a", "b">>, <<"vault", "cards", "c">>}

Inside(root, p) == Len(root) <= Len(p) /\ SubSeq(p, 1, Len(root)) = root
Overlap(p, q) == Inside(p, q) \/ Inside(q, p)

\* An entry is sound when what it names is of the kind its type asks for and
\* its sizes, sums and receipts are those of the content.
Entries(types) == [type : types, path : Places, sound : BOOLEAN]

Envelopes(a) ==
    [status : {"completed", "awaiting_input", "failed"}, questions : BOOLEAN,
     artifacts : {s \in SUBSET Entries(AllowedArtifacts(a) \ {"qc_report", "execution_timings"}) : Cardinality(s) <= 2},
     assets : {s \in SUBSET Entries(AllowedAssets(a)) : Cardinality(s) <= 1}]

ArtifactAccepted(a, e) == /\ e.type \in AllowedArtifacts(a) /\ e.sound
                          /\ Inside(IF e.type = "topic_card" THEN Cards ELSE Output, e.path)

AssetAccepted(a, e, artifacts) == /\ e.type \in AllowedAssets(a) /\ e.sound /\ Inside(Output, e.path)
                                  /\ \A x \in artifacts : ~Overlap(e.path, x.path)

\* ValidateResultEnvelopeWithRoots
WellFormed(a, e) ==
    /\ e.questions <=> e.status = "awaiting_input"
    /\ e.status # "completed" => e.assets = {}
    /\ \A x \in e.artifacts : ArtifactAccepted(a, x)
    /\ \A x \in e.assets : AssetAccepted(a, x, e.artifacts)

Delivered(e) == {x.type : x \in e.artifacts \cup e.assets}

\* The outputs of the manifest are not looked for.
AcceptedAsIs(m, e) == WellFormed(m.action, e)

\* ValidateResultEnvelopeAgainstManifest
Accepted(m, e) == /\ WellFormed(m.action, e)
                  /\ e.status = "completed" => m.outputs \subseteq Delivered(e)

---------------------------------------------------------------------------
(* Requests                                                                *)

Ids == 0..MaxTasks               \* 0 is the task of a workflow step
NoRow == [status |-> "none", action |-> "none", model |-> "none", manifest |-> NoManifest,
          admitted |-> FALSE, delivered |-> {}]
Idle == [pc |-> "idle", id |-> 0, action |-> "none", model |-> "none", values |-> FALSE,
         gen |-> 0, manifest |-> NoManifest]

Active == {"queued", "running", "awaiting_input"}
Live(a) == {i \in Ids : rows[i].action = a /\ rows[i].status \in Active}
Single == {"remix.spoken_lines", "remix.caption_keywords"}

Init ==
    \E absent \in Absences :
       /\ assets = [t \in Types |-> [v |-> IF t \in absent THEN 0 ELSE 1, ready |-> t \notin absent]]
       /\ settings = 1 /\ files = [i \in Ids |-> NoManifest] /\ rows = [i \in Ids |-> NoRow]
       /\ calls = [c \in Callers |-> Idle] /\ changes = 0 /\ losses = 0

Set(c, r) == calls' = [calls EXCEPT ![c] = r]

Used == {i \in Ids : rows[i] # NoRow \/ files[i] # NoManifest \/ \E c \in Callers : calls[c].pc # "idle" /\ calls[c].id = i}

\* create: an active task of the action is the answer, or refuses a remix of
\* the same model; then the task gets an identity.
Create(c, a, m, values) ==
    /\ calls[c].pc = "idle"
    /\ a \in Single => Live(a) = {}
    /\ a = "remix.standard" => \A i \in Live(a) : rows[i].model # m
    /\ \E i \in 1..MaxTasks : /\ i \notin Used /\ \A j \in 1..(i - 1) : j \in Used
                              /\ Set(c, [Idle EXCEPT !.pc = "settings", !.id = i, !.action = a, !.model = m, !.values = values])
    /\ UNCHANGED <<assets, settings, files, rows, changes, losses>>

\* Launch: the remix of a workflow, under the coordinator's mutex.  A row that
\* is queued and prepared is published again, an unprepared identity is prepared.
Launch(c, m) ==
    LET call == [Idle EXCEPT !.action = "remix.from_topic_card", !.model = m, !.values = TRUE]
    IN /\ calls[c].pc = "idle" /\ "remix.from_topic_card" \in Actions
       /\ \A d \in Callers : calls[d].pc = "idle" \/ calls[d].id # 0
       /\ \/ rows[0] = NoRow /\ Set(c, [call EXCEPT !.pc = "settings"])
          \/ rows[0].status = "queued" /\ ~rows[0].admitted /\ Set(c, [call EXCEPT !.pc = "enqueue"])
       /\ UNCHANGED <<assets, settings, files, rows, changes, losses>>

\* Prepare: the runtime settings and the skill snapshot first ...
ReadSettings(c) ==
    /\ calls[c].pc = "settings"
    /\ Set(c, [calls[c] EXCEPT !.pc = "inputs", !.gen = settings])
    /\ UNCHANGED <<assets, settings, files, rows, changes, losses>>

\* persistPreparationFailure: the task is entered, or overwritten, as failed.
PreparationFails(c) ==
    LET r == calls[c]
    IN /\ rows' = [rows EXCEPT ![r.id] = [(IF @ = NoRow THEN [NoRow EXCEPT !.action = r.action, !.model = r.model] ELSE @)
                                          EXCEPT !.status = "failed"]]
       /\ Set(c, Idle)

\* ... then the current versions, from which the manifest is built.
ReadInputs(c) ==
    LET r == calls[c]
    IN /\ r.pc = "inputs"
       /\ IF Buildable(r.action, r.values, assets)
          THEN /\ Set(c, [r EXCEPT !.pc = "write", !.manifest = Build(r.action, r.values, assets, r.gen)])
               /\ UNCHANGED rows
          ELSE PreparationFails(c)
       /\ UNCHANGED <<assets, settings, files, changes, losses>>

\* A manifest that is there already is taken for this one.
WriteOnce(c) ==
    LET r == calls[c]
    IN /\ r.pc = "write"
       /\ files' = [files EXCEPT ![r.id] = IF @ = NoManifest THEN r.manifest ELSE @]
       /\ Set(c, [r EXCEPT !.pc = "row"])
       /\ UNCHANGED <<assets, settings, rows, changes, losses>>

\* WriteManifest: linked to its name once, whole; the same manifest is taken
\* as it is and another one is refused.
WriteManifest(c) ==
    LET r == calls[c]
    IN /\ r.pc = "write"
       /\ IF files[r.id] \in {NoManifest, r.manifest}
          THEN /\ files' = [files EXCEPT ![r.id] = r.manifest]
               /\ Set(c, [r EXCEPT !.pc = "row"]) /\ UNCHANGED rows
          ELSE PreparationFails(c) /\ UNCHANGED files
       /\ UNCHANGED <<assets, settings, changes, losses>>

\* EnsurePreparedTaskAt: a queued row, which the scheduler may take from now on.
EnsurePreparedTask(c) ==
    LET r == calls[c]
    IN /\ r.pc = "row"
       /\ rows' = [rows EXCEPT ![r.id] = [NoRow EXCEPT !.status = "queued", !.action = r.action,
                                                       !.model = r.model, !.manifest = r.manifest]]
       /\ Set(c, [r EXCEPT !.pc = "enqueue"])
       /\ UNCHANGED <<assets, settings, files, changes, losses>>

\* Enqueue: admission records when the row was queued, if it still is.
Enqueue(c) ==
    LET r == calls[c]
    IN /\ r.pc = "enqueue" /\ Set(c, Idle)
       /\ rows' = IF rows[r.id].status = "queued" THEN [rows EXCEPT ![r.id].admitted = TRUE] ELSE rows
       /\ UNCHANGED <<assets, settings, files, changes, losses>>

\* The client hangs up or the console ends: nothing more is written, not even
\* that the preparation failed.
Lose(c) ==
    /\ calls[c].pc # "idle" /\ losses < MaxLosses /\ losses' = losses + 1
    /\ Set(c, Idle)
    /\ UNCHANGED <<assets, settings, files, rows, changes>>

---------------------------------------------------------------------------
(* What happens meanwhile                                                  *)

\* A new version of a type becomes current, or a version is invalidated.
ChangeAsset(t) ==
    /\ changes < MaxChanges /\ changes' = changes + 1 /\ assets[t].v # 0
    /\ \/ assets' = [assets EXCEPT ![t] = [v |-> @.v + 1, ready |-> TRUE]]
       \/ assets[t].ready /\ assets' = [assets EXCEPT ![t].ready = FALSE]
    /\ UNCHANGED <<settings, files, rows, calls, losses>>

ChangeSettings ==
    /\ changes < MaxChanges /\ changes' = changes + 1 /\ settings' = settings + 1
    /\ UNCHANGED <<assets, files, rows, calls, losses>>

\* The scheduler takes any queued row, admitted or not.
Run(i) ==
    /\ rows[i].status = "queued" /\ rows' = [rows EXCEPT ![i].status = "running"]
    /\ UNCHANGED <<assets, settings, files, calls, changes, losses>>

\* The runner reads the manifest again and judges the result by it.
Finish(i) ==
    /\ rows[i].status = "running"
    /\ \/ \E e \in Envelopes(rows[i].action) :
             /\ Accepted(files[i], e)
             /\ rows' = [rows EXCEPT ![i].status = e.status, ![i].delivered = IF e.status = "completed" THEN Delivered(e) ELSE {}]
       \/ rows' = [rows EXCEPT ![i].status = "failed"]
    /\ UNCHANGED <<assets, settings, files, calls, changes, losses>>

Answer(i) ==
    /\ rows[i].status = "awaiting_input" /\ rows' = [rows EXCEPT ![i].status = "queued"]
    /\ UNCHANGED <<assets, settings, files, calls, changes, losses>>

Next ==
    \/ \E c \in Callers :
          \/ \E a \in Actions, m \in Models, values \in BOOLEAN : Create(c, a, m, values)
          \/ \E m \in Models : Launch(c, m)
          \/ ReadSettings(c) \/ ReadInputs(c) \/ WriteManifest(c) \/ EnsurePreparedTask(c) \/ Enqueue(c) \/ Lose(c)
    \/ \E t \in Types : ChangeAsset(t)
    \/ ChangeSettings
    \/ \E i \in Ids : Run(i) \/ Finish(i) \/ Answer(i)

Spec == Init /\ [][Next]_vars

---------------------------------------------------------------------------
(* Properties                                                              *)

\* Rows, calls and files have the shapes the code gives them.
TypeOK ==
    /\ assets \in [Types -> [v : 0..(MaxChanges + 1), ready : BOOLEAN]]
    /\ settings \in 1..(MaxChanges + 1)
    /\ \A i \in Ids : /\ rows[i].status \in {"none", "failed", "completed"} \cup Active
                      /\ files[i] # NoManifest => files[i].action \in Actions
    /\ \A c \in Callers : calls[c].pc \in {"idle", "settings", "inputs", "write", "row", "enqueue"}

\* A task that was prepared has the very manifest it was prepared from, for as
\* long as it lives: its prompt, its inputs and the check of its result agree
\* although the file and the row are written apart (WriteManifest, Prepare).
RowHasItsManifest == \A i \in Ids : rows[i].manifest # NoManifest => files[i] = rows[i].manifest

\* A completed task delivered everything its manifest asked for
\* (ValidateResultEnvelopeAgainstManifest).
CompletedDelivered == \A i \in Ids : rows[i].status = "completed" => rows[i].manifest.outputs \subseteq rows[i].delivered

\* "a live remix only blocks a new one when it uses the same model": two live
\* remixes never share a model (create).
OneRemixPerModel == \A i, j \in Live("remix.standard") : rows[i].model = rows[j].model => i = j

\* "AdmitQueuedTask atomically makes a queued task visible together with its
\* queue boundary": nothing runs that was not admitted (EnsurePreparedTaskAt).
RunWasAdmitted == \A i \in Ids : rows[i].status = "running" => rows[i].admitted
=============================================================================

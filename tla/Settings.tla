------------------------------ MODULE Settings ------------------------------
(* The settings service (internal/settings/service.go) over its two tables   *)
(* (internal/store/settings.go): what is stored, what the running console    *)
(* goes by (its active snapshot, taken once at start), and the saves that    *)
(* commit to the one and then apply some of it to the other, without a lock  *)
(* over both.                                                                *)
(*                                                                           *)
(* The sixty public fields are six here, one for each way the code treats a  *)
(* field: `model` is applied at once, `voice` is applied at once, has a      *)
(* default when it is empty and is never a reason to restart, `root` and     *)
(* `index` (which must lie in a root) wait for a restart, `ffmpeg` names a   *)
(* program that has to be there and is cleared at start when it is not, and  *)
(* `codex` names the program Codex Desktop replaces when it updates itself.  *)
(* Of the secrets, "voice" is applied at once and "other" at the next start. *)
EXTENDS Naturals, FiniteSets

CONSTANTS Callers,      \* requests that may be saving at the same time
          Models,       \* names of models
          Binaries,     \* paths the Codex program has been installed at
          MaxSaves,     \* bound: saves
          MaxRestarts,  \* bound: restarts of the console
          MaxChanges    \* bound: programs that come, go or move

None == "none"
DefaultVoice == "default voice"
Placeholder == "codex"
SecretKeys == {"voice", "other"}

VARIABLES stored,     \* the public settings, as publicFromValues reads them
          version,    \* settings_version: 0 before the first save
          secrets,    \* [SecretKeys -> [version, value]], version 0 for no row
          sealed,     \* the secrets this machine cannot decrypt
          active,     \* the snapshot of the running console
          installed,  \* where the Codex program is
          ffmpegThere,\* whether the file ffmpeg_path names exists
          callers,    \* the saves in progress
          crossed,    \* a save was stored, since the start, while another was still being applied
          saves, restarts, changes, fresh
vars == <<stored, version, secrets, sealed, active, installed, ffmpegThere, callers, crossed, saves, restarts, changes, fresh>>

Values == [model |-> Models, voice |-> {"", DefaultVoice, "own voice"}, root |-> {"", "r"}, index |-> {"", "in r"},
           ffmpeg |-> {"", "f"}, codex |-> {"", Placeholder} \cup Binaries]
Fields == {"model", "voice", "root", "index", "ffmpeg", "codex"}
Idle == [pc |-> "idle", public |-> None, given |-> {}, number |-> 0]

-----------------------------------------------------------------------------
(* What the operations compute.                                              *)

(* publicValues: an empty voice is stored as the default one.                *)
withDefaults(p) == [p EXCEPT !.voice = IF @ = "" THEN DefaultVoice ELSE @]

optionalMediaBinaryUsable(path) == path = "" \/ ffmpegThere
validatePublic(p) == /\ p.index # "" => p.root # ""
                     /\ optionalMediaBinaryUsable(p.ffmpeg)
                     /\ p.codex # Placeholder        \* not an absolute path

(* A PUT names some fields; the others are taken from what is stored.        *)
OverlayPublic(base, raw) == [f \in Fields |-> IF f \in DOMAIN raw THEN raw[f] ELSE base[f]]

NoSecret == [version |-> 0, value |-> 0]   \* ErrSecretNotFound
Configured == {k \in SecretKeys : secrets[k] # NoSecret}
Readable == Configured \ sealed

(* A mutant of Saved: a row that is there keeps its version.                  *)
SavedInPlace(keys, n) == [k \in SecretKeys |-> IF k \in keys THEN [version |-> 1, value |-> n] ELSE secrets[k]]
Saved(keys, n) == [k \in SecretKeys |-> IF k \in keys THEN [version |-> secrets[k].version + 1, value |-> n] ELSE secrets[k]]

(* What a start reads: the public settings and the secrets it can decrypt.   *)
secretValue(k) == IF k \in Readable THEN secrets[k] ELSE NoSecret
Snapshot(p) == [public |-> p, key |-> [k \in SecretKeys |-> secretValue(k).value],
                version |-> [k \in SecretKeys |-> secretValue(k).version]]

restartSensitiveChanged(p, q) == [p EXCEPT !.voice = ""] # [q EXCEPT !.voice = ""]
RestartRequired == \/ restartSensitiveChanged(stored, active.public)
                   \/ active.version # [k \in SecretKeys |-> secrets[k].version]

-----------------------------------------------------------------------------
(* The start of the console: the boot settings, the repair of a Codex path   *)
(* that is gone, and the snapshot. Nothing else runs meanwhile.              *)

NeverSaved == version = 0
InitializeBoot == IF stored.codex = "" \/ (stored.codex = Placeholder /\ NeverSaved)
                    THEN [stored EXCEPT !.codex = installed] ELSE stored
RepairedCodex(p) == [p EXCEPT !.codex = installed]
RepairIsSaved(p) == p.codex # installed /\ validatePublic(RepairedCodex(p))
AfterRepair(p) == IF RepairIsSaved(p) THEN RepairedCodex(p) ELSE p
clearMissingOptionalBinaries(p) == IF optionalMediaBinaryUsable(p.ffmpeg) THEN p ELSE [p EXCEPT !.ffmpeg = ""]
Relative(p) == IF p.codex = Placeholder THEN [p EXCEPT !.codex = ""] ELSE p

(* A mutant of Boot: the cleared path is used and not stored.                *)
BootUnsaved ==
  LET repaired == AfterRepair(InitializeBoot)
      cleared == clearMissingOptionalBinaries(Relative(repaired))
  IN /\ validatePublic(cleared)
     /\ stored' = repaired
     /\ version' = version + (IF RepairIsSaved(InitializeBoot) THEN 1 ELSE 0)
     /\ active' = Snapshot(cleared)
Boot ==
  LET repaired == AfterRepair(InitializeBoot)
      cleared == clearMissingOptionalBinaries(Relative(repaired))
      saved == ~optionalMediaBinaryUsable(Relative(repaired).ffmpeg)
  IN /\ validatePublic(cleared)
     /\ stored' = IF saved THEN cleared ELSE repaired
     /\ version' = version + (IF RepairIsSaved(InitializeBoot) THEN 1 ELSE 0) + (IF saved THEN 1 ELSE 0)
     /\ active' = Snapshot(cleared)

Restart == /\ restarts < MaxRestarts
           /\ Boot
           /\ restarts' = restarts + 1
           /\ callers' = [c \in Callers |-> Idle]
           /\ fresh' = TRUE /\ crossed' = FALSE
           /\ UNCHANGED <<secrets, sealed, installed, ffmpegThere, saves, changes>>

-----------------------------------------------------------------------------
(* PUT /api/settings.                                                        *)

Steps(c, next) == callers' = [callers EXCEPT ![c] = next]

(* The handler reads the settings its request will be laid over.             *)
PutReads(c, raw, keys) ==
  /\ callers[c].pc = "idle" /\ saves < MaxSaves
  /\ saves' = saves + 1
  /\ Steps(c, [pc |-> "read", public |-> OverlayPublic(stored, raw), given |-> keys, number |-> saves + 1])
  /\ fresh' = FALSE
  /\ UNCHANGED <<stored, version, secrets, sealed, active, installed, ffmpegThere, crossed, restarts, changes>>

(* Update: everything is validated before anything is written, and the public *)
(* settings and the secrets are written in one transaction.                  *)
UpdateAtomic(c) ==
  /\ callers[c].pc = "read"
  /\ LET p == callers[c].public IN
     IF validatePublic(p)
       THEN /\ stored' = withDefaults(p)
            /\ version' = version + 1
            /\ secrets' = Saved(callers[c].given, callers[c].number)
            /\ sealed' = sealed \ callers[c].given
            /\ Steps(c, [callers[c] EXCEPT !.pc = "stored"])
            /\ crossed' = (crossed \/ \E d \in Callers : callers[d].pc \in {"stored", "applied"})
       ELSE /\ Steps(c, Idle)
            /\ UNCHANGED <<stored, version, secrets, sealed, crossed>>
  /\ UNCHANGED <<active, installed, ffmpegThere, saves, restarts, changes, fresh>>

(* applyHotSettings; its mutant forgets the voice.                           *)
HotWithoutVoice(p) == [active EXCEPT !.public.model = p.model]
Hot(p) == [active EXCEPT !.public.model = p.model, !.public.voice = p.voice]
applyHotSettings(c) ==
  /\ callers[c].pc = "stored"
  /\ active' = Hot(callers[c].public)
  /\ Steps(c, [callers[c] EXCEPT !.pc = "applied"])
  /\ UNCHANGED <<stored, version, secrets, sealed, installed, ffmpegThere, crossed, saves, restarts, changes, fresh>>

(* applyHotVoiceSecrets: the value is the request's, the version whatever the *)
(* table holds by now.                                                       *)
applyHotVoiceSecrets(c) ==
  /\ callers[c].pc = "applied"
  /\ active' = IF "voice" \in callers[c].given
                 THEN [active EXCEPT !.key["voice"] = callers[c].number, !.version["voice"] = secrets["voice"].version]
                 ELSE active
  /\ Steps(c, Idle)
  /\ UNCHANGED <<stored, version, secrets, sealed, installed, ffmpegThere, crossed, saves, restarts, changes, fresh>>

-----------------------------------------------------------------------------
(* What happens around the console.                                          *)

CodexMoves == /\ changes < MaxChanges
              /\ \E b \in Binaries \ {installed} : installed' = b
              /\ changes' = changes + 1 /\ fresh' = FALSE
              /\ UNCHANGED <<stored, version, secrets, sealed, active, ffmpegThere, callers, crossed, saves, restarts>>
FFmpegComesOrGoes == /\ changes < MaxChanges
                     /\ ffmpegThere' = ~ffmpegThere
                     /\ changes' = changes + 1 /\ fresh' = FALSE
                     /\ UNCHANGED <<stored, version, secrets, sealed, active, installed, callers, crossed, saves, restarts>>
(* The data is carried to another machine: its keys cannot be decrypted.     *)
SecretsAreSealed == /\ changes < MaxChanges /\ Configured # {}
                    /\ sealed' = Configured
                    /\ changes' = changes + 1 /\ fresh' = FALSE
                    /\ UNCHANGED <<stored, version, secrets, active, installed, ffmpegThere, callers, crossed, saves, restarts>>

Requests == UNION {[{f} -> Values[f]] : f \in Fields} \cup [{"root", "index"} -> {"", "r", "in r"}]
WellTyped(raw) == \A f \in DOMAIN raw : raw[f] \in Values[f]

(* A first start on an empty database, or one the legacy migration seeded.   *)
Init == /\ \E m \in Models, b \in Binaries :
             /\ installed = b
             /\ stored = [model |-> m, voice |-> DefaultVoice, root |-> "", index |-> "", ffmpeg |-> "", codex |-> b]
        /\ active = [public |-> stored, key |-> [k \in SecretKeys |-> 0], version |-> [k \in SecretKeys |-> 0]]
        /\ version = 0 /\ sealed = {} /\ ffmpegThere = TRUE
        /\ secrets = [k \in SecretKeys |-> NoSecret]
        /\ callers = [c \in Callers |-> Idle]
        /\ crossed = FALSE /\ saves = 0 /\ restarts = 0 /\ changes = 0 /\ fresh = TRUE

Next == \/ \E c \in Callers, raw \in {r \in Requests : WellTyped(r)}, keys \in SUBSET SecretKeys : PutReads(c, raw, keys)
        \/ \E c \in Callers : UpdateAtomic(c) \/ applyHotSettings(c) \/ applyHotVoiceSecrets(c)
        \/ Restart \/ CodexMoves \/ FFmpegComesOrGoes \/ SecretsAreSealed
Spec == Init /\ [][Next]_vars

-----------------------------------------------------------------------------
(* Properties.                                                               *)

TypeOK == /\ stored \in [Fields -> UNION {Values[f] : f \in Fields}] /\ \A f \in Fields : stored[f] \in Values[f]
          /\ version \in Nat /\ sealed \subseteq SecretKeys /\ installed \in Binaries /\ ffmpegThere \in BOOLEAN
          /\ secrets \in [SecretKeys -> [version : Nat, value : 0..MaxSaves]]
          /\ active.public \in [Fields -> UNION {Values[f] : f \in Fields}]
          /\ active.key \in [SecretKeys -> 0..MaxSaves] /\ active.version \in [SecretKeys -> Nat]
          /\ \A c \in Callers : callers[c].pc \in {"idle", "read", "stored", "applied"}

Quiet == \A c \in Callers : callers[c].pc = "idle"

(* When no save is under way and the console does not ask for a restart, it  *)
(* goes by what is stored: every setting and every key it uses is the stored *)
(* one, the voice (an empty one stands for the default) and its key as long  *)
(* as no two saves have crossed.                                             *)
ActiveFollowsStored == (Quiet /\ ~RestartRequired)
  => /\ \A f \in Fields \ {"voice"} : active.public[f] = stored[f]
     /\ active.key["other"] = secrets["other"].value
     /\ ~crossed => /\ withDefaults(active.public).voice = stored.voice
                    /\ active.key["voice"] = secrets["voice"].value

(* The voice and the models a task is given never wait for a restart, in     *)
(* whatever order saves read, are refused and are stored, unless one was      *)
(* stored while another was being applied.                                   *)
HotIsInUse == /\ active.public.model = stored.model
              /\ withDefaults(active.public).voice = stored.voice
              /\ "voice" \notin sealed => active.key["voice"] = secrets["voice"].value
UncrossedSavesAreHot == (Quiet /\ ~crossed) => HotIsInUse

(* A console that has just started does not ask to be restarted again, unless *)
(* a secret of another machine is in its way.                                *)
FreshStartIsCurrent == (fresh /\ sealed = {}) => ~RestartRequired

(* Before it takes its snapshot a start repairs a stale Codex path, so that   *)
(* the console uses the program that is installed (cmd/console/main.go).      *)
StartUsesInstalledCodex == fresh => active.public.codex = installed

-----------------------------------------------------------------------------
(* What the repository says of the service.                                  *)

(* Saved, they are in use without a restart (applyHotSettings); so they are  *)
(* not when two saves are applied in another order than they were stored in. *)
(* No run is spent on it.                                                    *)
HotSettingsAreHot == Quiet => HotIsInUse
=============================================================================

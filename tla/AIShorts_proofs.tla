----------------------------- MODULE AIShorts_proofs -----------------------------
(***************************************************************************)
(* Proofs about AIShorts, for all sets of shots and handlers and any       *)
(* number of requests and crashes, and then about ImageProject.            *)
(*                                                                         *)
(* The short and each of its shots have one holder (LockInv), so nobody    *)
(* touches a shot that is worked on; what a shot records of its video is   *)
(* what the provider may still be doing (VideoInv); and a draft is made    *)
(* and marked by those who hold what it shows (DraftInv).                  *)
(***************************************************************************)
EXTENDS AIShorts, NaturalsInduction, WellFoundedInduction, TLAPS

Progress == {"pending", "running", "done", "failed"}
Stages == {"off", "image", "drawing", "mark", "gate", "submit", "send", "save", "wait", "mark2", "end",
           "finish", "unlock"}
Shot == [img : Progress, iv : Nat, stale : BOOLEAN, vid : Progress, vv : Nat, rid : Nat, unc : BOOLEAN]
Work == [at : Stages, own : BOOLEAN, rid : Nat, unc : BOOLEAN, video : BOOLEAN]
Story == [stale : BOOLEAN, needs : SUBSET VideoShots]
Call == [op : Short \cup Regen \cup {"none"}, i : Shots \cup {0}, at : {"idle", "checked", "stored", "held"}]

\* What each variable is.
TypeInv ==
  /\ status \in {"draft", "storyboard", "generating", "ready", "assembling", "assembled", "failed"}
  /\ story \in Story /\ shot \in [Shots -> Shot]
  /\ draft \in [made : BOOLEAN, stale : BOOLEAN, of : [Shots -> Nat \X Nat \X BOOLEAN]]
  /\ busy \in BOOLEAN /\ shotBusy \subseteq Shots
  /\ call \in [Callers -> Call] /\ job \in {"off", "start", "shots", "assembling", "character"}
  /\ work \in [Shots -> Work] /\ open \in [Shots -> BOOLEAN] /\ submits \in [Shots -> Nat]
  /\ requests \in Nat /\ crashes \in Nat

\* A request under way has an operation, and one for a shot its shot.
Asked(r) == r.at # "idle" => r.op \in Short \cup Regen /\ (r.op \in Regen => r.i \in Shots)

\* The requests that have taken the lock of the short, or of a shot.
OfShort(c) == call[c].at \in {"stored", "held"} /\ call[c].op \in Short
OfShot(c) == call[c].at \in {"stored", "held"} /\ call[c].op \in Regen

\* Nobody may work on a single shot.
NoneByItself ==
  /\ \A i \in Shots : ~work[i].own
  /\ \A c \in Callers : ~(call[c].at = "held" /\ call[c].op \in Regen)

\* Each lock has one holder, which is a request or a goroutine; whoever got
\* through holds the short, or shots, while nobody holds the other; and a
\* shot is worked on for the goroutine of the short or for its own request.
OneHolder ==
  /\ \A c \in Callers : OfShort(c) => busy /\ job = "off" /\ \A d \in Callers : OfShort(d) => d = c
  /\ job # "off" => busy
OneHolderOfShot ==
  /\ \A c \in Callers : OfShot(c) => /\ call[c].i \in shotBusy /\ ~work[call[c].i].own
                                     /\ \A d \in Callers : OfShot(d) /\ call[d].i = call[c].i => d = c
  /\ \A i \in Shots : work[i].own => i \in shotBusy
Apart ==
  /\ job # "off" => NoneByItself
  /\ \A c \in Callers : call[c].at = "held" /\ call[c].op \in Short => NoneByItself
Worked(i) ==
  /\ work[i].at = "off" => work[i] = NoWork
  /\ work[i].at \in {"finish", "unlock"} => work[i].own
  /\ work[i].at # "off" /\ ~work[i].own => job = "shots"

LockInv ==
  /\ TypeInv /\ \A c \in Callers : Asked(call[c])
  /\ OneHolder /\ OneHolderOfShot /\ Apart /\ \A i \in Shots : Worked(i)

-----------------------------------------------------------------------------
(* Types                                                                   *)

LEMMA LockInit == Init => LockInv
<1> SUFFICES ASSUME Init PROVE LockInv
  OBVIOUS
<1> USE DEF Init, NoShot, NoDraft, NoCall, NoWork, Progress, Stages, Shot, Work, Story, Call, Short, Regen
<1>1. TypeInv
  BY DEF TypeInv
<1>2. (\A c \in Callers : Asked(call[c])) /\ OneHolder /\ OneHolderOfShot /\ Apart
  BY DEF Asked, OneHolder, OneHolderOfShot, OfShort, OfShot, Apart
<1>3. \A i \in Shots : Worked(i)
  BY DEF Worked
<1> QED
  BY <1>1, <1>2, <1>3 DEF LockInv

\* The record and what is done with it is of its type; so are the locks.
RecordType ==
  /\ status \in {"draft", "storyboard", "generating", "ready", "assembling", "assembled", "failed"}
  /\ story \in Story /\ shot \in [Shots -> Shot]
  /\ draft \in [made : BOOLEAN, stale : BOOLEAN, of : [Shots -> Nat \X Nat \X BOOLEAN]]
LocksType ==
  /\ busy \in BOOLEAN /\ shotBusy \subseteq Shots
  /\ call \in [Callers -> Call] /\ job \in {"off", "start", "shots", "assembling", "character"}
WorkType == work \in [Shots -> Work]
VideoType == open \in [Shots -> BOOLEAN] /\ submits \in [Shots -> Nat]
CountType == requests \in Nat /\ crashes \in Nat

LEMMA TypeParts == TypeInv <=> RecordType /\ LocksType /\ WorkType /\ VideoType /\ CountType
  BY DEF TypeInv, RecordType, LocksType, WorkType, VideoType, CountType

LEMMA TypePartsNext == TypeInv' <=> RecordType' /\ LocksType' /\ WorkType' /\ VideoType' /\ CountType'
  BY DEF TypeInv, RecordType, LocksType, WorkType, VideoType, CountType

\* What an edit or a new timeline makes of the storyboard.
LEMMA StoryType ==
  /\ story \in Story /\ (Retimed \/ Edited) => story' \in Story
  /\ \A V \in SUBSET VideoShots : [stale |-> FALSE, needs |-> V] \in Story
<1>1. ASSUME story \in Story, NEW V \in SUBSET VideoShots PROVE [story EXCEPT !.needs = V] \in Story
  BY <1>1 DEF Story
<1>2. ASSUME story \in Story, NEW b \in BOOLEAN, NEW V \in SUBSET VideoShots
      PROVE  [stale |-> story.stale \/ b, needs |-> V] \in Story
  BY <1>2 DEF Story
<1>3. \A V \in SUBSET VideoShots : [stale |-> FALSE, needs |-> V] \in Story
  BY DEF Story
<1> QED
  BY <1>1, <1>2, <1>3 DEF Retimed, Edited

\* What a step leaves alone stays of its type.
LEMMA TypeFrame ==
  /\ UNCHANGED <<status, story, shot, draft>> /\ RecordType => RecordType'
  /\ UNCHANGED <<busy, shotBusy, call, job>> /\ LocksType => LocksType'
  /\ UNCHANGED work /\ WorkType => WorkType'
  /\ UNCHANGED <<open, submits>> /\ VideoType => VideoType'
  /\ UNCHANGED <<requests, crashes>> /\ CountType => CountType'
  BY DEF RecordType, LocksType, WorkType, VideoType, CountType

LEMMA CallType ==
  ASSUME call \in [Callers -> Call], NEW c \in Callers
  PROVE  /\ Leave(c) => call' \in [Callers -> Call]
         /\ \A at \in {"idle", "checked", "stored", "held"} : Move(c, at) => call' \in [Callers -> Call]
  BY DEF Leave, Move, NoCall, Call

\* The steps of a request before it has what it asked for.
LEMMA RequestType ==
  ASSUME TypeInv, NEW c \in Callers, Asked(call[c]),
         StoreLock(c) \/ Recheck(c) \/ (\E op \in Short : Ask(c, op, 0))
           \/ (\E op \in Regen, i \in Shots : Ask(c, op, i))
  PROVE  TypeInv'
<1> USE TypeParts
<1>1. CASE StoreLock(c) \/ Recheck(c)
  <2>1. UNCHANGED <<status, story, shot, draft, job, work, open, submits, requests, crashes>>
    BY <1>1 DEF StoreLock, Recheck, record, bounds
  <2>2. call' \in [Callers -> Call]
    BY <1>1, CallType DEF StoreLock, Recheck, LocksType
  <2>3. busy' \in BOOLEAN /\ shotBusy' \subseteq Shots
    BY <1>1 DEF StoreLock, Recheck, LocksType, Asked
  <2> QED
    BY <2>1, <2>2, <2>3, TypeFrame, TypePartsNext DEF LocksType
<1>2. ASSUME NEW op \in Short \cup Regen, NEW i \in Shots \cup {0}, Ask(c, op, i) PROVE TypeInv'
  <2>1. UNCHANGED <<status, story, shot, draft, busy, shotBusy, job, work, open, submits, crashes>>
    BY <1>2 DEF Ask, record
  <2>2. call' \in [Callers -> Call] /\ requests' \in Nat
    BY <1>2 DEF Ask, LocksType, CountType, Call
  <2> QED
    BY <2>1, <2>2, TypeFrame, TypePartsNext DEF LocksType, CountType
<1> QED
  BY <1>1, <1>2

\* A step that ends a request: the locks.
LEMMA HeldType ==
  ASSUME TypeInv, NEW c \in Callers, Leave(c),
         busy' \in BOOLEAN, shotBusy' = shotBusy, job' \in {"off", "start", "shots", "assembling", "character"}
  PROVE  LocksType'
  BY TypeParts, CallType DEF LocksType

LEMMA HandlingType ==
  ASSUME TypeInv, NEW c \in Callers, Handling(c), Asked(call[c])
  PROVE  TypeInv'
<1> USE TypeParts, TypePartsNext, TypeFrame
<1>0. LocksType'
  <2>1. CASE RegenerateShot(c)
    BY <2>1, HeldType DEF RegenerateShot, LocksType
  <2>2. CASE GenerateAll(c) \/ AssembleAsync(c) \/ RegenerateCharacter(c)
    BY <2>2, HeldType DEF GenerateAll, AssembleAsync, RegenerateCharacter, Holds, Release, LocksType
  <2>3. CASE Recover(c) \/ UpdateShot(c) \/ reapplyShotStyles(c) \/ Storyboard(c)
    BY <2>3, HeldType DEF Recover, UpdateShot, reapplyShotStyles, Storyboard, Holds, Release, LocksType
  <2> QED
    BY <2>1, <2>2, <2>3 DEF Handling
<1>1. CASE Recover(c)
  <2>1. shot' \in [Shots -> Shot]
    <3> DEFINE lost(x) == IF x = "running" THEN "failed" ELSE x
    <3>0. \A t \in Shot, p, q \in Progress : [t EXCEPT !.img = p, !.vid = q] \in Shot
      BY DEF Shot
    <3>a. \A i \in Shots : shot[i] \in Shot /\ lost(shot[i].img) \in Progress /\ lost(shot[i].vid) \in Progress
      BY DEF RecordType, Shot, Progress
    <3>1. \A i \in Shots : [shot[i] EXCEPT !.img = lost(shot[i].img), !.vid = lost(shot[i].vid)] \in Shot
      <4> HIDE DEF lost
      <4> QED
        BY <3>0, <3>a
    <3>2. \A i \in Shots : [shot[i] EXCEPT !.img = lost(@), !.vid = lost(@)]
                             = [shot[i] EXCEPT !.img = lost(shot[i].img), !.vid = lost(shot[i].vid)]
      BY DEF RecordType, Shot
    <3>3. shot' = shot \/ shot' = [i \in Shots |-> [shot[i] EXCEPT !.img = lost(@), !.vid = lost(@)]]
      BY <1>1 DEF Recover
    <3> HIDE DEF lost
    <3> QED
      BY <3>1, <3>2, <3>3 DEF RecordType
  <2> QED
    BY <1>0, <1>1, <2>1 DEF Recover, RecordType, bounds
<1>2. CASE UpdateShot(c)
  <2>1. shot' \in [Shots -> Shot]
    <3>1. \A i \in Shots : shot[i] \in Shot /\ [shot[i] EXCEPT !.stale = TRUE] \in Shot
      BY ZenonT(60) DEF RecordType, Shot
    <3>2. PICK S \in SUBSET Shots :
            shot' = [i \in Shots |-> IF i \in S /\ shot[i].iv # 0 THEN [shot[i] EXCEPT !.stale = TRUE] ELSE shot[i]]
      BY <1>2 DEF UpdateShot
    <3> QED
      BY <3>1, <3>2
  <2>2. draft' \in [made : BOOLEAN, stale : BOOLEAN, of : [Shots -> Nat \X Nat \X BOOLEAN]]
    BY <1>2 DEF UpdateShot, RecordType, markDraftStale
  <2>3. story' \in Story
    BY <1>2, StoryType DEF UpdateShot, RecordType
  <2>4. status' = status \/ status' = "storyboard"
    BY <1>2 DEF UpdateShot
  <2>5. RecordType'
    BY <2>1, <2>2, <2>3, <2>4 DEF RecordType
  <2> QED
    BY <1>0, <1>2, <2>5 DEF UpdateShot, bounds
<1>3. CASE reapplyShotStyles(c)
  <2>1. shot' \in [Shots -> Shot]
    <3>0. \A t \in Shot, b \in BOOLEAN : [t EXCEPT !.stale = b, !.vid = "pending", !.vv = 0, !.rid = 0] \in Shot
      BY DEF Shot, Progress
    <3>1. \A t \in Shot, b \in BOOLEAN : [t EXCEPT !.stale = b] \in Shot
      BY DEF Shot
    <3>2. PICK S \in SUBSET Shots \ {{}}, T \in SUBSET Shots :
            shot' = [i \in Shots |-> IF i \in S THEN [shot[i] EXCEPT !.stale = shot[i].iv # 0 /\ i \in T,
                                                              !.vid = "pending", !.vv = 0, !.rid = 0]
                                     ELSE [shot[i] EXCEPT !.stale = shot[i].iv # 0 /\ i \in T]]
      BY <1>3 DEF reapplyShotStyles
    <3>3. ASSUME NEW i \in Shots PROVE shot'[i] \in Shot
      <4> DEFINE b == shot[i].iv # 0 /\ i \in T
      <4>1. b \in BOOLEAN /\ shot[i] \in Shot
        BY DEF RecordType
      <4>2. shot'[i] = (IF i \in S THEN [shot[i] EXCEPT !.stale = b, !.vid = "pending", !.vv = 0, !.rid = 0]
                                   ELSE [shot[i] EXCEPT !.stale = b])
        BY <3>2
      <4> HIDE DEF b
      <4> QED
        BY <3>0, <3>1, <4>1, <4>2
    <3> QED
      BY <3>2, <3>3
  <2>2. draft' \in [made : BOOLEAN, stale : BOOLEAN, of : [Shots -> Nat \X Nat \X BOOLEAN]]
    BY <1>3 DEF reapplyShotStyles, RecordType, markDraftStale
  <2>3. VideoType'
    BY <1>3 DEF reapplyShotStyles, VideoType
  <2>4. story' \in Story /\ (status' = status \/ status' = "storyboard")
    BY <1>3, StoryType DEF reapplyShotStyles, RecordType
  <2>5. RecordType'
    BY <2>1, <2>2, <2>4 DEF RecordType
  <2> QED
    BY <1>0, <1>3, <2>3, <2>5 DEF reapplyShotStyles, bounds
<1>4. CASE Storyboard(c)
  <2>1. RecordType'
    <3>1. NoShot \in Shot
      BY DEF NoShot, Shot, Progress
    <3>2. CASE UNCHANGED record
      BY <3>2 DEF record
    <3>3. CASE ~UNCHANGED record
      <4>1. story' \in Story
        BY <1>4, <3>3, StoryType DEF Storyboard
      <4> QED
        BY <1>4, <3>1, <3>3, <4>1 DEF Storyboard, RecordType, markDraftStale
    <3> QED
      BY <3>2, <3>3
  <2>2. VideoType'
    BY <1>4 DEF Storyboard, VideoType
  <2> QED
    BY <1>0, <1>4, <2>1, <2>2 DEF Storyboard, bounds
<1>5. CASE GenerateAll(c)
  BY <1>0, <1>5 DEF GenerateAll, RecordType, bounds
<1>6. CASE AssembleAsync(c)
  BY <1>0, <1>6 DEF AssembleAsync, RecordType, bounds
<1>7. CASE RegenerateCharacter(c)
  BY <1>0, <1>7 DEF RegenerateCharacter, record, bounds
<1>8. CASE RegenerateShot(c)
  <2> DEFINE i == call[c].i
  <2>1. i \in Shots /\ shot[i] \in Shot
    BY <1>8 DEF RegenerateShot, Asked, Regen, RecordType
  <2>2. PICK s \in Shot : shot' = [shot EXCEPT ![i] = s]
    <3>1. CASE call[c].op = "image"
      <4> DEFINE t == [shot[i] EXCEPT !.img = "running", !.vid = "pending", !.vv = 0, !.rid = 0, !.unc = FALSE]
      <4>1. t \in Shot
        BY <2>1 DEF Shot, Progress
      <4>2. shot' = [shot EXCEPT ![i] = t]
        BY <1>8, <3>1 DEF RegenerateShot
      <4> QED
        BY <4>1, <4>2
    <3>2. CASE call[c].op # "image"
      <4>1. PICK moved \in BOOLEAN :
              shot' = [shot EXCEPT ![i] = [shot[i] EXCEPT !.vid = "running", !.unc = FALSE,
                                             !.rid = IF shot[i].vid = "failed" /\ ~moved THEN @ ELSE 0]]
        BY <1>8, <3>2 DEF RegenerateShot
      <4> DEFINE t == [shot[i] EXCEPT !.vid = "running", !.unc = FALSE,
                                      !.rid = IF shot[i].vid = "failed" /\ ~moved THEN @ ELSE 0]
      <4>2. t \in Shot
        BY <2>1 DEF Shot, Progress
      <4> QED
        BY <4>1, <4>2
    <3> QED
      BY <3>1, <3>2
  <2>3. shot' \in [Shots -> Shot] /\ shot'[i] \in Shot
    BY <2>1, <2>2 DEF RecordType
  <2>4. RecordType'
    <3>1. story' \in Story
      BY <1>8, StoryType DEF RegenerateShot, RecordType
    <3> QED
      BY <1>8, <2>3, <3>1 DEF RegenerateShot, RecordType, markDraftStale
  <2>5. WorkType'
    <3> DEFINE at == IF shot'[i].img # "done" \/ shot[i].iv = 0 \/ shot[i].stale THEN "image"
                     ELSE IF i \in story'.needs THEN "gate" ELSE "finish"
               w == [own |-> TRUE, at |-> at, rid |-> shot'[i].rid, unc |-> FALSE, video |-> i \in story'.needs]
    <3>1. work' = [work EXCEPT ![i] = w]
      BY <1>8 DEF RegenerateShot
    <3>2. at \in Stages /\ shot'[i].rid \in Nat
      BY <2>3 DEF Stages, Shot
    <3>3. w \in Work
      BY <3>2 DEF Work
    <3> HIDE DEF w
    <3> QED
      BY <2>1, <3>1, <3>3 DEF WorkType
  <2>6. VideoType'
    BY <1>8, <2>1, <2>3 DEF RegenerateShot, VideoType
  <2> QED
    BY <1>0, <1>8, <2>4, <2>5, <2>6 DEF RegenerateShot, bounds
<1> QED
  BY <1>1, <1>2, <1>3, <1>4, <1>5, <1>6, <1>7, <1>8 DEF Handling

LEMMA JobsType ==
  ASSUME TypeInv, Jobs
  PROVE  TypeInv'
<1> USE TypeParts, TypePartsNext, TypeFrame
<1>1. CASE StartShots
  <2>1. WorkType'
    <3>1. \A i \in Shots : shot[i].rid \in Nat /\ shot[i].unc \in BOOLEAN
      BY DEF RecordType, Shot
    <3>2. NoWork \in Work /\ \A at \in Stages, n \in Nat, b, v \in BOOLEAN :
                              [own |-> FALSE, at |-> at, rid |-> n, unc |-> b, video |-> v] \in Work
      BY DEF NoWork, Work, Stages
    <3>3. \A i \in Shots : (IF shot[i].img # "done" \/ shot[i].iv = 0 \/ shot[i].stale THEN "image"
                             ELSE IF i \in story'.needs THEN "gate" ELSE "end") \in Stages
      BY DEF Stages
    <3>4. CASE UNCHANGED work
      BY <3>4
    <3>5. CASE work' = [i \in Shots |->
                IF ShotReady(i)' THEN NoWork
                ELSE [own |-> FALSE, at |-> IF shot[i].img # "done" \/ shot[i].iv = 0 \/ shot[i].stale THEN "image"
                             ELSE IF i \in story'.needs THEN "gate" ELSE "end",
                      rid |-> shot[i].rid, unc |-> shot[i].unc, video |-> i \in story'.needs]]
      <4>1. \A i \in Shots : work'[i] \in Work
        <5> TAKE i \in Shots
        <5> DEFINE at == IF shot[i].img # "done" \/ shot[i].iv = 0 \/ shot[i].stale THEN "image"
                         ELSE IF i \in story'.needs THEN "gate" ELSE "end"
                   v  == i \in story'.needs
        <5>1. work'[i] = NoWork
                \/ work'[i] = [own |-> FALSE, at |-> at, rid |-> shot[i].rid, unc |-> shot[i].unc, video |-> v]
          BY <3>5, Zenon
        <5>2. at \in Stages /\ v \in BOOLEAN
          BY <3>3
        <5> HIDE DEF at, v
        <5> QED
          BY <3>1, <3>2, <5>1, <5>2
      <4>2. work' = [i \in Shots |-> work'[i]]
        BY <3>5
      <4> QED
        BY <4>1, <4>2 DEF WorkType
    <3> QED
      BY <1>1, <3>4, <3>5 DEF StartShots
  <2>2. LocksType'
    BY <1>1 DEF StartShots, Off, LocksType
  <2>3. RecordType'
    BY <1>1, StoryType DEF StartShots, RecordType
  <2> QED
    BY <1>1, <2>1, <2>2, <2>3 DEF StartShots, bounds
<1>2. CASE FinishShots
  <2>1. WorkType'
    BY <1>2 DEF FinishShots, WorkType, NoWork, Work, Stages
  <2>2. LocksType'
    BY <1>2 DEF FinishShots, Off, LocksType
  <2>3. RecordType'
    BY <1>2 DEF FinishShots, finishGeneration, RecordType
  <2> QED
    BY <1>2, <2>1, <2>2, <2>3 DEF FinishShots, bounds
<1>3. CASE Assemble
  <2>1. LocksType'
    BY <1>3 DEF Assemble, Off, LocksType
  <2>2. Versions \in [Shots -> Nat \X Nat \X BOOLEAN]
    <3>1. ASSUME NEW i \in Shots PROVE <<shot[i].iv, shot[i].vv, i \in story.needs>> \in Nat \X Nat \X BOOLEAN
      <4>1. shot[i].iv \in Nat /\ shot[i].vv \in Nat
        BY DEF RecordType, Shot
      <4> DEFINE v == i \in story.needs
      <4>2. v \in BOOLEAN
        OBVIOUS
      <4> HIDE DEF v
      <4>3. <<shot[i].iv, shot[i].vv, v>> \in Nat \X Nat \X BOOLEAN
        BY <4>1, <4>2
      <4> QED
        BY <4>3 DEF v
    <3> QED
      BY <3>1, Zenon DEF Versions
  <2>3. RecordType'
    <3>1. [made |-> TRUE, stale |-> FALSE, of |-> Versions] \in [made : BOOLEAN, stale : BOOLEAN, of : [Shots -> Nat \X Nat \X BOOLEAN]]
      BY <2>2
    <3>2. draft' \in [made : BOOLEAN, stale : BOOLEAN, of : [Shots -> Nat \X Nat \X BOOLEAN]]
      BY <1>3, <3>1 DEF Assemble, RecordType
    <3>3. story' \in Story
      BY <1>3, StoryType DEF Assemble, RecordType
    <3> QED
      BY <1>3, <3>2, <3>3 DEF Assemble, RecordType
  <2> QED
    BY <1>3, <2>1, <2>3 DEF Assemble, bounds
<1>4. CASE generateCharacters
  <2>1. LocksType' /\ RecordType'
    BY <1>4 DEF generateCharacters, Off, LocksType, RecordType
  <2> QED
    BY <1>4, <2>1 DEF generateCharacters, bounds
<1> QED
  BY <1>1, <1>2, <1>3, <1>4 DEF Jobs

\* A step of the work on one shot writes that shot, its work and its video.
LEMMA OneShotType ==
  ASSUME TypeInv, NEW i \in Shots, OneShot(i)
  PROVE  TypeInv'
<1> USE TypeParts, TypePartsNext, TypeFrame
<1> DEFINE s == shot[i]
           w == work[i]
<1>0. s \in Shot /\ w \in Work
  BY DEF RecordType, WorkType
<1>w. \A at \in Stages : (To(i, at) => WorkType') /\ (Done(i) => WorkType')
  BY DEF To, Done, WorkType, Work, Stages
<1>s. \A t \in Shot : Set(i, t) => shot' \in [Shots -> Shot]
  BY DEF Set, RecordType
<1>i. \A p \in Progress : [s EXCEPT !.img = p] \in Shot /\ [s EXCEPT !.vid = p] \in Shot
  BY <1>0 DEF Shot
<1>v. \A t \in Shot : FailVideo(i, t) => shot' \in [Shots -> Shot] /\ WorkType'
  <2>1. \A t \in Shot : [t EXCEPT !.vid = "failed"] \in Shot
    BY DEF Shot, Progress
  <2> QED
    BY <1>s, <1>w, <2>1 DEF FailVideo, Stages
<1>r. UNCHANGED draft /\ Rest /\ shot' \in [Shots -> Shot] => RecordType'
  BY DEF Rest, RecordType
<1>l. Rest => LocksType' /\ CountType'
  BY DEF Rest, locks, bounds
<1> HIDE DEF s, w
<1>1. CASE StartImage(i)
  <2>1. shot' \in [Shots -> Shot] /\ WorkType'
    BY <1>1, <1>i, <1>s, <1>w DEF StartImage, s, Progress, Stages
  <2> QED
    BY <1>1, <2>1, <1>r, <1>l DEF StartImage
<1>2. CASE generateShotImage(i)
  <2>1. \A n \in Nat : [s EXCEPT !.img = "done", !.iv = n, !.stale = FALSE] \in Shot
    BY <1>0 DEF Shot, Progress
  <2>2. [s EXCEPT !.img = "done", !.iv = s.iv + 1, !.stale = FALSE] \in Shot
    <3>1. s.iv + 1 \in Nat
      BY <1>0 DEF Shot
    <3> QED
      BY <2>1, <3>1
  <2>3. shot' \in [Shots -> Shot]
    BY <1>2, <2>2, <1>i, <1>s DEF generateShotImage, s, Progress
  <2>4. WorkType'
    <3>1. [w EXCEPT !.at = "mark", !.rid = 0, !.unc = FALSE] \in Work
      BY <1>0 DEF Work, Stages
    <3>2. CASE Done(i)
      BY <3>2, <1>w DEF Stages
    <3>3. CASE work' = [work EXCEPT ![i] = [w EXCEPT !.at = "mark", !.rid = 0, !.unc = FALSE]]
      BY <3>1, <3>3 DEF WorkType
    <3> QED
      BY <1>2, <3>2, <3>3 DEF generateShotImage, w
  <2>5. VideoType'
    BY <1>2 DEF generateShotImage, VideoType
  <2> QED
    BY <1>2, <2>3, <2>4, <2>5, <1>r, <1>l DEF generateShotImage
<1>3. CASE MarkImage(i) \/ MarkVideo(i)
  <2>1. WorkType'
    BY <1>3, <1>w DEF MarkImage, MarkVideo, Stages
  <2>2. RecordType'
    BY <1>3 DEF MarkImage, MarkVideo, markDraftStale, RecordType, Rest
  <2> QED
    BY <1>3, <2>1, <2>2, <1>l DEF MarkImage, MarkVideo
<1>4. CASE StartVideo(i)
  <2>1. shot' \in [Shots -> Shot] /\ WorkType'
    BY <1>4, <1>0, <1>i, <1>s, <1>w, <1>v DEF StartVideo, s, Progress, Stages
  <2> QED
    BY <1>4, <2>1, <1>r, <1>l DEF StartVideo
<1>5. CASE PrepareSubmit(i)
  <2>1. [s EXCEPT !.unc = TRUE, !.rid = 0] \in Shot
    BY <1>0 DEF Shot
  <2>2. shot' \in [Shots -> Shot] /\ WorkType'
    BY <1>5, <2>1, <1>0, <1>s, <1>w, <1>v DEF PrepareSubmit, s, Stages, RecordType
  <2> QED
    BY <1>5, <2>2, <1>r, <1>l DEF PrepareSubmit
<1>6. CASE SendVideo(i)
  <2>1. [s EXCEPT !.unc = TRUE] \in Shot /\ [s EXCEPT !.unc = FALSE] \in Shot
    BY <1>0 DEF Shot
  <2>2. shot' \in [Shots -> Shot]
    BY <1>6, <2>1, <1>v DEF SendVideo, s, RecordType
  <2>3. WorkType'
    <3>1. CASE work' = [work EXCEPT ![i].at = "save", ![i].rid = shot[i].iv]
      BY <3>1, <1>0 DEF WorkType, Work, Stages, Shot, s
    <3> QED
      BY <1>6, <3>1, <2>1, <1>v DEF SendVideo, s
  <2>4. VideoType'
    <3>1. submits[i] + 1 \in Nat
      BY DEF VideoType
    <3> QED
      BY <1>6, <3>1 DEF SendVideo, VideoType
  <2> QED
    BY <1>6, <2>2, <2>3, <2>4, <1>r, <1>l DEF SendVideo
<1>7. CASE SaveRequest(i)
  <2>1. [s EXCEPT !.rid = w.rid, !.unc = FALSE] \in Shot
    BY <1>0 DEF Shot, Work
  <2>2. shot' \in [Shots -> Shot] /\ WorkType'
    BY <1>7, <2>1, <1>s, <1>w DEF SaveRequest, s, w, Stages
  <2> QED
    BY <1>7, <2>2, <1>r, <1>l DEF SaveRequest
<1>8. CASE WaitVideo(i)
  <2>1. [s EXCEPT !.vid = "done", !.vv = w.rid] \in Shot /\ [s EXCEPT !.rid = 0] \in Shot
    BY <1>0 DEF Shot, Work, Progress
  <2>2. shot' \in [Shots -> Shot] /\ WorkType'
    BY <1>8, <2>1, <1>0, <1>s, <1>w, <1>v DEF WaitVideo, s, w, Stages
  <2>3. VideoType'
    BY <1>8 DEF WaitVideo, VideoType
  <2> QED
    BY <1>8, <2>2, <2>3, <1>r, <1>l DEF WaitVideo
<1>9. CASE FinishShot(i)
  <2>1. WorkType' /\ RecordType'
    BY <1>9, <1>w DEF FinishShot, finishGeneration, RecordType, Stages
  <2> QED
    BY <1>9, <2>1 DEF FinishShot, locks, bounds
<1>10. CASE unlockShot(i)
  <2>1. WorkType' /\ LocksType'
    BY <1>10 DEF unlockShot, WorkType, LocksType, NoWork, Work, Stages
  <2> QED
    BY <1>10, <2>1 DEF unlockShot, record, bounds
<1> QED
  BY <1>1, <1>2, <1>3, <1>4, <1>5, <1>6, <1>7, <1>8, <1>9, <1>10 DEF OneShot

LEMMA CrashType ==
  ASSUME TypeInv, Crash
  PROVE  TypeInv'
<1>1. WorkType' /\ CountType'
  BY TypeParts DEF Crash, WorkType, CountType, NoWork, Work, Stages
<1>2. LocksType'
  BY DEF Crash, LocksType, NoCall, Call
<1> QED
  BY <1>1, <1>2, TypeParts, TypePartsNext, TypeFrame DEF Crash, record

-----------------------------------------------------------------------------
(* The locks                                                               *)

LockParts ==
  /\ \A c \in Callers : Asked(call[c])
  /\ OneHolder /\ OneHolderOfShot /\ Apart /\ \A i \in Shots : Worked(i)

\* While somebody is through to the whole short, no shot is worked on.
LEMMA NobodyWorks ==
  ASSUME LockInv, NEW c \in Callers, call[c].at = "held", call[c].op \in Short
  PROVE  /\ job = "off" /\ NoneByItself
         /\ \A i \in Shots : work[i] = NoWork
<1>1. job = "off" /\ NoneByItself
  BY DEF LockInv, OneHolder, OfShort, Apart
<1>2. \A i \in Shots : work[i].at = "off"
  BY <1>1 DEF LockInv, Worked, NoneByItself
<1> QED
  BY <1>1, <1>2 DEF LockInv, Worked

LEMMA NobodyElseWorks ==
  ASSUME LockInv, job \notin {"off", "shots"}
  PROVE  \A i \in Shots : work[i] = NoWork
<1>1. NoneByItself
  BY DEF LockInv, Apart
<1>2. \A i \in Shots : work[i].at = "off"
  BY <1>1 DEF LockInv, Worked, NoneByItself
<1> QED
  BY <1>2 DEF LockInv, Worked

\* Nobody else works on a shot whose request is through.
LEMMA NobodyWorksOnIt ==
  ASSUME LockInv, NEW c \in Callers, call[c].at = "held", call[c].op \in Regen
  PROVE  /\ job = "off" /\ call[c].i \in Shots /\ work[call[c].i] = NoWork
<1>1. job = "off" /\ call[c].i \in Shots
  BY DEF LockInv, Apart, NoneByItself, Asked
<1>2. ~work[call[c].i].own
  BY DEF LockInv, OneHolderOfShot, OfShot
<1>3. work[call[c].i].at = "off"
  BY <1>1, <1>2 DEF LockInv, Worked
<1> QED
  BY <1>1, <1>3 DEF LockInv, Worked

LEMMA ItsShot ==
  ASSUME LockInv, NEW c \in Callers, OfShot(c)
  PROVE  call[c].i \in Shots
  BY DEF LockInv, OfShot, Asked

LEMMA AskLocks ==
  ASSUME LockInv, NEW c \in Callers, NEW op \in Short \cup Regen, NEW i \in Shots \cup {0},
         op \in Regen => i \in Shots, Ask(c, op, i)
  PROVE  LockParts'
<1>1. /\ call \in [Callers -> Call]
      /\ call[c].at = "idle" /\ call' = [call EXCEPT ![c] = [op |-> op, i |-> i, at |-> "checked"]]
      /\ UNCHANGED <<busy, shotBusy, job, work>>
  BY DEF LockInv, TypeInv, Ask
<1>2. \A d \in Callers : /\ call'[d].at \in {"stored", "held"} <=> call[d].at \in {"stored", "held"}
                         /\ call'[d].at \in {"stored", "held"} => call'[d] = call[d]
  BY <1>1
<1>3. \A d \in Callers : Asked(call'[d])
  BY <1>1 DEF LockInv, Asked
<1>4. OneHolder' /\ OneHolderOfShot' /\ Apart'
  BY <1>1, <1>2 DEF LockInv, OneHolder, OneHolderOfShot, Apart, NoneByItself, OfShort, OfShot
<1>5. \A j \in Shots : Worked(j)'
  BY <1>1 DEF LockInv, Worked
<1> QED
  BY <1>3, <1>4, <1>5 DEF LockParts

LEMMA StoreLocks ==
  ASSUME LockInv, NEW c \in Callers, StoreLock(c)
  PROVE  LockParts'
<1>1. /\ call \in [Callers -> Call] /\ work \in [Shots -> Work]
      /\ call[c].at = "checked" /\ UNCHANGED <<job, work>>
  BY DEF LockInv, TypeInv, StoreLock
<1>2. /\ call[c].op \in Short \cup Regen
      /\ call[c].op \in Regen => call[c].i \in Shots
      /\ ~(call[c].op \in Short /\ call[c].op \in Regen)
  BY <1>1 DEF LockInv, Asked, Short, Regen
<1>3. \A i \in Shots : Worked(i)'
  BY <1>1 DEF LockInv, Worked
<1>4. \A d \in Callers : Asked(call'[d])
  BY <1>1 DEF LockInv, StoreLock, Leave, Move, NoCall, Asked, Call
<1>5. CASE Leave(c)
  <2>1. \A d \in Callers : /\ call'[d].at \in {"stored", "held"} <=> call[d].at \in {"stored", "held"}
                           /\ call'[d].at \in {"stored", "held"} => call'[d] = call[d]
    BY <1>1, <1>5 DEF Leave, NoCall
  <2>a. call'[c].at # "stored"
    BY <1>1, <1>5 DEF Leave, NoCall
  <2>b. ~Move(c, "stored")
    BY <1>1, <2>a DEF Move, Call
  <2>2. busy' = busy /\ shotBusy' = shotBusy
    BY <2>b DEF StoreLock, LockInv, TypeInv
  <2> QED
    BY <1>1, <1>3, <1>4, <2>1, <2>2 DEF LockParts, LockInv, OneHolder, OneHolderOfShot, Apart, NoneByItself, OfShort, OfShot
<1>6. CASE Move(c, "stored")
  <2>1. /\ call'[c].at = "stored" /\ call'[c].op = call[c].op /\ call'[c].i = call[c].i
        /\ \A d \in Callers \ {c} : call'[d] = call[d]
    BY <1>1, <1>6 DEF Move, Call
  <2>2. CASE call[c].op \in Short
    <3>1. ~busy /\ busy' /\ shotBusy' = shotBusy
      BY <1>1, <2>1, <2>2 DEF StoreLock, Leave, NoCall
    <3> QED
      BY <1>1, <1>2, <1>3, <1>4, <2>1, <2>2, <3>1 DEF LockParts, LockInv, OneHolder, OneHolderOfShot, Apart, NoneByItself, OfShort, OfShot
  <2>3. CASE call[c].op \notin Short
    <3>1. call[c].i \notin shotBusy /\ busy' = busy /\ shotBusy' = shotBusy \cup {call[c].i}
      BY <1>1, <2>1, <2>3 DEF StoreLock, Leave, NoCall
    <3> QED
      BY <1>1, <1>2, <1>3, <1>4, <2>1, <2>3, <3>1 DEF LockParts, LockInv, OneHolder, OneHolderOfShot, Apart, NoneByItself, OfShort, OfShot
  <2> QED
    BY <2>2, <2>3
<1> QED
  BY <1>5, <1>6 DEF StoreLock

\* The second look: whoever comes through finds nobody at the other lock.
LEMMA RecheckLocks ==
  ASSUME LockInv, NEW c \in Callers, Recheck(c)
  PROVE  LockParts'
<1>1. /\ call \in [Callers -> Call] /\ work \in [Shots -> Work]
      /\ call[c].at = "stored" /\ UNCHANGED <<job, work>>
  BY DEF LockInv, TypeInv, Recheck
<1>2. /\ call[c].op \in Short \cup Regen
      /\ call[c].op \in Regen => call[c].i \in Shots
      /\ ~(call[c].op \in Short /\ call[c].op \in Regen)
  BY <1>1 DEF LockInv, Asked, Short, Regen
<1>3. \A i \in Shots : Worked(i)'
  BY <1>1 DEF LockInv, Worked
<1>4. \A d \in Callers : Asked(call'[d])
  BY <1>1 DEF LockInv, Recheck, Leave, Move, NoCall, Asked, Call
<1>5. CASE Leave(c)
  <2>1. /\ call'[c].at = "idle" /\ call'[c].op = "none" /\ \A d \in Callers \ {c} : call'[d] = call[d]
    BY <1>1, <1>5 DEF Leave, NoCall
  <2>2. CASE call[c].op \in Short
    <3>1. busy' = FALSE /\ shotBusy' = shotBusy
      BY <1>1, <2>1, <2>2 DEF Recheck, Move, Call
    <3> QED
      BY <1>1, <1>2, <1>3, <1>4, <2>1, <2>2, <3>1 DEF LockParts, LockInv, OneHolder, OneHolderOfShot, Apart, NoneByItself, OfShort, OfShot
  <2>3. CASE call[c].op \notin Short
    <3>1. busy' = busy /\ shotBusy' = shotBusy \ {call[c].i}
      BY <1>1, <2>1, <2>3 DEF Recheck, Move, Call
    <3> QED
      BY <1>1, <1>2, <1>3, <1>4, <2>1, <2>3, <3>1 DEF LockParts, LockInv, OneHolder, OneHolderOfShot, Apart, NoneByItself, OfShort, OfShot
  <2> QED
    BY <2>2, <2>3
<1>6. CASE Move(c, "held")
  <2>1. /\ call'[c].at = "held" /\ call'[c].op = call[c].op /\ call'[c].i = call[c].i
        /\ \A d \in Callers \ {c} : call'[d] = call[d]
    BY <1>1, <1>6 DEF Move, Call
  <2>2. UNCHANGED <<busy, shotBusy>>
    BY <1>1, <2>1 DEF Recheck, Leave, NoCall
  <2>3. call[c].op \in Short => shotBusy = {}
    BY <1>1, <2>1 DEF Recheck, Leave, NoCall
  <2>4. call[c].op \in Regen => ~busy
    BY <1>1, <1>2, <2>1 DEF Recheck, Leave, NoCall
  <2>5. OneHolder' /\ OneHolderOfShot'
    BY <1>1, <1>2, <2>1, <2>2 DEF LockInv, OneHolder, OneHolderOfShot, OfShort, OfShot
  <2>6. Apart'
    BY <1>1, <1>2, <2>1, <2>2, <2>3, <2>4 DEF LockInv, OneHolder, OneHolderOfShot, Apart, NoneByItself, OfShort, OfShot
  <2> QED
    BY <1>3, <1>4, <2>5, <2>6 DEF LockParts
<1> QED
  BY <1>5, <1>6 DEF Recheck

\* A request that was through goes, and gives back the short or leaves it to the goroutine.
LEMMA GoesShort ==
  ASSUME LockInv, TypeInv', NEW c \in Callers, call[c].at = "held", call[c].op \in Short, Leave(c),
         UNCHANGED <<shotBusy, work>>,
         \/ job' = job /\ busy' = FALSE
         \/ job' \in {"start", "assembling", "character"} /\ busy' = busy
  PROVE  LockParts'
<1>1. /\ call \in [Callers -> Call] /\ call'[c].at = "idle" /\ call'[c].op = "none"
      /\ \A d \in Callers \ {c} : call'[d] = call[d]
  BY DEF LockInv, TypeInv, Leave, NoCall
<1>2. job = "off" /\ NoneByItself /\ \A i \in Shots : work[i] = NoWork
  BY NobodyWorks
<1>3. busy
  BY DEF LockInv, OneHolder, OfShort
<1>4. \A d \in Callers : ~OfShort(d)'
  BY <1>1 DEF LockInv, OneHolder, OfShort
<1>5. \A i \in Shots : Worked(i)'
  BY <1>2 DEF Worked, NoWork
<1>6. \A d \in Callers : Asked(call'[d])
  BY <1>1 DEF LockInv, Asked
<1>7. OneHolder'
  BY <1>2, <1>3, <1>4 DEF OneHolder
<1>8. OneHolderOfShot'
  BY <1>1, <1>2 DEF LockInv, OneHolderOfShot, OfShot
<1>9. NoneByItself'
  BY <1>1, <1>2 DEF NoneByItself
<1> QED
  BY <1>5, <1>6, <1>7, <1>8, <1>9 DEF LockParts, Apart

\* The request of one shot goes, and leaves the shot to its goroutine.
LEMMA GoesShot ==
  ASSUME LockInv, TypeInv', NEW c \in Callers, call[c].at = "held", call[c].op \in Regen, Leave(c),
         UNCHANGED <<busy, shotBusy, job>>,
         work'[call[c].i].own, work'[call[c].i].at \in {"image", "gate", "finish"},
         \A j \in Shots \ {call[c].i} : work'[j] = work[j]
  PROVE  LockParts'
<1>1. /\ call \in [Callers -> Call] /\ call'[c].at = "idle" /\ call'[c].op = "none"
      /\ \A d \in Callers \ {c} : call'[d] = call[d]
  BY DEF LockInv, TypeInv, Leave, NoCall
<1>2. job = "off" /\ call[c].i \in Shots
  BY NobodyWorksOnIt
<1>3. \A d \in Callers : ~(call[d].at = "held" /\ call[d].op \in Short)
  BY DEF LockInv, Apart, NoneByItself
<1>4. \A i \in Shots : Worked(i)'
  BY <1>2 DEF LockInv, Worked
<1>5. \A d \in Callers : Asked(call'[d])
  BY <1>1 DEF LockInv, Asked
<1>6. OneHolder'
  BY <1>1, <1>2 DEF LockInv, OneHolder, OfShort
<1>7. OneHolderOfShot'
  <2>1. call[c].i \in shotBusy /\ \A d \in Callers : OfShot(d) /\ call[d].i = call[c].i => d = c
    BY DEF LockInv, OneHolderOfShot, OfShot
  <2>2. \A d \in Callers : OfShot(d)' => /\ d # c /\ OfShot(d) /\ call'[d] = call[d]
                                        /\ call[d].i \in Shots \ {call[c].i}
    BY <1>1, <2>1, ItsShot DEF OfShot
  <2> QED
    BY <1>1, <2>1, <2>2 DEF LockInv, OneHolderOfShot
<1>8. Apart'
  BY <1>1, <1>2, <1>3 DEF Apart
<1> QED
  BY <1>4, <1>5, <1>6, <1>7, <1>8 DEF LockParts

LEMMA HandlingLocks ==
  ASSUME LockInv, TypeInv', NEW c \in Callers, Handling(c)
  PROVE  LockParts'
<1>1. CASE RegenerateShot(c)
  <2>1. work \in [Shots -> Work] /\ call[c].i \in Shots
    BY <1>1 DEF LockInv, TypeInv, RegenerateShot, Asked
  <2>2. /\ call[c].at = "held" /\ call[c].op \in Regen /\ Leave(c) /\ UNCHANGED <<busy, shotBusy, job>>
    BY <1>1 DEF RegenerateShot
  <2>3. /\ work'[call[c].i].own /\ work'[call[c].i].at \in {"image", "gate", "finish"}
        /\ \A j \in Shots \ {call[c].i} : work'[j] = work[j]
    BY <1>1, <2>1 DEF RegenerateShot
  <2> QED
    BY <2>2, <2>3, GoesShot
<1>2. CASE ~RegenerateShot(c)
  <2>1. /\ call[c].at = "held" /\ call[c].op \in Short /\ Leave(c) /\ UNCHANGED <<shotBusy, work>>
        /\ \/ job' = job /\ busy' = FALSE
           \/ job' \in {"start", "assembling", "character"} /\ busy' = busy
    BY <1>2 DEF Handling, Recover, UpdateShot, reapplyShotStyles, Storyboard, GenerateAll, AssembleAsync,
                RegenerateCharacter, Holds, Release, Short
  <2> QED
    BY <2>1, GoesShort
<1> QED
  BY <1>1, <1>2

\* The goroutine of the short begins the shots, or ends.
LEMMA JobsLocks ==
  ASSUME LockInv, TypeInv', Jobs
  PROVE  LockParts'
<1>1. job # "off" /\ call' = call /\ shotBusy' = shotBusy
  BY DEF Jobs, StartShots, FinishShots, Assemble, generateCharacters, Off
<1>2. busy /\ NoneByItself
  BY <1>1 DEF LockInv, OneHolder, Apart
<1>3. \A c \in Callers : ~OfShort(c)
  BY <1>1 DEF LockInv, OneHolder
<1>4. \A i \in Shots : ~work'[i].own
  <2>1. CASE UNCHANGED work
    BY <1>2, <2>1 DEF NoneByItself
  <2>2. CASE StartShots
    <3> SUFFICES ASSUME ~UNCHANGED work PROVE \A i \in Shots : ~work'[i].own
      BY <2>1
    <3>1. work' = [i \in Shots |->
                IF ShotReady(i)' THEN NoWork
                ELSE [own |-> FALSE, at |-> IF shot[i].img # "done" \/ shot[i].iv = 0 \/ shot[i].stale THEN "image"
                             ELSE IF i \in story'.needs THEN "gate" ELSE "end",
                      rid |-> shot[i].rid, unc |-> shot[i].unc, video |-> i \in story'.needs]]
      BY <2>2 DEF StartShots
    <3> QED
      BY <3>1 DEF NoWork
  <2>3. CASE FinishShots
    BY <2>3 DEF FinishShots, NoWork
  <2> QED
    BY <2>1, <2>2, <2>3 DEF Jobs, Assemble, generateCharacters
<1>5. \A i \in Shots : Worked(i)'
  <2>1. CASE StartShots
    <3>1. \A i \in Shots : work[i] = NoWork
      BY <2>1, NobodyElseWorks DEF StartShots
    <3>2. CASE UNCHANGED work
      BY <3>1, <3>2 DEF Worked, NoWork
    <3>3. CASE ~UNCHANGED work
      <4>1. job' = "shots" /\ \A i \in Shots : work'[i] = NoWork \/ work'[i].at \in {"image", "gate", "end"}
        BY <2>1, <3>3 DEF StartShots
      <4> QED
        BY <4>1, <1>4 DEF Worked, NoWork
    <3> QED
      BY <3>2, <3>3
  <2>2. CASE FinishShots
    BY <2>2 DEF FinishShots, Worked, NoWork
  <2>3. CASE Assemble \/ generateCharacters
    <3>1. \A i \in Shots : work[i] = NoWork
      BY <2>3, NobodyElseWorks DEF Assemble, generateCharacters
    <3> QED
      BY <2>3, <3>1 DEF Assemble, generateCharacters, Worked, NoWork
  <2> QED
    BY <2>1, <2>2, <2>3 DEF Jobs
<1>6. job' # "off" => busy'
  BY <1>2 DEF Jobs, StartShots, FinishShots, Assemble, generateCharacters, Off
<1>7. OneHolder'
  BY <1>1, <1>3, <1>6 DEF OneHolder, OfShort
<1>8. OneHolderOfShot'
  BY <1>1, <1>4, ItsShot DEF LockInv, OneHolderOfShot, OfShot
<1>9. NoneByItself' /\ \A c \in Callers : Asked(call'[c])
  BY <1>1, <1>2, <1>4 DEF NoneByItself, LockInv
<1> QED
  BY <1>5, <1>7, <1>8, <1>9 DEF LockParts, Apart

\* Nor does the work on a shot before its end touch a lock.
WorkStep(i) ==
  /\ UNCHANGED <<busy, shotBusy, call, job>>
  /\ \A j \in Shots \ {i} : work'[j] = work[j]
  /\ work'[i].own = work[i].own /\ work[i].at # "off" /\ work'[i].at # "off"
  /\ work'[i].at \in {"finish", "unlock"} => work[i].own

LEMMA OneShotWorks ==
  ASSUME LockInv, NEW i \in Shots, OneShot(i), ~unlockShot(i)
  PROVE  WorkStep(i)
<1>1. work \in [Shots -> Work] /\ work[i] \in Work
  BY DEF LockInv, TypeInv
<1>2. \A at \in Stages \ {"off", "finish", "unlock"} :
          To(i, at) /\ work[i].at # "off" /\ UNCHANGED <<busy, shotBusy, call, job>> => WorkStep(i)
  BY <1>1 DEF To, WorkStep, Work
<1>3. Done(i) /\ work[i].at # "off" /\ UNCHANGED <<busy, shotBusy, call, job>> => WorkStep(i)
  BY <1>1 DEF Done, To, WorkStep, Work
<1>4. Rest => UNCHANGED <<busy, shotBusy, call, job>>
  BY DEF Rest, locks
<1>5. CASE StartImage(i) \/ MarkImage(i) \/ StartVideo(i) \/ PrepareSubmit(i) \/ SaveRequest(i) \/ WaitVideo(i) \/ MarkVideo(i)
  BY <1>2, <1>3, <1>4, <1>5
  DEF StartImage, MarkImage, StartVideo, PrepareSubmit, SaveRequest, WaitVideo, MarkVideo, FailVideo, Stages
<1>6. CASE generateShotImage(i)
  <2>1. CASE Done(i)
    BY <1>3, <1>4, <1>6, <2>1 DEF generateShotImage
  <2>2. CASE work' = [work EXCEPT ![i] = [@ EXCEPT !.at = "mark", !.rid = 0, !.unc = FALSE]]
    BY <1>1, <1>4, <1>6, <2>2 DEF generateShotImage, WorkStep, Work
  <2> QED
    BY <1>6, <2>1, <2>2 DEF generateShotImage
<1>7. CASE SendVideo(i)
  <2>1. CASE Done(i)
    BY <1>3, <1>4, <1>7, <2>1 DEF SendVideo
  <2>2. CASE work' = [work EXCEPT ![i].at = "save", ![i].rid = shot[i].iv]
    BY <1>1, <1>4, <1>7, <2>2 DEF SendVideo, WorkStep, Work
  <2> QED
    BY <1>7, <2>1, <2>2 DEF SendVideo, FailVideo
<1>8. CASE FinishShot(i)
  <2>1. work[i].own
    BY <1>8 DEF FinishShot, LockInv, Worked
  <2> QED
    BY <1>1, <1>8, <2>1 DEF FinishShot, To, WorkStep, Work, locks
<1> QED
  BY <1>5, <1>6, <1>7, <1>8 DEF OneShot

LEMMA OneShotLocks ==
  ASSUME LockInv, TypeInv', NEW i \in Shots, OneShot(i)
  PROVE  LockParts'
<1>1. CASE ~unlockShot(i)
  <2>1. WorkStep(i)
    BY <1>1, OneShotWorks
  <2>2. \A j \in Shots : work'[j].own = work[j].own
    BY <2>1 DEF WorkStep
  <2>3. \A j \in Shots : Worked(j)'
    BY <2>1 DEF WorkStep, LockInv, Worked
  <2>4. OneHolder' /\ OneHolderOfShot' /\ Apart' /\ \A c \in Callers : Asked(call'[c])
    BY <2>1, <2>2, ItsShot DEF WorkStep, LockInv, OneHolder, OneHolderOfShot, OfShort, OfShot, Apart, NoneByItself
  <2> QED
    BY <2>3, <2>4 DEF LockParts
<1>2. CASE unlockShot(i)
  <2>1. /\ work[i].own /\ UNCHANGED <<busy, call, job>> /\ shotBusy' = shotBusy \ {i}
        /\ work'[i] = NoWork /\ \A j \in Shots \ {i} : work'[j] = work[j]
    BY <1>2 DEF unlockShot, LockInv, TypeInv, Worked
  <2>2. \A c \in Callers : OfShot(c) => call[c].i # i
    BY <2>1 DEF LockInv, OneHolderOfShot
  <2>3. \A j \in Shots : Worked(j)'
    BY <2>1 DEF LockInv, Worked, NoWork
  <2>4. OneHolder' /\ Apart' /\ \A c \in Callers : Asked(call'[c])
    BY <2>1 DEF LockInv, OneHolder, OfShort, Apart, NoneByItself, NoWork
  <2>5. OneHolderOfShot'
    BY <2>1, <2>2, ItsShot DEF LockInv, OneHolderOfShot, OfShot, NoWork
  <2> QED
    BY <2>3, <2>4, <2>5 DEF LockParts
<1> QED
  BY <1>1, <1>2

LEMMA CrashLocks ==
  ASSUME Crash
  PROVE  LockParts'
  BY DEF Crash, LockParts, Asked, OneHolder, OneHolderOfShot, OfShort, OfShot, Apart, Worked, NoCall, NoWork

LEMMA LockNext == LockInv /\ [Next]_vars => LockInv'
<1> SUFFICES ASSUME LockInv, [Next]_vars PROVE LockInv'
  OBVIOUS
<1>0. TypeInv /\ \A c \in Callers : Asked(call[c])
  BY DEF LockInv
<1>1. TypeInv' /\ LockParts' => LockInv'
  BY DEF LockInv, LockParts
<1>2. ASSUME NEW c \in Callers, Locking(c) PROVE LockInv'
  BY <1>0, <1>1, <1>2, RequestType, StoreLocks, RecheckLocks DEF Locking
<1>3. ASSUME NEW c \in Callers, Handling(c) PROVE LockInv'
  BY <1>0, <1>1, <1>3, HandlingType, HandlingLocks
<1>4. ASSUME NEW c \in Callers, NEW op \in Short, Ask(c, op, 0) PROVE LockInv'
  <2>1. op \notin Regen
    BY DEF Short, Regen
  <2> QED
    BY <1>0, <1>1, <1>4, <2>1, RequestType, AskLocks
<1>5. ASSUME NEW c \in Callers, NEW op \in Regen, NEW i \in Shots, Ask(c, op, i) PROVE LockInv'
  BY <1>0, <1>1, <1>5, RequestType, AskLocks
<1>6. CASE Jobs
  BY <1>0, <1>1, <1>6, JobsType, JobsLocks
<1>7. ASSUME NEW i \in Shots, OneShot(i) PROVE LockInv'
  BY <1>0, <1>1, <1>7, OneShotType, OneShotLocks
<1>8. CASE Crash
  BY <1>0, <1>1, <1>8, CrashType, CrashLocks
<1>9. CASE UNCHANGED vars
  BY <1>9 DEF vars, LockInv, TypeInv, OneHolder, OneHolderOfShot, OfShort, OfShot, Apart, NoneByItself, Worked
<1> QED
  BY <1>2, <1>3, <1>4, <1>5, <1>6, <1>7, <1>8, <1>9 DEF Next

LEMMA LocksHold == Spec => []LockInv
<1>1. Init => LockInv
  BY LockInit
<1>2. LockInv /\ [Next]_vars => LockInv'
  BY LockNext
<1> QED
  BY <1>1, <1>2, PTL DEF Spec

\* Nobody works on the whole short while somebody works on one of its shots
\* (tryLock and tryLockShot of service.go), in whatever order the looks and
\* the marks of the two locks, the goroutines and a crash fall.
THEOREM ShortOrShots == Spec => []LocksExclude
<1>1. LockInv => LocksExclude
  <2> SUFFICES ASSUME LockInv, job # "off" \/ \E c \in Callers : call[c].at = "held" /\ call[c].op \in Short
               PROVE  {i \in Shots : work[i].own}
                      \cup {call[c].i : c \in {d \in Callers : call[d].at = "held" /\ call[d].op \in Regen}} = {}
    BY DEF LocksExclude
  <2>1. NoneByItself
    BY DEF LockInv, Apart
  <2> QED
    BY <2>1 DEF NoneByItself
<1> QED
  BY <1>1, LocksHold, PTL

-----------------------------------------------------------------------------
(* The videos                                                              *)

\* A video, and a request, is of an image the shot has had; a video is asked
\* for once there is an image, and waited for by its number; and of one that
\* may be under way the record has the number, or that it is not known.
Known(s, w, o) ==
  /\ s.vv <= s.iv /\ s.rid <= s.iv /\ w.rid <= s.iv
  /\ w.at \in {"mark", "gate", "submit", "send", "save", "wait", "mark2"} => s.iv # 0
  /\ w.at \in {"save", "wait"} => w.rid # 0
  /\ o => s.rid # 0 \/ s.unc
  /\ w.at = "mark" => w.rid = 0 /\ ~w.unc
  /\ w.at \in {"mark", "gate", "submit"} /\ w.rid = 0 /\ ~w.unc => ~o
  /\ w.at = "send" => s.unc /\ ~o

VideoInv == \A i \in Shots : Known(shot[i], work[i], open[i])

LEMMA VideoFrame ==
  ASSUME VideoInv, NEW i \in Shots, shot'[i] = shot[i], work'[i] = work[i], open'[i] = open[i]
  PROVE  Known(shot'[i], work'[i], open'[i])
  BY DEF VideoInv

\* A shot nobody works on.
LEMMA KnownAtRest ==
  ASSUME NEW s \in Shot, NEW o \in BOOLEAN, s.vv <= s.iv, s.rid <= s.iv, o => s.rid # 0 \/ s.unc
  PROVE  Known(s, NoWork, o)
  BY DEF Known, NoWork, Shot

LEMMA RecoverKeeps ==
  ASSUME LockInv, NEW c \in Callers, Recover(c), NEW i \in Shots
  PROVE  shot'[i].vv = shot[i].vv /\ shot'[i].iv = shot[i].iv /\ shot'[i].rid = shot[i].rid /\ shot'[i].unc = shot[i].unc
<1> DEFINE lost(x) == IF x = "running" THEN "failed" ELSE x
<1>0. shot[i] \in Shot
  BY DEF LockInv, TypeInv
<1>1. shot'[i] = shot[i] \/ shot'[i] = [shot[i] EXCEPT !.img = lost(@), !.vid = lost(@)]
  BY DEF Recover
<1>2. [shot[i] EXCEPT !.img = lost(@), !.vid = lost(@)]
      = [shot[i] EXCEPT !.img = lost(shot[i].img), !.vid = lost(shot[i].vid)]
  BY <1>0 DEF Shot
<1> HIDE DEF lost
<1> QED
  BY <1>0, <1>1, <1>2 DEF Shot

LEMMA RegenerateKeeps ==
  ASSUME LockInv, NEW c \in Callers, RegenerateShot(c), call[c].i \in Shots
  PROVE  LET s == shot[call[c].i]
             t == shot'[call[c].i]
         IN  /\ t.iv = s.iv /\ t.vv \in {s.vv, 0} /\ t.rid \in {s.rid, 0}
             /\ t.img \in {s.img, "running"} /\ t.stale = s.stale
             /\ call[c].op # "image" => t.vv = s.vv
<1> DEFINE i == call[c].i
           s == shot[i]
           t == shot'[i]
<1>0. shot \in [Shots -> Shot] /\ s \in Shot
  BY DEF LockInv, TypeInv
<1>1. CASE call[c].op = "image"
  <2>1. t = [s EXCEPT !.img = "running", !.vid = "pending", !.vv = 0, !.rid = 0, !.unc = FALSE]
    BY <1>0, <1>1 DEF RegenerateShot
  <2> HIDE DEF s, t
  <2>2. t.iv = s.iv /\ t.vv = 0 /\ t.rid = 0 /\ t.img = "running" /\ t.stale = s.stale
    BY <1>0, <2>1 DEF Shot
  <2> QED
    BY <1>1, <2>2 DEF s, t
<1>2. CASE call[c].op # "image"
  <2>1. PICK moved \in BOOLEAN :
          shot' = [shot EXCEPT ![i] = [s EXCEPT !.vid = "running", !.unc = FALSE,
                                               !.rid = IF s.vid = "failed" /\ ~moved THEN @ ELSE 0]]
    BY <1>2 DEF RegenerateShot
  <2>2. t = [s EXCEPT !.vid = "running", !.unc = FALSE, !.rid = IF s.vid = "failed" /\ ~moved THEN @ ELSE 0]
    BY <1>0, <2>1
  <2> HIDE DEF s, t
  <2>3. t = [s EXCEPT !.vid = "running", !.unc = FALSE, !.rid = IF s.vid = "failed" /\ ~moved THEN s.rid ELSE 0]
    BY <1>0, <2>2 DEF Shot
  <2>4. t.iv = s.iv /\ t.vv = s.vv /\ t.rid \in {s.rid, 0} /\ t.img = s.img /\ t.stale = s.stale
    BY <1>0, <2>3 DEF Shot
  <2> QED
    BY <2>4 DEF s, t
<1> QED
  BY <1>1, <1>2

LEMMA HandlingVideos ==
  ASSUME LockInv, TypeInv', VideoInv, NEW c \in Callers, Handling(c)
  PROVE  VideoInv'
<1>0. /\ shot \in [Shots -> Shot] /\ shot' \in [Shots -> Shot] /\ open \in [Shots -> BOOLEAN]
      /\ open' \in [Shots -> BOOLEAN] /\ work \in [Shots -> Work]
  BY DEF LockInv, TypeInv
<1>1. CASE RegenerateShot(c)
  <2> DEFINE i == call[c].i
  <2>1. i \in Shots /\ work[i] = NoWork
    BY <1>1, NobodyWorksOnIt DEF RegenerateShot
  <2>2. \A j \in Shots \ {i} : shot'[j] = shot[j] /\ work'[j] = work[j] /\ open'[j] = open[j]
    BY <1>0, <1>1, <2>1 DEF RegenerateShot
  <2>3. Known(shot'[i], work'[i], open'[i])
    <3> DEFINE s == shot[i]
               t == shot'[i]
               w == work'[i]
    <3>1. s \in Shot /\ s.vv <= s.iv /\ s.rid <= s.iv
      BY <1>0, <2>1 DEF VideoInv, Known
    <3>2. t.iv = s.iv /\ t.vv \in {s.vv, 0} /\ t.rid \in {s.rid, 0} /\ t.img \in {s.img, "running"} /\ t.stale = s.stale
      BY <1>1, <2>1, RegenerateKeeps
    <3>3. open'[i] => t.rid # 0
      BY <1>0, <1>1, <2>1 DEF RegenerateShot
    <3>4. /\ w.rid = t.rid /\ w.unc = FALSE /\ w.at \in {"image", "gate", "finish"}
          /\ w.at = "gate" => s.iv # 0
      BY <1>0, <1>1, <2>1 DEF RegenerateShot
    <3>5. s.iv \in Nat /\ s.vv \in Nat /\ s.rid \in Nat
      BY <3>1 DEF Shot
    <3> HIDE DEF s, t, w
    <3>6. Known(t, w, open'[i])
      BY <3>1, <3>2, <3>3, <3>4, <3>5 DEF Known
    <3> QED
      BY <3>6 DEF t, w
  <2> QED
    BY <2>2, <2>3, VideoFrame DEF VideoInv
<1>2. CASE ~RegenerateShot(c)
  <2>1. call[c].at = "held" /\ call[c].op \in Short /\ UNCHANGED work
    BY <1>2 DEF Handling, Recover, UpdateShot, reapplyShotStyles, Storyboard, GenerateAll, AssembleAsync,
                RegenerateCharacter, Holds, Short
  <2>2. \A i \in Shots : work[i] = NoWork
    BY <2>1, NobodyWorks
  <2>3. SUFFICES ASSUME NEW i \in Shots
                 PROVE  /\ shot'[i].vv <= shot'[i].iv /\ shot'[i].rid <= shot'[i].iv
                        /\ open'[i] => shot'[i].rid # 0 \/ shot'[i].unc
    BY <1>0, <2>1, <2>2, KnownAtRest DEF VideoInv
  <2>4. /\ shot[i] \in Shot /\ shot[i].vv <= shot[i].iv /\ shot[i].rid <= shot[i].iv
        /\ open[i] => shot[i].rid # 0 \/ shot[i].unc
    BY <1>0 DEF VideoInv, Known
  <2>5. CASE Recover(c)
    <3>1. shot'[i].vv = shot[i].vv /\ shot'[i].iv = shot[i].iv /\ shot'[i].rid = shot[i].rid /\ shot'[i].unc = shot[i].unc
      BY <2>5, RecoverKeeps
    <3> QED
      BY <2>4, <2>5, <3>1 DEF Recover
  <2>6. CASE UpdateShot(c)
    <3>1. shot'[i].vv = shot[i].vv /\ shot'[i].iv = shot[i].iv /\ shot'[i].rid = shot[i].rid /\ shot'[i].unc = shot[i].unc
      <4>1. shot'[i] = shot[i] \/ shot'[i] = [shot[i] EXCEPT !.stale = TRUE]
        BY <2>6 DEF UpdateShot
      <4> QED
        BY <2>4, <4>1 DEF Shot
    <3> QED
      BY <2>4, <2>6, <3>1 DEF UpdateShot
  <2>7. CASE reapplyShotStyles(c)
    <3>1. PICK S \in SUBSET Shots \ {{}}, T \in SUBSET Shots :
             /\ shot' = [j \in Shots |-> IF j \in S THEN [shot[j] EXCEPT !.stale = shot[j].iv # 0 /\ j \in T,
                                                                !.vid = "pending", !.vv = 0, !.rid = 0]
                                         ELSE [shot[j] EXCEPT !.stale = shot[j].iv # 0 /\ j \in T]]
             /\ open' = [j \in Shots |-> open[j] /\ j \notin S]
      BY <2>7 DEF reapplyShotStyles
    <3>2. CASE i \in S
      <4>1. shot'[i].vv = 0 /\ shot'[i].iv = shot[i].iv /\ shot'[i].rid = 0 /\ ~open'[i]
        BY <2>4, <3>1, <3>2 DEF Shot
      <4> QED
        BY <2>4, <4>1 DEF Shot
    <3>3. CASE i \notin S
      <4>1. /\ shot'[i].vv = shot[i].vv /\ shot'[i].iv = shot[i].iv /\ shot'[i].rid = shot[i].rid
            /\ shot'[i].unc = shot[i].unc /\ open'[i] = open[i]
        BY <1>0, <2>4, <3>1, <3>3 DEF Shot
      <4> QED
        BY <2>4, <4>1
    <3> QED
      BY <3>2, <3>3
  <2>8. CASE Storyboard(c)
    BY <2>4, <2>8 DEF Storyboard, NoShot, record
  <2>9. CASE GenerateAll(c) \/ AssembleAsync(c) \/ RegenerateCharacter(c)
    BY <2>4, <2>9 DEF GenerateAll, AssembleAsync, RegenerateCharacter, record
  <2> QED
    BY <1>2, <2>5, <2>6, <2>7, <2>8, <2>9 DEF Handling
<1> QED
  BY <1>1, <1>2

LEMMA JobsVideos ==
  ASSUME LockInv, TypeInv', VideoInv, Jobs
  PROVE  VideoInv'
<1>0. shot \in [Shots -> Shot] /\ open \in [Shots -> BOOLEAN] /\ UNCHANGED <<shot, open>>
  BY DEF LockInv, TypeInv, Jobs, StartShots, FinishShots, Assemble, generateCharacters
<1> SUFFICES ASSUME NEW i \in Shots PROVE Known(shot[i], work'[i], open[i])
  BY <1>0 DEF VideoInv
<1>1. shot[i] \in Shot /\ Known(shot[i], work[i], open[i])
  BY <1>0 DEF VideoInv
<1>2. Known(shot[i], NoWork, open[i])
  BY <1>0, <1>1, KnownAtRest DEF Known
<1>3. CASE StartShots
  <2>1. \/ work'[i] = work[i] \/ work'[i] = NoWork
        \/ /\ work'[i].at \in {"image", "gate", "end"} /\ work'[i].rid = shot[i].rid /\ work'[i].unc = shot[i].unc
           /\ work'[i].at = "gate" => shot[i].iv # 0
    <3>1. CASE ~UNCHANGED work /\ ~ShotReady(i)'
      BY <1>3, <3>1 DEF StartShots
    <3>2. CASE ~UNCHANGED work /\ ShotReady(i)'
      BY <1>3, <3>2 DEF StartShots
    <3> QED
      BY <3>1, <3>2
  <2> QED
    BY <1>1, <1>2, <2>1 DEF Known, Shot
<1>4. CASE FinishShots
  BY <1>2, <1>4 DEF FinishShots
<1>5. CASE Assemble \/ generateCharacters
  BY <1>1, <1>5 DEF Assemble, generateCharacters
<1> QED
  BY <1>3, <1>4, <1>5 DEF Jobs

\* What the work on a shot does to it.
LEMMA OneShotVideos ==
  ASSUME LockInv, TypeInv', VideoInv, NEW i \in Shots, OneShot(i)
  PROVE  VideoInv'
<1>0. /\ shot \in [Shots -> Shot] /\ open \in [Shots -> BOOLEAN] /\ work \in [Shots -> Work]
      /\ shot' \in [Shots -> Shot] /\ open' \in [Shots -> BOOLEAN] /\ work' \in [Shots -> Work]
  BY DEF LockInv, TypeInv
<1> DEFINE s == shot[i]
           w == work[i]
           o == open[i]
<1>1. s \in Shot /\ w \in Work /\ o \in BOOLEAN /\ Known(s, w, o)
  BY <1>0 DEF VideoInv
<1>2. \A j \in Shots \ {i} : shot'[j] = shot[j] /\ work'[j] = work[j] /\ open'[j] = open[j]
  BY <1>0 DEF OneShot, StartImage, generateShotImage, MarkImage, StartVideo, PrepareSubmit, SendVideo, SaveRequest,
              WaitVideo, MarkVideo, FinishShot, unlockShot, FailVideo, To, Set, Done, record
<1>3. SUFFICES Known(shot'[i], work'[i], open'[i])
  BY <1>2, VideoFrame DEF VideoInv
<1>4. \A at : To(i, at) => work'[i].at = at /\ work'[i].rid = w.rid /\ work'[i].unc = w.unc
  BY <1>0 DEF To, Work
<1>5. Done(i) => work'[i].at \in {"finish", "end"} /\ work'[i].rid = w.rid
  BY <1>0 DEF Done, To, Work
<1>6. \A t : Set(i, t) => shot'[i] = t
  BY <1>0 DEF Set
<1>7. \A t \in Shot : FailVideo(i, t) =>
         /\ shot'[i] = [t EXCEPT !.vid = "failed"] /\ work'[i].at \in {"finish", "end"} /\ work'[i].rid = w.rid
  BY <1>5, <1>6 DEF FailVideo
<1>8. UNCHANGED open => open'[i] = o
  OBVIOUS
<1>9. CASE StartImage(i) \/ StartVideo(i)
  <2>1. \E p \in Progress : shot'[i] = [s EXCEPT !.img = p] \/ shot'[i] = [s EXCEPT !.vid = p]
    BY <1>0, <1>1, <1>6, <1>7, <1>9 DEF StartImage, StartVideo, Progress
  <2>2. /\ shot'[i].iv = s.iv /\ shot'[i].vv = s.vv /\ shot'[i].rid = s.rid /\ shot'[i].unc = s.unc
        /\ open'[i] = o /\ work'[i].rid = w.rid
    BY <1>1, <1>4, <1>5, <1>7, <1>9, <2>1 DEF StartImage, StartVideo, Shot
  <2>3. \/ work'[i].at \in {"drawing", "finish", "end"}
        \/ w.at = "gate" /\ work'[i].at = "submit" /\ work'[i].unc = w.unc
    BY <1>1, <1>4, <1>5, <1>7, <1>9 DEF StartImage, StartVideo
  <2> QED
    BY <1>1, <2>2, <2>3 DEF Known
<1>10. CASE generateShotImage(i)
  <2>1. CASE Done(i) /\ UNCHANGED open /\ Set(i, [s EXCEPT !.img = "failed"])
    <3>1. shot'[i].iv = s.iv /\ shot'[i].vv = s.vv /\ shot'[i].rid = s.rid /\ shot'[i].unc = s.unc
      BY <1>1, <1>6, <2>1 DEF Shot
    <3> QED
      BY <1>1, <1>5, <2>1, <3>1 DEF Known
  <2>2. CASE ~Done(i) \/ ~UNCHANGED open \/ ~Set(i, [s EXCEPT !.img = "failed"])
    <3>1. /\ shot'[i] = [s EXCEPT !.img = "done", !.iv = @ + 1, !.stale = FALSE]
          /\ work'[i] = [w EXCEPT !.at = "mark", !.rid = 0, !.unc = FALSE] /\ ~open'[i]
      BY <1>0, <1>6, <1>10, <2>2 DEF generateShotImage
    <3>2. shot'[i].iv = s.iv + 1 /\ shot'[i].vv = s.vv /\ shot'[i].rid = s.rid /\ shot'[i].unc = s.unc
      BY <1>1, <3>1 DEF Shot
    <3>3. work'[i].at = "mark" /\ work'[i].rid = 0 /\ ~work'[i].unc
      BY <1>1, <3>1 DEF Work
    <3>4. s.iv \in Nat /\ s.vv \in Nat /\ s.rid \in Nat
      BY <1>1 DEF Shot
    <3> QED
      BY <1>1, <3>1, <3>2, <3>3, <3>4 DEF Known
  <2> QED
    BY <2>1, <2>2
<1>11. CASE MarkImage(i) \/ MarkVideo(i)
  <2>1. shot'[i] = s /\ open'[i] = o /\ work'[i].rid = w.rid
    BY <1>4, <1>5, <1>11 DEF MarkImage, MarkVideo
  <2>2. \/ work'[i].at \in {"finish", "end"}
        \/ w.at = "mark" /\ work'[i].at = "gate" /\ work'[i].unc = w.unc
    BY <1>4, <1>5, <1>11 DEF MarkImage, MarkVideo
  <2> QED
    BY <1>1, <2>1, <2>2 DEF Known
<1>12. CASE PrepareSubmit(i)
  <2>1. open'[i] = o /\ w.at = "submit"
    BY <1>12 DEF PrepareSubmit
  <2>2. CASE w.rid # 0
    BY <1>1, <1>4, <1>12, <2>1, <2>2 DEF PrepareSubmit, Known
  <2>3. CASE w.rid = 0 /\ w.unc
    <3>1. shot'[i] = [s EXCEPT !.vid = "failed"] /\ work'[i].at \in {"finish", "end"} /\ work'[i].rid = w.rid
      BY <1>1, <1>7, <1>12, <2>3 DEF PrepareSubmit
    <3> QED
      BY <1>1, <2>1, <3>1 DEF Known, Shot
  <2>4. CASE w.rid = 0 /\ ~w.unc
    <3>1. shot'[i] = [s EXCEPT !.unc = TRUE, !.rid = 0] /\ work'[i].at = "send" /\ work'[i].rid = 0
      BY <1>4, <1>6, <1>12, <2>4 DEF PrepareSubmit
    <3> QED
      BY <1>1, <2>1, <2>4, <3>1 DEF Known, Shot
  <2> QED
    BY <2>2, <2>3, <2>4
<1>13. CASE SendVideo(i)
  <2>1. CASE work' = [work EXCEPT ![i].at = "save", ![i].rid = s.iv] /\ UNCHANGED shot
    <3>1. work'[i].at = "save" /\ work'[i].rid = s.iv
      BY <1>0, <2>1 DEF Work
    <3>2. s.iv \in Nat /\ s.iv # 0 /\ s.unc
      BY <1>1, <1>13 DEF SendVideo, Known, Shot
    <3> QED
      BY <1>1, <2>1, <3>1, <3>2 DEF Known
  <2>2. ASSUME NEW b \in BOOLEAN, FailVideo(i, [s EXCEPT !.unc = b]), open'[i] => b PROVE Known(shot'[i], work'[i], open'[i])
    <3>1. [s EXCEPT !.unc = b] \in Shot
      BY <1>1 DEF Shot
    <3>2. shot'[i] = [[s EXCEPT !.unc = b] EXCEPT !.vid = "failed"] /\ work'[i].at \in {"finish", "end"} /\ work'[i].rid = w.rid
      BY <1>7, <2>2, <3>1
    <3>3. shot'[i].iv = s.iv /\ shot'[i].vv = s.vv /\ shot'[i].rid = s.rid /\ shot'[i].unc = b
      BY <1>1, <3>2 DEF Shot
    <3> QED
      BY <1>1, <2>2, <3>2, <3>3 DEF Known
  <2>3. w.at = "send" /\ ~o
    BY <1>1, <1>13 DEF SendVideo, Known
  <2> QED
    BY <1>13, <2>1, <2>2, <2>3 DEF SendVideo
<1>14. CASE SaveRequest(i)
  <2>1. w.at = "save" /\ shot'[i] = [s EXCEPT !.rid = w.rid, !.unc = FALSE] /\ work'[i].at = "wait" /\ work'[i].rid = w.rid
    BY <1>4, <1>6, <1>14 DEF SaveRequest
  <2>2. shot'[i].iv = s.iv /\ shot'[i].vv = s.vv /\ shot'[i].rid = w.rid
    BY <1>1, <2>1 DEF Shot
  <2> QED
    BY <1>1, <2>1, <2>2 DEF Known
<1>15. CASE WaitVideo(i)
  <2>1. w.at = "wait"
    BY <1>15 DEF WaitVideo
  <2>2. CASE FailVideo(i, s) /\ UNCHANGED open
    <3>1. shot'[i] = [s EXCEPT !.vid = "failed"] /\ work'[i].at \in {"finish", "end"} /\ work'[i].rid = w.rid
      BY <1>1, <1>7, <2>2
    <3> QED
      BY <1>1, <2>2, <3>1 DEF Known, Shot
  <2>3. CASE open' = [open EXCEPT ![i] = FALSE]
    <3>1. \/ /\ shot'[i] = [s EXCEPT !.vid = "done", !.vv = w.rid] /\ work'[i].at = "mark2" /\ work'[i].rid = w.rid
          \/ FailVideo(i, [s EXCEPT !.rid = 0])
          \/ FailVideo(i, s) /\ UNCHANGED open
      BY <1>4, <1>6, <1>15 DEF WaitVideo
    <3>2. ~open'[i]
      BY <1>0, <2>3
    <3>3. CASE shot'[i] = [s EXCEPT !.vid = "done", !.vv = w.rid] /\ work'[i].at = "mark2" /\ work'[i].rid = w.rid
      BY <1>1, <2>1, <3>2, <3>3 DEF Known, Shot
    <3>4. CASE FailVideo(i, [s EXCEPT !.rid = 0])
      <4>1. [s EXCEPT !.rid = 0] \in Shot
        BY <1>1 DEF Shot
      <4>2. shot'[i] = [[s EXCEPT !.rid = 0] EXCEPT !.vid = "failed"] /\ work'[i].at \in {"finish", "end"} /\ work'[i].rid = w.rid
        BY <1>7, <3>4, <4>1
      <4>3. shot'[i].iv = s.iv /\ shot'[i].vv = s.vv /\ shot'[i].rid = 0
        BY <1>1, <4>2 DEF Shot
      <4>4. s.iv \in Nat
        BY <1>1 DEF Shot
      <4> QED
        BY <1>1, <3>2, <4>2, <4>3, <4>4 DEF Known
    <3> QED
      BY <2>2, <3>1, <3>3, <3>4
  <2> QED
    BY <1>15, <2>2, <2>3 DEF WaitVideo
<1>16. CASE FinishShot(i)
  BY <1>1, <1>4, <1>16 DEF FinishShot, Known
<1>17. CASE unlockShot(i)
  <2>1. shot'[i] = s /\ open'[i] = o /\ work'[i] = NoWork
    BY <1>0, <1>17 DEF unlockShot, record
  <2> QED
    BY <1>1, <2>1, KnownAtRest DEF Known
<1> QED
  BY <1>9, <1>10, <1>11, <1>12, <1>13, <1>14, <1>15, <1>16, <1>17 DEF OneShot

LEMMA VideoInit == Init => VideoInv
  BY DEF Init, VideoInv, Known, NoShot, NoWork

LEMMA VideoNext == LockInv /\ LockInv' /\ VideoInv /\ [Next]_vars => VideoInv'
<1> SUFFICES ASSUME LockInv, LockInv', VideoInv, [Next]_vars PROVE VideoInv'
  OBVIOUS
<1>0. TypeInv /\ TypeInv'
  BY DEF LockInv
<1>1. UNCHANGED <<shot, work, open>> => VideoInv'
  BY VideoFrame DEF VideoInv
<1>2. ASSUME NEW c \in Callers, Locking(c) PROVE VideoInv'
  BY <1>1, <1>2 DEF Locking, StoreLock, Recheck, record
<1>3. ASSUME NEW c \in Callers, NEW op \in Short \cup Regen, NEW i \in Shots \cup {0}, Ask(c, op, i) PROVE VideoInv'
  BY <1>1, <1>3 DEF Ask, record
<1>4. CASE Crash
  <2>1. \A i \in Shots : shot[i] \in Shot /\ open[i] \in BOOLEAN
    BY <1>0 DEF TypeInv
  <2>2. \A i \in Shots : work'[i] = NoWork /\ shot'[i] = shot[i] /\ open'[i] = open[i]
    BY <1>4 DEF Crash, record
  <2> QED
    BY <2>1, <2>2, KnownAtRest DEF VideoInv, Known
<1>5. CASE UNCHANGED vars
  BY <1>1, <1>5 DEF vars
<1>6. CASE Next
  BY <1>0, <1>2, <1>3, <1>4, <1>6, HandlingVideos, JobsVideos, OneShotVideos DEF Next
<1> QED
  BY <1>5, <1>6

LEMMA VideosKnown == Spec => [](LockInv /\ VideoInv)
<1>1. Init => LockInv /\ VideoInv
  BY LockInit, VideoInit
<1>2. LockInv /\ VideoInv /\ [Next]_vars => (LockInv /\ VideoInv)'
  BY LockNext, VideoNext
<1> QED
  BY <1>1, <1>2, PTL DEF Spec

\* Every state of a short, its locks, its goroutines and its requests is well
\* typed, and a video is of an image that the shot has had (types.go, service.go).
THEOREM TypeCorrect == Spec => []TypeOK
<1>1. LockInv /\ VideoInv => TypeOK
  BY DEF LockInv, VideoInv, TypeInv, TypeOK, Shot, Work, Story, Call, Progress, Stages, Known
<1> QED
  BY <1>1, VideosKnown, PTL

\* A paid video is never submitted while one for the same image may still be
\* under way (generateOneShot, StartVideoAspect), through failures, answers
\* that got lost, retries, continuations and crashes.
THEOREM PaidOnce == Spec => NoDoubleSubmission
<1>1. LockInv /\ VideoInv /\ [Next]_vars => [SubmitsClosedOnly]_vars
  <2> SUFFICES ASSUME LockInv, VideoInv, [Next]_vars, NEW j \in Shots, submits'[j] > submits[j] PROVE ~open[j]
    BY DEF SubmitsClosedOnly
  <2>1. submits \in [Shots -> Nat]
    BY DEF LockInv, TypeInv
  <2>2. submits' # submits
    BY <2>1
  <2>3. PICK i \in Shots : SendVideo(i)
    <3>1. ~UNCHANGED vars /\ ~Crash /\ ~Jobs
      BY <2>2 DEF vars, Crash, Jobs, StartShots, FinishShots, Assemble, generateCharacters
    <3>2. \A c \in Callers : ~Locking(c) /\ ~Handling(c)
      BY <2>2 DEF Locking, StoreLock, Recheck, Handling, Recover, UpdateShot, reapplyShotStyles, Storyboard,
                  GenerateAll, AssembleAsync, RegenerateCharacter, RegenerateShot
    <3>3. \A c \in Callers, op \in Short \cup Regen, i \in Shots \cup {0} : ~Ask(c, op, i)
      BY <2>2 DEF Ask
    <3>4. \A i \in Shots : OneShot(i) => SendVideo(i)
      BY <2>2 DEF OneShot, StartImage, generateShotImage, MarkImage, StartVideo, PrepareSubmit, SaveRequest,
                  WaitVideo, MarkVideo, FinishShot, unlockShot
    <3> QED
      BY <3>1, <3>2, <3>3, <3>4 DEF Next
  <2>4. j = i
    BY <2>1, <2>3 DEF SendVideo
  <2> QED
    BY <2>3, <2>4 DEF SendVideo, VideoInv, Known
<1> QED
  BY <1>1, VideosKnown, PTL DEF Spec, NoDoubleSubmission

-----------------------------------------------------------------------------
(* The draft                                                               *)

Marking == {"mark", "mark2"}

\* A draft is made of shots that are ready, which nobody works on meanwhile.
DraftInv ==
  /\ DraftIsCurrent
  /\ job = "assembling" => \A i \in Shots : ShotReady(i)

\* A draft that is marked, or whose shots stay as they are, shows them.
LEMMA DraftMarked ==
  ASSUME markDraftStale, TypeInv
  PROVE  DraftIsCurrent'
  BY DEF markDraftStale, DraftIsCurrent, TypeInv

LEMMA DraftFrame ==
  ASSUME DraftIsCurrent, draft' = draft, crashes' = crashes,
         \A i \in Shots : \/ work'[i].at \in Marking
                          \/ /\ shot'[i].iv = shot[i].iv /\ shot'[i].vv = shot[i].vv
                             /\ work[i].at \notin Marking
  PROVE  DraftIsCurrent'
  BY DEF DraftIsCurrent, ShowsShot, Marking

LEMMA HandlingDraft ==
  ASSUME LockInv, TypeInv', DraftInv, NEW c \in Callers, Handling(c)
  PROVE  DraftInv'
<1>0. shot \in [Shots -> Shot] /\ work \in [Shots -> Work] /\ DraftIsCurrent /\ TypeInv
  BY DEF LockInv, TypeInv, DraftInv
<1>1. CASE RegenerateShot(c)
  <2>1. call[c].i \in Shots /\ work[call[c].i] = NoWork /\ job = "off"
    BY <1>1, NobodyWorksOnIt DEF RegenerateShot
  <2>2. job' = "off"
    BY <1>1, <2>1 DEF RegenerateShot
  <2>3. CASE call[c].op = "image"
    BY <1>0, <1>1, <2>2, <2>3, DraftMarked DEF RegenerateShot, DraftInv
  <2>4. CASE call[c].op # "image"
    <3>1. draft' = draft /\ crashes' = crashes
      BY <1>1, <2>4 DEF RegenerateShot, bounds
    <3>2. \A i \in Shots : shot'[i].iv = shot[i].iv /\ shot'[i].vv = shot[i].vv
      BY <1>0, <1>1, <2>1, <2>4, RegenerateKeeps DEF RegenerateShot
    <3>3. \A i \in Shots : work[i].at \in Marking => work'[i].at \in Marking
      <4>1. \A j \in Shots \ {call[c].i} : work'[j] = work[j]
        BY <1>0, <1>1, <2>1 DEF RegenerateShot
      <4> QED
        BY <2>1, <4>1 DEF NoWork, Marking
    <3> QED
      BY <1>0, <2>2, <3>1, <3>2, <3>3, DraftFrame DEF DraftInv
  <2> QED
    BY <2>3, <2>4
<1>2. CASE ~RegenerateShot(c)
  <2>1. call[c].at = "held" /\ call[c].op \in Short /\ UNCHANGED <<work, crashes>>
    BY <1>2 DEF Handling, Recover, UpdateShot, reapplyShotStyles, Storyboard, GenerateAll, AssembleAsync,
                RegenerateCharacter, Holds, Short, bounds
  <2>2. job = "off" /\ \A i \in Shots : work[i] = NoWork
    BY <2>1, NobodyWorks
  <2>3. \A i \in Shots : work[i].at \notin Marking
    BY <2>2 DEF NoWork, Marking
  <2>4. CASE Recover(c)
    <3>1. draft' = draft /\ job' = "off"
      BY <2>2, <2>4 DEF Recover, Release
    <3>2. \A i \in Shots : shot'[i].iv = shot[i].iv /\ shot'[i].vv = shot[i].vv
      BY <2>4, RecoverKeeps
    <3> QED
      BY <1>0, <2>1, <2>3, <3>1, <3>2, DraftFrame DEF DraftInv
  <2>5. CASE UpdateShot(c) \/ reapplyShotStyles(c)
    <3>1. markDraftStale /\ job' = "off"
      BY <2>2, <2>5 DEF UpdateShot, reapplyShotStyles, Release
    <3> QED
      BY <1>0, <3>1, DraftMarked DEF DraftInv
  <2>6. CASE Storyboard(c)
    <3>1. job' = "off" /\ (markDraftStale \/ UNCHANGED <<shot, draft>>)
      BY <2>2, <2>6 DEF Storyboard, Release, record
    <3> QED
      BY <1>0, <2>1, <2>3, <3>1, DraftMarked, DraftFrame DEF DraftInv
  <2>7. CASE GenerateAll(c) \/ RegenerateCharacter(c) \/ AssembleAsync(c)
    <3>1. UNCHANGED <<shot, draft, story>>
      BY <2>7 DEF GenerateAll, RegenerateCharacter, AssembleAsync, record
    <3>2. job' = "assembling" => \A i \in Shots : ShotReady(i)
      BY <2>2, <2>7 DEF GenerateAll, RegenerateCharacter, AssembleAsync, Release
    <3>3. \A i \in Shots : ShotReady(i)' <=> ShotReady(i)
      BY <3>1 DEF ShotReady
    <3> QED
      BY <1>0, <2>1, <2>3, <3>1, <3>2, <3>3, DraftFrame DEF DraftInv
  <2> QED
    BY <1>2, <2>4, <2>5, <2>6, <2>7 DEF Handling
<1> QED
  BY <1>1, <1>2

LEMMA JobsDraft ==
  ASSUME LockInv, TypeInv', VideoInv, DraftInv, Jobs
  PROVE  DraftInv'
<1>0. shot \in [Shots -> Shot] /\ work \in [Shots -> Work] /\ DraftIsCurrent /\ shot' = shot /\ crashes' = crashes
  BY DEF LockInv, TypeInv, DraftInv, Jobs, StartShots, FinishShots, Assemble, generateCharacters, bounds
<1>1. job' # "assembling"
  BY DEF Jobs, StartShots, FinishShots, Assemble, generateCharacters, Off
<1>2. \A i \in Shots : work[i].at \notin Marking \/ UNCHANGED work
  <2>1. CASE job \notin {"off", "shots"}
    BY <2>1, NobodyElseWorks DEF NoWork, Marking
  <2>2. CASE FinishShots
    BY <2>2 DEF FinishShots, Marking
  <2> QED
    BY <2>1, <2>2 DEF Jobs, StartShots, Assemble, generateCharacters
<1>3. CASE draft' = draft
  BY <1>0, <1>1, <1>2, <1>3, DraftFrame DEF DraftInv
<1>4. CASE draft' # draft
  <2>1. job = "assembling" /\ draft'.of = Versions
    BY <1>4 DEF Jobs, StartShots, FinishShots, Assemble, generateCharacters
  <2>2. ASSUME NEW i \in Shots
        PROVE  /\ draft'.of[i][1] = shot[i].iv /\ draft'.of[i][2] = shot[i].vv
               /\ shot[i].iv # 0 /\ (draft'.of[i][3] => shot[i].vv # 0)
    <3>1. ShotReady(i) /\ shot[i].vv <= shot[i].iv /\ shot[i].iv \in Nat /\ shot[i].vv \in Nat
      BY <1>0, <2>1 DEF DraftInv, VideoInv, Known, Shot
    <3> DEFINE v == i \in story.needs
    <3>2. draft'.of[i] = <<shot[i].iv, shot[i].vv, v>>
      BY <2>1, Zenon DEF Versions
    <3>3. v => shot[i].vv # 0
      BY <3>1 DEF ShotReady
    <3>4. shot[i].iv # 0
      BY <3>1 DEF ShotReady
    <3> HIDE DEF v
    <3> QED
      BY <3>2, <3>3, <3>4
  <2> QED
    BY <1>0, <1>1, <2>2 DEF DraftInv, DraftIsCurrent, ShowsShot
<1> QED
  BY <1>3, <1>4

LEMMA OneShotDraft ==
  ASSUME LockInv, TypeInv', DraftInv, NEW i \in Shots, OneShot(i)
  PROVE  DraftInv'
<1>0. shot \in [Shots -> Shot] /\ work \in [Shots -> Work] /\ DraftIsCurrent /\ TypeInv
  BY DEF LockInv, TypeInv, DraftInv
<1>1. job' = job /\ job # "assembling" /\ crashes' = crashes
  <2>1. work[i] # NoWork
    BY DEF OneShot, StartImage, generateShotImage, MarkImage, StartVideo, PrepareSubmit, SendVideo, SaveRequest,
           WaitVideo, MarkVideo, FinishShot, unlockShot, NoWork
  <2>2. job # "assembling"
    BY <2>1, NobodyElseWorks
  <2> QED
    BY <2>2 DEF OneShot, StartImage, generateShotImage, MarkImage, StartVideo, PrepareSubmit, SendVideo, SaveRequest,
           WaitVideo, MarkVideo, FinishShot, unlockShot, Rest, locks, bounds
<1>2. SUFFICES DraftIsCurrent'
  BY <1>1 DEF DraftInv
<1>3. CASE MarkImage(i) \/ MarkVideo(i)
  BY <1>0, <1>3, DraftMarked DEF MarkImage, MarkVideo
<1>4. CASE ~MarkImage(i) /\ ~MarkVideo(i)
  <2>1. draft' = draft /\ work[i].at \notin Marking
    BY <1>4 DEF OneShot, StartImage, generateShotImage, StartVideo, PrepareSubmit, SendVideo, SaveRequest,
           WaitVideo, FinishShot, unlockShot, Marking, record
  <2>2. \A j \in Shots \ {i} : shot'[j] = shot[j] /\ work'[j] = work[j]
    BY <1>0 DEF OneShot, StartImage, generateShotImage, MarkImage, StartVideo, PrepareSubmit, SendVideo, SaveRequest,
              WaitVideo, MarkVideo, FinishShot, unlockShot, FailVideo, To, Set, Done, record
  <2> DEFINE Keeps(t) == t.iv = shot[i].iv /\ t.vv = shot[i].vv
  <2>3. shot[i] \in Shot /\ Keeps(shot[i])
    BY <1>0
  <2>4. (\A t : Set(i, t) /\ Keeps(t) => Keeps(shot'[i])) /\ \A t \in Shot : FailVideo(i, t) /\ Keeps(t) => Keeps(shot'[i])
    <3>1. \A t : Set(i, t) => shot'[i] = t
      BY <1>0 DEF Set
    <3> QED
      BY <3>1 DEF FailVideo, Shot
  <2>5. /\ Keeps([shot[i] EXCEPT !.img = "running"]) /\ Keeps([shot[i] EXCEPT !.img = "failed"])
        /\ Keeps([shot[i] EXCEPT !.vid = "running"]) /\ Keeps([shot[i] EXCEPT !.vid = "failed"])
        /\ Keeps([shot[i] EXCEPT !.unc = TRUE, !.rid = 0])
        /\ Keeps([shot[i] EXCEPT !.rid = work[i].rid, !.unc = FALSE])
    BY <2>3 DEF Shot
  <2>8. \A b \in BOOLEAN : [shot[i] EXCEPT !.unc = b] \in Shot /\ Keeps([shot[i] EXCEPT !.unc = b])
    BY <2>3 DEF Shot
  <2>9. [shot[i] EXCEPT !.rid = 0] \in Shot /\ Keeps([shot[i] EXCEPT !.rid = 0])
    BY <2>3 DEF Shot
  <2>6. work'[i].at \in Marking \/ Keeps(shot'[i])
    <3> HIDE DEF Keeps
    <3>1. CASE StartImage(i)
      BY <3>1, <2>4, <2>5 DEF StartImage
    <3>2. CASE StartVideo(i)
      BY <3>2, <2>3, <2>4, <2>5 DEF StartVideo
    <3>3. CASE PrepareSubmit(i)
      <4>1. UNCHANGED shot => Keeps(shot'[i])
        BY <2>3
      <4> QED
        BY <3>3, <2>3, <2>4, <2>5, <4>1 DEF PrepareSubmit
    <3>4. CASE SaveRequest(i)
      BY <3>4, <2>4, <2>5 DEF SaveRequest
    <3>5. CASE SendVideo(i)
      <4>1. UNCHANGED shot => Keeps(shot'[i])
        BY <2>3
      <4> QED
        BY <3>5, <2>4, <2>8, <4>1 DEF SendVideo
    <3>6. CASE generateShotImage(i)
      <4>1. CASE work' = [work EXCEPT ![i] = [work[i] EXCEPT !.at = "mark", !.rid = 0, !.unc = FALSE]]
        <5>1. work'[i].at = "mark"
          BY <1>0, <4>1 DEF Work
        <5> QED
          BY <5>1 DEF Marking
      <4> QED
        BY <3>6, <2>4, <2>5, <4>1 DEF generateShotImage
    <3>7. CASE WaitVideo(i)
      <4>1. To(i, "mark2") => work'[i].at \in Marking
        BY <1>0 DEF To, Work, Marking
      <4> QED
        BY <3>7, <2>3, <2>4, <2>9, <4>1 DEF WaitVideo
    <3>8. CASE FinishShot(i) \/ unlockShot(i)
      <4>1. UNCHANGED shot => Keeps(shot'[i])
        BY <2>3
      <4> QED
        BY <3>8, <4>1 DEF FinishShot, unlockShot, record
    <3> QED
      BY <1>4, <3>1, <3>2, <3>3, <3>4, <3>5, <3>6, <3>7, <3>8 DEF OneShot
  <2>7. \A j \in Shots : \/ work'[j].at \in Marking
                         \/ /\ shot'[j].iv = shot[j].iv /\ shot'[j].vv = shot[j].vv
                            /\ work[j].at \notin Marking
    BY <2>1, <2>2, <2>6
  <2> QED
    BY <1>0, <1>1, <2>1, <2>7, DraftFrame
<1> QED
  BY <1>3, <1>4

LEMMA DraftNext == LockInv /\ LockInv' /\ VideoInv /\ DraftInv /\ [Next]_vars => DraftInv'
<1> SUFFICES ASSUME LockInv, LockInv', VideoInv, DraftInv, [Next]_vars PROVE DraftInv'
  OBVIOUS
<1>0. TypeInv /\ TypeInv'
  BY DEF LockInv
<1>1. UNCHANGED <<shot, work, story, draft, job, crashes>> => DraftInv'
  BY DEF DraftInv, DraftIsCurrent, ShowsShot, ShotReady
<1>2. ASSUME NEW c \in Callers, Locking(c) PROVE DraftInv'
  BY <1>1, <1>2 DEF Locking, StoreLock, Recheck, record, bounds
<1>3. ASSUME NEW c \in Callers, NEW op \in Short \cup Regen, NEW i \in Shots \cup {0}, Ask(c, op, i) PROVE DraftInv'
  BY <1>1, <1>3 DEF Ask, record
<1>4. CASE Crash
  BY <1>0, <1>4 DEF Crash, DraftInv, DraftIsCurrent, TypeInv
<1>5. CASE UNCHANGED vars
  BY <1>1, <1>5 DEF vars
<1>6. CASE Next
  BY <1>0, <1>2, <1>3, <1>4, <1>6, HandlingDraft, JobsDraft, OneShotDraft DEF Next
<1> QED
  BY <1>5, <1>6

\* A draft that is not marked as stale shows every shot as it is now and was
\* made of shots that all had what they need (AssembleAsync, markDraftStale),
\* unless the console was stopped between the two writes of a new image.
THEOREM DraftCorrect == Spec => []DraftIsCurrent
<1>1. Init => LockInv /\ VideoInv /\ DraftInv
  BY LockInit, VideoInit DEF Init, NoDraft, DraftInv, DraftIsCurrent
<1>2. LockInv /\ VideoInv /\ DraftInv /\ [Next]_vars => (LockInv /\ VideoInv /\ DraftInv)'
  BY LockNext, VideoNext, DraftNext
<1>3. DraftInv => DraftIsCurrent
  BY DEF DraftInv
<1> QED
  BY <1>1, <1>2, <1>3, PTL DEF Spec

(***************************************************************************)
(* ImageProject, for any numbered items, any mode, and any number of       *)
(* requests, failures and restarts.                                        *)
(*                                                                         *)
(* An image that is not yet shown is known to the agent that made it and   *)
(* to nobody else, and one that is replaced belongs to one item (Pictures),*)
(* so no agent removes the image another item, or a later plan, shows.     *)
(***************************************************************************)
CONSTANTS Items, Mode, MaxFails
VARIABLES row, item, files, drawn, active, agent, videoJobs, fails

Images == INSTANCE ImageProject

Project == [here : BOOLEAN, phase : Images!Phases \cup {"idle"}, run : {"idle", "running", "failed", "completed"},
            status : {"draft", "generating", "partial", "ready", "failed"}]
Picture == {Images!NoImage} \cup [id : Nat \ {0}, text : Nat]
Segment == [plan : Nat, st : {"none", "pending", "generating", "ready", "failed"}, text : Nat, image : Picture]
Places == {"idle", "loop", "planning", "prompting", "generate", "mark", "draw", "save", "replace", "sum", "put",
           "settle", "finish", "failing", "leave", "edit", "delete", "sweep", "resume", "start"}
Doing == [pc : Places, kind : {"none"}, phase : Images!Phases \cup {"idle", "none"}, snap : [Items -> Segment],
          todo : SUBSET Items, left : SUBSET Items,
          status : {"none", "draft", "partial", "ready", "failed"}, image : Picture]

\* What each variable of an image project is.
ImageTables ==
  /\ row \in Project /\ item \in [Items -> Segment] /\ drawn \in Nat /\ files \subseteq 1..drawn
  /\ agent \in [Images!Agents -> Doing]

\* Who has an image to save has one that is new: it is on disk and nobody else knows of it.
Secret(a) ==
  /\ agent[a].image # Images!NoImage /\ agent[a].image.id \in files
  /\ \A i \in Items : item[i].image.id # agent[a].image.id
  /\ \A b \in Images!Agents, i \in Items : agent[b].snap[i].image.id # agent[a].image.id
  /\ \A b \in Images!Agents \ {a} : agent[b].pc = "save" => agent[b].image.id # agent[a].image.id

\* The image that is about to be removed is shown by nothing.
Replaced(a) ==
  LET i == Images!First(agent[a].left)
  IN agent[a].snap[i].image # Images!NoImage /\ item[i].image.id # agent[a].snap[i].image.id

\* Images have numbers that were given out, and belong to one item.
OfOneItem ==
  /\ \A i \in Items : item[i].image.id <= drawn
  /\ \A a \in Images!Agents, i \in Items : agent[a].snap[i].image.id <= drawn
  /\ \A a \in Images!Agents : agent[a].image.id <= drawn
  /\ \A i, j \in Items : i # j /\ item[i].image # Images!NoImage => item[i].image.id # item[j].image.id
  /\ \A a \in Images!Agents, i, j \in Items :
        i # j /\ agent[a].snap[i].image # Images!NoImage => agent[a].snap[i].image.id # item[j].image.id

\* Whoever goes through a list of items has one at hand, and who writes a status has one.
AtHand ==
  \A a \in Images!Agents : /\ agent[a].pc \in {"mark", "draw", "save", "replace"} => agent[a].left # {}
                           /\ agent[a].pc = "mark" => agent[a].todo # {}
                           /\ agent[a].pc = "put" => agent[a].status # "none"

\* The items of a deleted project are gone, and its files are removed after it.
Emptied ==
  /\ ~row.here => item = [i \in Items |-> Images!NoItem]
  /\ \A a \in Images!Agents : agent[a].pc = "sweep" => ~row.here

Pictures ==
  /\ OfOneItem
  /\ \A a \in Images!Agents : /\ agent[a].pc = "save" => Secret(a)
                              /\ agent[a].pc = "replace" => Replaced(a)
  /\ \A i \in Items : item[i].image # Images!NoImage => item[i].image.id \in files

\* The job has read the phase it is in, and so has who resumes it; a manual project has no job.
Run ==
  /\ active = (agent["job"].pc # "idle")
  /\ \A a \in Images!Agents : agent[a].pc = "resume" => agent[a].phase \in Images!Phases
  /\ agent["job"].pc \notin {"idle", "loop", "leave"} => agent["job"].phase \in Images!Phases
  /\ Mode = "manual" => agent["job"].pc = "idle" /\ \A a \in Images!Agents : agent[a].pc \notin {"resume", "start"}
  /\ Mode # "manual" => row.phase \in Images!Phases

ImageInv == ImageTables /\ AtHand /\ Emptied /\ Pictures /\ Run

\* The first of some items is one of them.
LEMMA FirstIsThere ==
  ASSUME Images!ItemAssumption, NEW S \in SUBSET Items, S # {}
  PROVE  Images!First(S) \in S
<1> DEFINE R == {x \in Nat \X Nat : x[1] < x[2]}
<1>0. S \subseteq Nat
  BY DEF Images!ItemAssumption
<1>1. IsWellFoundedOn(R, Nat)
  BY NatLessThanWellFounded DEF OpToRel
<1>2. PICK n \in S : \A y \in S : ~(<<y, n>> \in R)
  BY <1>0, <1>1, WFMin
<1>3. \A y \in S : n <= y
  <2> SUFFICES ASSUME NEW y \in S, ~(n <= y) PROVE FALSE
    OBVIOUS
  <2>1. y \in Nat /\ n \in Nat /\ y < n
    BY <1>0
  <2> QED
    BY <1>2, <2>1
<1> HIDE DEF R
<1> QED
  BY <1>3 DEF Images!First

\* An agent goes on.
LEMMA GoesOn ==
  ASSUME ImageTables, NEW a \in Images!Agents, NEW pc, Images!Go(a, pc)
  PROVE  /\ \A b \in Images!Agents : b # a => agent'[b] = agent[b]
         /\ agent'[a] = [agent[a] EXCEPT !.pc = pc] /\ agent'[a].pc = pc
         /\ agent'[a].image = agent[a].image /\ agent'[a].snap = agent[a].snap /\ agent'[a].left = agent[a].left
         /\ agent'[a].phase = agent[a].phase
         /\ pc \in Places => agent' \in [Images!Agents -> Doing]
<1>1. agent[a] \in Doing
  BY DEF ImageTables
<1>2. agent' = [agent EXCEPT ![a] = [agent[a] EXCEPT !.pc = pc]]
  BY DEF Images!Go
<1>3. pc \in Places => [agent[a] EXCEPT !.pc = pc] \in Doing
  BY <1>1 DEF Doing
<1> QED
  BY <1>1, <1>2, <1>3 DEF ImageTables, Doing

\* A step that neither makes, places nor removes an image.
Quiet ==
  /\ files' = files /\ drawn' = drawn
  /\ \A i \in Items : item'[i].image \in {item[i].image, Images!NoImage}
  /\ \A a \in Images!Agents :
        /\ agent'[a].image \in {agent[a].image, Images!NoImage}
        /\ agent'[a].snap \in {agent[a].snap, item, [i \in Items |-> Images!NoItem]}
        /\ agent'[a].pc = "save" => agent[a].pc = "save" /\ agent'[a].image = agent[a].image
        /\ agent'[a].pc = "replace" => agent'[a] = agent[a]

LEMMA QuietKeeps ==
  ASSUME Images!ItemAssumption, ImageTables, ImageTables', AtHand, Pictures, Quiet
  PROVE  Pictures'
<1>0. Images!NoImage.id = 0 /\ Images!NoItem.image = Images!NoImage
  BY DEF Images!NoImage, Images!NoItem
<1>1. /\ \A i \in Items : item[i].image \in Picture /\ item'[i].image \in Picture
      /\ \A a \in Images!Agents : agent[a].image \in Picture /\ agent'[a].image \in Picture
      /\ \A a \in Images!Agents, i \in Items : agent[a].snap[i].image \in Picture /\ agent'[a].snap[i].image \in Picture
  BY DEF ImageTables, Segment, Doing
<1>2. \A p \in Picture : p.id \in Nat /\ (p # Images!NoImage => p.id # 0)
  BY <1>0 DEF Picture, Images!NoImage
<1>3. \A a \in Images!Agents, i \in Items :
         agent'[a].snap[i].image \in {agent[a].snap[i].image, item[i].image, Images!NoImage}
  <2> SUFFICES ASSUME NEW a \in Images!Agents, NEW i \in Items
               PROVE  agent'[a].snap[i].image \in {agent[a].snap[i].image, item[i].image, Images!NoImage}
    OBVIOUS
  <2>1. CASE agent'[a].snap = agent[a].snap
    BY <2>1
  <2>2. CASE agent'[a].snap = item
    BY <2>2
  <2>3. CASE agent'[a].snap = [j \in Items |-> Images!NoItem]
    BY <2>3, <1>0
  <2> QED
    BY <2>1, <2>2, <2>3 DEF Quiet
<1>4. OfOneItem'
  <2> USE DEF OfOneItem, Pictures
  <2>1. (\A i \in Items : item[i].image.id <= drawn)'
    BY <1>0, <1>1, <1>2 DEF Quiet, ImageTables
  <2>2. (\A a \in Images!Agents, i \in Items : agent[a].snap[i].image.id <= drawn)'
    BY <1>0, <1>1, <1>2, <1>3 DEF Quiet, ImageTables
  <2>3. (\A a \in Images!Agents : agent[a].image.id <= drawn)'
    BY <1>0, <1>1, <1>2 DEF Quiet, ImageTables
  <2>4. (\A i, j \in Items : i # j /\ item[i].image # Images!NoImage => item[i].image.id # item[j].image.id)'
    BY <1>0, <1>1, <1>2 DEF Quiet
  <2>5. (\A a \in Images!Agents, i, j \in Items :
            i # j /\ agent[a].snap[i].image # Images!NoImage => agent[a].snap[i].image.id # item[j].image.id)'
    <3> SUFFICES ASSUME NEW a \in Images!Agents, NEW i \in Items, NEW j \in Items, i # j,
                        agent'[a].snap[i].image # Images!NoImage
                 PROVE  agent'[a].snap[i].image.id # item'[j].image.id
      OBVIOUS
    <3>1. item'[j].image = item[j].image \/ item'[j].image = Images!NoImage
      BY DEF Quiet
    <3>2. agent'[a].snap[i].image = agent[a].snap[i].image \/ agent'[a].snap[i].image = item[i].image
      BY <1>3
    <3> QED
      BY <1>0, <1>1, <1>2, <3>1, <3>2
  <2> QED
    BY <2>1, <2>2, <2>3, <2>4, <2>5
<1>5. ASSUME NEW a \in Images!Agents, agent'[a].pc = "save" PROVE Secret(a)'
  <2>1. agent[a].pc = "save" /\ agent'[a].image = agent[a].image /\ Secret(a)
    BY <1>5 DEF Quiet, Pictures
  <2>2. \A i \in Items : item'[i].image.id # agent[a].image.id
    BY <1>0, <1>1, <1>2, <2>1 DEF Quiet, Secret
  <2>3. \A b \in Images!Agents, i \in Items : agent'[b].snap[i].image.id # agent[a].image.id
    BY <1>0, <1>1, <1>2, <1>3, <2>1 DEF Secret
  <2>4. \A b \in Images!Agents \ {a} : agent'[b].pc = "save" => agent'[b].image.id # agent[a].image.id
    BY <2>1 DEF Secret, Quiet
  <2> QED
    BY <2>1, <2>2, <2>3, <2>4 DEF Secret, Quiet
<1>6. ASSUME NEW a \in Images!Agents, agent'[a].pc = "replace" PROVE Replaced(a)'
  <2>1. agent'[a] = agent[a] /\ Replaced(a) /\ agent[a].left \in SUBSET Items /\ agent[a].left # {}
    <3>1. agent'[a] = agent[a] /\ agent[a].pc = "replace"
      BY <1>6 DEF Quiet
    <3>2. Replaced(a) /\ agent[a].left # {}
      BY <3>1 DEF Pictures, AtHand
    <3> QED
      BY <3>1, <3>2 DEF ImageTables, Doing
  <2> DEFINE i == Images!First(agent[a].left)
  <2>2. i \in Items /\ agent[a].snap[i].image # Images!NoImage /\ item[i].image.id # agent[a].snap[i].image.id
    BY <2>1, FirstIsThere DEF Replaced
  <2> HIDE DEF i
  <2>3. item'[i].image.id # agent[a].snap[i].image.id
    BY <1>0, <1>1, <1>2, <2>2 DEF Quiet
  <2> QED
    BY <2>1, <2>2, <2>3 DEF Replaced, i
<1>7. \A i \in Items : item'[i].image # Images!NoImage => item'[i].image.id \in files'
  BY DEF Quiet, Pictures
<1> QED
  BY <1>4, <1>5, <1>6, <1>7 DEF Pictures

\* What a step leaves to show once it is quiet.
Regular == ImageTables' /\ AtHand' /\ Emptied' /\ Quiet

\* A step of one agent that moves nothing but its own place keeps the rest.
LEMMA MoveIsQuiet ==
  ASSUME ImageInv, NEW a \in Images!Agents, NEW pc \in Places \ {"mark", "draw", "save", "replace", "put"},
         Images!Go(a, pc), item' = item, files' = files, drawn' = drawn, row' \in Project,
         row'.here = row.here, pc = "sweep" => ~row.here
  PROVE  Regular
<1>1. /\ \A b \in Images!Agents : b # a => agent'[b] = agent[b]
      /\ agent'[a].pc = pc /\ agent'[a].image = agent[a].image /\ agent'[a].snap = agent[a].snap
      /\ agent' \in [Images!Agents -> Doing]
  BY GoesOn DEF ImageInv
<1>2. ImageTables'
  BY <1>1 DEF ImageInv, ImageTables
<1>3. AtHand' /\ Emptied'
  BY <1>1 DEF ImageInv, AtHand, Emptied
<1>4. Quiet
  BY <1>1 DEF Quiet
<1> QED
  BY <1>2, <1>3, <1>4 DEF Regular

\* What follows a list of items.
LEMMA AfterPlace ==
  ASSUME NEW a, NEW ok \in BOOLEAN
  PROVE  Images!After(a, ok) \in Places \ {"mark", "draw", "save", "replace", "put", "sweep"}
BY DEF Images!After, Places

\* A step of one agent of which the rest of the agents take no notice.
LEMMA OtherAgents ==
  ASSUME ImageTables, NEW a \in Images!Agents, NEW r \in Doing, agent' = [agent EXCEPT ![a] = r]
  PROVE  /\ agent' \in [Images!Agents -> Doing] /\ agent'[a] = r
         /\ \A b \in Images!Agents : b # a => agent'[b] = agent[b]
BY DEF ImageTables

LEMMA BeginsQuietly ==
  ASSUME Images!ItemAssumption, ImageInv, NEW a \in Images!Agents, Images!GenerateBegins(a)
  PROVE  Regular
<1>0. ImageTables /\ row \in Project /\ agent[a] \in Doing /\ item' = item /\ files' = files /\ drawn' = drawn
  BY DEF ImageInv, ImageTables, Images!GenerateBegins
<1>1. CASE Images!Go(a, Images!After(a, TRUE)) /\ row' = row
  BY <1>0, <1>1, AfterPlace, MoveIsQuiet
<1>2. CASE Images!Go(a, Images!After(a, FALSE)) /\ row' = row
  BY <1>0, <1>2, AfterPlace, MoveIsQuiet
<1>3. CASE /\ agent[a].todo # {} /\ row.here /\ Images!MarkProjectStatus("generating")
           /\ agent' = [agent EXCEPT ![a].pc = "mark", ![a].left = agent[a].todo]
  <2> DEFINE r == [agent[a] EXCEPT !.pc = "mark", !.left = agent[a].todo]
  <2>1. r \in Doing /\ r.pc = "mark" /\ r.left = agent[a].todo /\ r.todo = agent[a].todo /\ r.image = agent[a].image /\ r.snap = agent[a].snap
    BY <1>0 DEF Doing, Places
  <2>2. agent' = [agent EXCEPT ![a] = r]
    BY <1>3
  <2> HIDE DEF r
  <2>3. /\ agent' \in [Images!Agents -> Doing] /\ agent'[a] = r
        /\ \A b \in Images!Agents : b # a => agent'[b] = agent[b]
    BY <1>0, <2>1, <2>2, OtherAgents
  <2>4. row' \in Project /\ row'.here = row.here
    BY <1>0, <1>3 DEF Images!MarkProjectStatus, Project
  <2> QED
    BY <1>0, <1>3, <2>1, <2>3, <2>4 DEF Regular, ImageInv, ImageTables, AtHand, Emptied, Quiet
<1> QED
  BY <1>1, <1>2, <1>3 DEF Images!GenerateBegins

\* The item that an agent works on, and what writing it does.
LEMMA ItemAtHand ==
  ASSUME Images!ItemAssumption, ImageInv, NEW a \in Images!Agents,
         agent[a].pc \in {"mark", "draw", "save", "replace"}
  PROVE  /\ Images!First(agent[a].left) \in Items /\ Images!First(agent[a].left) \in agent[a].left
         /\ agent[a] \in Doing /\ agent[a].left \subseteq Items
<1>1. agent[a].left # {}
  BY DEF ImageInv, AtHand
<1>2. agent[a] \in Doing /\ agent[a].left \in SUBSET Items
  BY DEF ImageInv, ImageTables, Doing
<1> QED
  BY <1>1, <1>2, FirstIsThere

\* Writing an item that is there.
LEMMA WritesItem ==
  ASSUME ImageInv, NEW i \in Items, NEW x \in Segment, item' = [item EXCEPT ![i] = x], row' = row, row.here
  PROVE  /\ item' \in [Items -> Segment] /\ item'[i] = x /\ \A j \in Items : j # i => item'[j] = item[j]
         /\ row' \in Project /\ row'.here
BY DEF ImageInv, ImageTables

\* The next item that is left, or the status.
LEMMA NextType ==
  ASSUME Images!ItemAssumption, ImageInv, NEW a \in Images!Agents,
         agent[a].pc \in {"draw", "save", "replace"}, agent' = Images!NextResult(a)
  PROVE  /\ agent' \in [Images!Agents -> Doing] /\ agent'[a].pc \in {"draw", "sum"}
         /\ agent'[a].pc = "draw" => agent'[a].left # {}
         /\ agent'[a].image = agent[a].image /\ agent'[a].snap = agent[a].snap
         /\ \A b \in Images!Agents : b # a => agent'[b] = agent[b]
<1> DEFINE i == Images!First(agent[a].left)
           r == [agent[a] EXCEPT !.left = @ \ {i}, !.pc = IF agent[a].left = {i} THEN "sum" ELSE "draw"]
<1>1. i \in agent[a].left /\ agent[a] \in Doing
  BY ItemAtHand
<1>2. agent' = [agent EXCEPT ![a] = r]
  BY DEF Images!NextResult
<1> HIDE DEF i
<1>a. \A pc \in {"draw", "sum"} :
         LET q == [agent[a] EXCEPT !.left = @ \ {i}, !.pc = pc]
         IN /\ q \in Doing /\ q.pc = pc /\ q.image = agent[a].image /\ q.snap = agent[a].snap
            /\ q.left = agent[a].left \ {i}
  BY <1>1 DEF Doing, Places
<1>3. /\ r \in Doing /\ r.pc \in {"draw", "sum"} /\ r.image = agent[a].image /\ r.snap = agent[a].snap
      /\ r.pc = "draw" => r.left # {}
  <2>1. CASE agent[a].left = {i}
    BY <1>a, <2>1
  <2>2. CASE agent[a].left # {i}
    BY <1>1, <1>a, <2>2
  <2> QED
    BY <2>1, <2>2
<1> HIDE DEF r
<1> QED
  BY <1>2, <1>3, OtherAgents DEF ImageInv

LEMMA MarksQuietly ==
  ASSUME Images!ItemAssumption, ImageInv, NEW a \in Images!Agents, Images!MarkItemGenerating(a)
  PROVE  Regular
<1> DEFINE i == Images!First(agent[a].left)
<1>0. /\ ImageTables /\ row \in Project /\ row' = row /\ files' = files /\ drawn' = drawn
      /\ agent[a].pc = "mark" /\ agent[a] \in Doing /\ i \in Items /\ i \in agent[a].left
  BY ItemAtHand DEF ImageInv, ImageTables, Images!MarkItemGenerating, Images!At
<1>1. CASE item' = item /\ Images!Go(a, Images!After(a, FALSE))
  BY <1>0, <1>1, AfterPlace, MoveIsQuiet
<1>2. CASE /\ Images!SameItem(a, i) /\ item' = [item EXCEPT ![i].st = "generating"]
           /\ agent' = IF agent[a].left = {i} THEN [agent EXCEPT ![a].pc = "draw", ![a].left = agent[a].todo]
                        ELSE [agent EXCEPT ![a].left = @ \ {i}]
  <2> HIDE DEF i
  <2> DEFINE x == [item[i] EXCEPT !.st = "generating"]
  <2>1. x \in Segment /\ x.image = item[i].image
    BY <1>0 DEF ImageTables, Segment
  <2>2. item' = [item EXCEPT ![i] = x] /\ row.here
    BY <1>2 DEF Images!SameItem
  <2> HIDE DEF x
  <2>3. /\ item' \in [Items -> Segment] /\ \A j \in Items : item'[j].image = item[j].image
    BY <1>0, <2>1, <2>2, WritesItem
  <2> DEFINE r == [agent[a] EXCEPT !.pc = "draw", !.left = agent[a].todo]
             s == [agent[a] EXCEPT !.left = @ \ {i}]
  <2>4. /\ r \in Doing /\ s \in Doing /\ r.image = agent[a].image /\ r.snap = agent[a].snap
        /\ s.image = agent[a].image /\ s.snap = agent[a].snap /\ r.pc = "draw" /\ s.pc = "mark"
        /\ r.left = agent[a].todo /\ s.left = agent[a].left \ {i}
        /\ s.todo = agent[a].todo /\ agent[a].todo # {}
    BY <1>0 DEF Doing, Places, ImageInv, AtHand
  <2>5. \/ agent' = [agent EXCEPT ![a] = r]
        \/ agent' = [agent EXCEPT ![a] = s] /\ agent[a].left # {i}
    BY <1>2
  <2> HIDE DEF r, s
  <2> QED
    BY <1>0, <2>2, <2>3, <2>4, <2>5, OtherAgents DEF Regular, ImageInv, ImageTables, AtHand, Emptied, Quiet
<1> QED
  BY <1>1, <1>2 DEF Images!MarkItemGenerating

\* An item that fails keeps its image, or loses it.
FailedItem(a, i) ==
  IF agent[a].snap[i].image # Images!NoImage
  THEN [item[i] EXCEPT !.st = IF agent[a].snap[i].st = "ready" THEN "ready" ELSE "pending"]
  ELSE [item[i] EXCEPT !.st = "failed", !.image = Images!NoImage]

LEMMA FailsQuietly ==
  ASSUME Images!ItemAssumption, ImageInv, NEW a \in Images!Agents, Images!DrawFails(a)
  PROVE  Regular
<1> DEFINE i == Images!First(agent[a].left)
<1>0. /\ ImageTables /\ row \in Project /\ row' = row /\ files' = files /\ drawn' = drawn
      /\ agent[a].pc = "draw" /\ agent[a] \in Doing /\ i \in Items /\ i \in agent[a].left
  BY ItemAtHand DEF ImageInv, ImageTables, Images!DrawFails, Images!At
<1>1. CASE item' = item /\ Images!Go(a, Images!After(a, FALSE))
  BY <1>0, <1>1, AfterPlace, MoveIsQuiet
<1>2. CASE Images!SameItem(a, i) /\ Images!FailItem(a, i) /\ agent' = Images!NextResult(a)
  <2>1. /\ agent' \in [Images!Agents -> Doing] /\ agent'[a].pc \in {"draw", "sum"}
        /\ agent'[a].pc = "draw" => agent'[a].left # {}
        /\ agent'[a].image = agent[a].image /\ agent'[a].snap = agent[a].snap
        /\ \A b \in Images!Agents : b # a => agent'[b] = agent[b]
    BY <1>0, <1>2, NextType
  <2> HIDE DEF i
  <2>2. FailedItem(a, i) \in Segment /\ FailedItem(a, i).image \in {item[i].image, Images!NoImage}
    BY <1>0 DEF ImageTables, Segment, FailedItem, Picture
  <2>3. item' = [item EXCEPT ![i] = FailedItem(a, i)] /\ row.here
    BY <1>2 DEF Images!FailItem, FailedItem, Images!SameItem
  <2>4. item' \in [Items -> Segment] /\ \A j \in Items : item'[j].image \in {item[j].image, Images!NoImage}
    BY <1>0, <2>2, <2>3, WritesItem
  <2> QED
    BY <1>0, <2>1, <2>3, <2>4 DEF Regular, ImageInv, ImageTables, AtHand, Emptied, Quiet
<1> QED
  BY <1>1, <1>2 DEF Images!DrawFails

LEMMA SumsQuietly ==
  ASSUME Images!ItemAssumption, ImageInv, NEW a \in Images!Agents, Images!Summarise(a) \/ Images!PutStatus(a)
  PROVE  Regular
<1>0. /\ ImageTables /\ row \in Project /\ agent[a] \in Doing /\ item' = item /\ files' = files /\ drawn' = drawn
  BY DEF ImageInv, ImageTables, Images!Summarise, Images!PutStatus
<1>1. CASE row' = row /\ Images!Go(a, Images!After(a, FALSE))
  BY <1>0, <1>1, AfterPlace, MoveIsQuiet
<1>2. CASE row' = row /\ agent' = [agent EXCEPT ![a].pc = "put", ![a].status = Images!Aggregate]
  <2> DEFINE r == [agent[a] EXCEPT !.pc = "put", !.status = Images!Aggregate]
  <2>0. Images!Aggregate \in {"draft", "partial", "ready", "failed"}
    BY DEF Images!Aggregate
  <2>1. r \in Doing /\ r.pc = "put" /\ r.status # "none" /\ r.image = agent[a].image /\ r.snap = agent[a].snap
    BY <1>0, <2>0 DEF Doing, Places
  <2>2. agent' = [agent EXCEPT ![a] = r]
    BY <1>2
  <2> HIDE DEF r
  <2>3. /\ agent' \in [Images!Agents -> Doing] /\ agent'[a] = r
        /\ \A b \in Images!Agents : b # a => agent'[b] = agent[b]
    BY <1>0, <2>1, <2>2, OtherAgents
  <2>4. ImageTables' /\ AtHand'
    BY <1>0, <1>2, <2>1, <2>3 DEF ImageInv, ImageTables, AtHand
  <2>5. Emptied' /\ Quiet
    BY <1>0, <1>2, <2>1, <2>3 DEF ImageInv, Emptied, Quiet
  <2> QED
    BY <2>4, <2>5 DEF Regular
<1>3. CASE Images!MarkProjectStatus(agent[a].status) /\ agent[a].pc = "put" /\ Images!Go(a, Images!After(a, TRUE))
  <2>0. agent[a].status # "none"
    BY <1>3 DEF ImageInv, AtHand
  <2>1. row' \in Project /\ row'.here = row.here
    BY <1>0, <1>3, <2>0 DEF Images!MarkProjectStatus, Project, Doing
  <2> QED
    BY <1>0, <1>3, <2>1, AfterPlace, MoveIsQuiet
<1> QED
  BY <1>1, <1>2, <1>3 DEF Images!Summarise, Images!PutStatus, Images!At

\* What is known of the pictures.
LEMMA PictureFacts ==
  ASSUME ImageTables
  PROVE  /\ Images!NoImage.id = 0
         /\ \A i \in Items : item[i].image \in Picture /\ item[i].image.id \in Nat
         /\ \A a \in Images!Agents : agent[a].image \in Picture /\ agent[a].image.id \in Nat
         /\ \A a \in Images!Agents, i \in Items : agent[a].snap[i].image \in Picture /\ agent[a].snap[i].image.id \in Nat
         /\ \A p \in Picture : p # Images!NoImage => p.id \in Nat \ {0}
<1>1. \A p \in Picture : p.id \in Nat /\ (p # Images!NoImage => p.id # 0)
  BY DEF Picture, Images!NoImage
<1> QED
  BY <1>1 DEF ImageTables, Segment, Doing, Images!NoImage

\* A new image has a number that nobody has.
LEMMA DrawsNew ==
  ASSUME Images!ItemAssumption, ImageInv, NEW a \in Images!Agents, Images!DrawSucceeds(a)
  PROVE  ImageTables' /\ AtHand' /\ Emptied' /\ Pictures'
<1> DEFINE i == Images!First(agent[a].left)
           image == [id |-> drawn + 1, text |-> agent[a].snap[i].text]
           r == [agent[a] EXCEPT !.pc = "save", !.image = image]
<1>0. /\ ImageTables /\ row' = row /\ item' = item /\ drawn' = drawn + 1 /\ drawn \in Nat /\ files' = files \cup {image.id}
      /\ agent[a].pc = "draw" /\ agent[a] \in Doing /\ i \in Items /\ i \in agent[a].left /\ files \subseteq 1..drawn
  BY ItemAtHand DEF ImageInv, ImageTables, Images!DrawSucceeds, Images!At
<1>1. agent' = [agent EXCEPT ![a] = r]
  BY DEF Images!DrawSucceeds
<1> HIDE DEF i
<1>2. image \in Picture /\ image.id = drawn + 1 /\ image # Images!NoImage
  BY <1>0 DEF Picture, Images!NoImage, Doing, Segment
<1> HIDE DEF image
<1>3. r \in Doing /\ r.pc = "save" /\ r.image = image /\ r.snap = agent[a].snap /\ r.left = agent[a].left
  BY <1>0, <1>2 DEF Doing, Places
<1> HIDE DEF r
<1>4. /\ agent' \in [Images!Agents -> Doing] /\ agent'[a] = r
      /\ \A b \in Images!Agents : b # a => agent'[b] = agent[b]
  BY <1>0, <1>1, <1>3, OtherAgents
<1>5. ImageTables'
  BY <1>0, <1>2, <1>4 DEF ImageTables
<1>6. AtHand' /\ Emptied'
  BY <1>0, <1>3, <1>4 DEF ImageInv, AtHand, Emptied
<1>7. \A b \in Images!Agents : agent'[b].snap = agent[b].snap
  BY <1>3, <1>4
<1>8. OfOneItem'
  <2>1. OfOneItem
    BY DEF ImageInv, Pictures
  <2>2. (\A b \in Images!Agents : agent[b].image.id <= drawn)'
    BY <1>0, <1>2, <1>3, <1>4, <2>1, PictureFacts DEF OfOneItem
  <2>3. \A n \in Nat : n <= drawn => n <= drawn + 1
    BY <1>0
  <2> QED
    BY <1>0, <1>7, <2>1, <2>2, <2>3, PictureFacts DEF OfOneItem
<1>9. ASSUME NEW b \in Images!Agents, agent'[b].pc = "save" PROVE Secret(b)'
  <2>0. \A n \in Nat : n <= drawn => n # drawn + 1
    BY <1>0
  <2>1. /\ \A j \in Items : item[j].image.id # drawn + 1
        /\ \A c \in Images!Agents, j \in Items : agent[c].snap[j].image.id # drawn + 1
        /\ \A c \in Images!Agents : agent[c].image.id # drawn + 1
    BY <2>0, <1>0, PictureFacts DEF ImageInv, Pictures, OfOneItem
  <2>2. CASE b = a
    BY <1>0, <1>2, <1>3, <1>4, <1>7, <2>1, <2>2 DEF Secret
  <2>3. CASE b # a
    <3>1. agent'[b] = agent[b] /\ Secret(b)
      BY <1>4, <1>9, <2>3 DEF ImageInv, Pictures
    <3> QED
      BY <1>0, <1>2, <1>3, <1>4, <1>7, <2>1, <3>1 DEF Secret
  <2> QED
    BY <2>2, <2>3
<1>10. ASSUME NEW b \in Images!Agents, agent'[b].pc = "replace" PROVE Replaced(b)'
  <2>1. agent'[b] = agent[b] /\ Replaced(b)
    BY <1>3, <1>4, <1>10 DEF ImageInv, Pictures
  <2> QED
    BY <1>0, <2>1 DEF Replaced
<1> QED
  BY <1>0, <1>5, <1>6, <1>8, <1>9, <1>10 DEF ImageInv, Pictures

\* The image that replaces another is shown before the other is removed.
LEMMA SavesNew ==
  ASSUME Images!ItemAssumption, ImageInv, NEW a \in Images!Agents, Images!MarkItemReady(a)
  PROVE  ImageTables' /\ AtHand' /\ Emptied' /\ Pictures'
<1> DEFINE i == Images!First(agent[a].left)
           image == agent[a].image
           x == [item[i] EXCEPT !.st = "ready", !.image = image]
<1>0. /\ ImageTables /\ row' = row /\ drawn' = drawn /\ drawn \in Nat
      /\ agent[a].pc = "save" /\ agent[a] \in Doing /\ i \in Items /\ i \in agent[a].left /\ Secret(a)
      /\ OfOneItem /\ image \in Picture /\ image # Images!NoImage
  BY ItemAtHand DEF ImageInv, ImageTables, Pictures, Images!MarkItemReady, Images!At, Secret, Doing
<1>1. CASE ~Images!SameItem(a, i)
  <2>1. item' = item /\ files' = files \ {image.id} /\ Images!Go(a, Images!After(a, FALSE))
    BY <1>1 DEF Images!MarkItemReady
  <2>2. Images!After(a, FALSE) \in Places \ {"mark", "draw", "save", "replace", "put", "sweep"}
    BY AfterPlace
  <2>3. /\ \A b \in Images!Agents : b # a => agent'[b] = agent[b]
        /\ agent'[a].pc = Images!After(a, FALSE) /\ agent'[a].image = image /\ agent'[a].snap = agent[a].snap
        /\ agent' \in [Images!Agents -> Doing]
    BY <1>0, <2>1, <2>2, GoesOn
  <2>4. ImageTables' /\ AtHand' /\ Emptied'
    BY <1>0, <2>1, <2>2, <2>3 DEF ImageInv, ImageTables, AtHand, Emptied
  <2>5. \A b \in Images!Agents : agent'[b].snap = agent[b].snap /\ agent'[b].image = agent[b].image
    BY <2>3
  <2>6. OfOneItem'
    BY <1>0, <2>1, <2>5 DEF OfOneItem
  <2>7. ASSUME NEW b \in Images!Agents, agent'[b].pc = "save" PROVE Secret(b)'
    <3>1. b # a /\ agent'[b] = agent[b] /\ Secret(b)
      BY <2>2, <2>3, <2>7 DEF ImageInv, Pictures
    <3>2. agent[b].image.id # image.id
      BY <1>0, <2>3, <2>7, <3>1 DEF Secret
    <3>3. agent'[a].pc # "save"
      BY <2>2, <2>3
    <3> QED
      BY <2>1, <2>3, <2>5, <3>1, <3>2, <3>3 DEF Secret
  <2>8. ASSUME NEW b \in Images!Agents, agent'[b].pc = "replace" PROVE Replaced(b)'
    <3>1. agent'[b] = agent[b] /\ Replaced(b)
      BY <2>2, <2>3, <2>8 DEF ImageInv, Pictures
    <3> QED
      BY <2>1, <3>1 DEF Replaced
  <2>9. \A j \in Items : item'[j].image # Images!NoImage => item'[j].image.id \in files'
    BY <1>0, <2>1 DEF Secret, ImageInv, Pictures
  <2> QED
    BY <2>4, <2>6, <2>7, <2>8, <2>9 DEF Pictures
<1>2. CASE Images!SameItem(a, i)
  <2> HIDE DEF i, image
  <2>0. x \in Segment /\ x.image = image
    BY <1>0 DEF ImageTables, Segment
  <2>1. item' = [item EXCEPT ![i] = x] /\ files' = files /\ row.here
    BY <1>2 DEF Images!MarkItemReady, Images!SameItem, i, image
  <2>2. \/ agent' = Images!NextResult(a)
        \/ /\ agent' = [agent EXCEPT ![a].pc = "replace"]
           /\ agent[a].snap[i].image \notin {Images!NoImage, image}
    BY <1>2 DEF Images!MarkItemReady, i, image
  <2> HIDE DEF x
  <2>3. /\ item' \in [Items -> Segment] /\ item'[i] = x /\ \A j \in Items : j # i => item'[j] = item[j]
    BY <1>0, <2>0, <2>1, WritesItem
  <2>4. /\ agent' \in [Images!Agents -> Doing] /\ agent'[a].pc \in {"draw", "sum", "replace"}
        /\ agent'[a].pc \in {"draw", "replace"} => agent'[a].left # {}
        /\ agent'[a].pc = "replace" => agent'[a].left = agent[a].left /\ agent[a].snap[i].image # Images!NoImage
        /\ agent'[a].image = image /\ agent'[a].snap = agent[a].snap
        /\ \A b \in Images!Agents : b # a => agent'[b] = agent[b]
    <3>1. CASE agent' = Images!NextResult(a)
      BY <1>0, <3>1, NextType DEF image
    <3>2. CASE agent' = [agent EXCEPT ![a].pc = "replace"] /\ agent[a].snap[i].image \notin {Images!NoImage, image}
      BY <1>0, <3>2, GoesOn DEF Images!Go, image, Places
    <3> QED
      BY <2>2, <3>1, <3>2
  <2>5. ImageTables' /\ AtHand' /\ Emptied'
    BY <1>0, <2>1, <2>3, <2>4 DEF ImageInv, ImageTables, AtHand, Emptied
  <2>6. \A b \in Images!Agents : agent'[b].snap = agent[b].snap /\ agent'[b].image = agent[b].image
    BY <2>4 DEF image
  <2>7. \A j \in Items : item'[j].image = IF j = i THEN image ELSE item[j].image
    BY <2>0, <2>3
  <2>8. OfOneItem'
    BY SMTT(60), <1>0, <2>6, <2>7 DEF OfOneItem, Secret, image
  <2>9. ASSUME NEW b \in Images!Agents, agent'[b].pc = "save" PROVE Secret(b)'
    <3>1. b # a /\ agent'[b] = agent[b] /\ Secret(b)
      BY <2>4, <2>9 DEF ImageInv, Pictures
    <3>2. agent[b].image.id # image.id
      BY <1>0, <2>9, <3>1 DEF Secret, image
    <3>3. agent'[a].pc # "save"
      BY <2>4
    <3> QED
      BY <2>1, <2>4, <2>6, <2>7, <3>1, <3>2, <3>3 DEF Secret
  <2>10. ASSUME NEW b \in Images!Agents, agent'[b].pc = "replace" PROVE Replaced(b)'
    <3> DEFINE j == Images!First(agent[b].left)
    <3>1. CASE b = a
      <4>1. image.id # agent[a].snap[i].image.id
        BY <1>0 DEF Secret, image
      <4> QED
        BY <2>4, <2>7, <2>10, <3>1, <4>1, <1>0 DEF Replaced, i
    <3>2. CASE b # a
      <4>1. agent'[b] = agent[b] /\ Replaced(b) /\ j \in Items
        BY <2>4, <2>10, <3>2, ItemAtHand DEF ImageInv, Pictures
      <4>2. agent[b].snap[j].image.id # image.id
        BY <1>0, <4>1 DEF Secret, image
      <4> QED
        BY <2>7, <4>1, <4>2 DEF Replaced
    <3> QED
      BY <3>1, <3>2
  <2>11. \A j \in Items : item'[j].image # Images!NoImage => item'[j].image.id \in files'
    BY <1>0, <2>1, <2>7 DEF Secret, ImageInv, Pictures, image
  <2> QED
    BY <2>5, <2>8, <2>9, <2>10, <2>11 DEF Pictures
<1> QED
  BY <1>1, <1>2

\* Removing files that nobody shows and nobody is about to save.
LEMMA RemovesFiles ==
  ASSUME ImageInv, ImageTables', NEW a \in Images!Agents, NEW S, files' = files \ S, item' = item, drawn' = drawn,
         \A b \in Images!Agents : agent'[b].snap = agent[b].snap /\ agent'[b].image = agent[b].image,
         \A b \in Images!Agents : b # a => agent'[b] = agent[b],
         agent'[a].pc \notin {"save", "replace"},
         \A b \in Images!Agents : agent[b].pc = "save" => agent[b].image.id \notin S,
         \A i \in Items : item[i].image # Images!NoImage => item[i].image.id \notin S
  PROVE  Pictures'
<1>1. OfOneItem'
  BY DEF ImageInv, Pictures, OfOneItem
<1>2. ASSUME NEW b \in Images!Agents, agent'[b].pc = "save" PROVE Secret(b)'
  <2>1. b # a /\ agent'[b] = agent[b] /\ Secret(b) /\ agent[b].image.id \notin S
    BY <1>2 DEF ImageInv, Pictures
  <2> QED
    BY <2>1 DEF Secret
<1>3. ASSUME NEW b \in Images!Agents, agent'[b].pc = "replace" PROVE Replaced(b)'
  <2>1. b # a /\ agent'[b] = agent[b] /\ Replaced(b)
    BY <1>3 DEF ImageInv, Pictures
  <2> QED
    BY <2>1 DEF Replaced
<1>4. \A i \in Items : item'[i].image # Images!NoImage => item'[i].image.id \in files'
  BY DEF ImageInv, Pictures
<1> QED
  BY <1>1, <1>2, <1>3, <1>4 DEF Pictures

LEMMA RemovesOld ==
  ASSUME Images!ItemAssumption, ImageInv, NEW a \in Images!Agents, Images!RemoveReplaced(a)
  PROVE  ImageTables' /\ AtHand' /\ Emptied' /\ Pictures'
<1> DEFINE i == Images!First(agent[a].left)
           n == agent[a].snap[i].image.id
<1>0. /\ ImageTables /\ row' = row /\ item' = item /\ drawn' = drawn /\ files' = files \ {n} /\ agent' = Images!NextResult(a)
      /\ agent[a].pc = "replace" /\ i \in Items /\ Replaced(a)
  BY ItemAtHand DEF ImageInv, Pictures, Images!RemoveReplaced, Images!At
<1>1. /\ agent' \in [Images!Agents -> Doing] /\ agent'[a].pc \in {"draw", "sum"}
      /\ agent'[a].pc = "draw" => agent'[a].left # {}
      /\ agent'[a].image = agent[a].image /\ agent'[a].snap = agent[a].snap
      /\ \A b \in Images!Agents : b # a => agent'[b] = agent[b]
  BY <1>0, NextType
<1>2. ImageTables'
  BY <1>0, <1>1 DEF ImageTables
<1>3. AtHand' /\ Emptied'
  BY <1>0, <1>1 DEF ImageInv, AtHand, Emptied
<1>4. \A b \in Images!Agents : agent[b].pc = "save" => agent[b].image.id # n
  BY <1>0 DEF ImageInv, Pictures, Secret
<1>5. \A j \in Items : item[j].image.id # n
  <2>1. agent[a].snap[i].image # Images!NoImage /\ item[i].image.id # n
    BY <1>0 DEF Replaced
  <2>2. \A j \in Items : j # i => n # item[j].image.id
    BY <1>0, <2>1 DEF ImageInv, Pictures, OfOneItem
  <2> QED
    BY <2>1, <2>2
<1> HIDE DEF n
<1>6. \A b \in Images!Agents : agent'[b].snap = agent[b].snap /\ agent'[b].image = agent[b].image
  BY <1>1
<1> DEFINE S == {n}
<1>a. /\ \A b \in Images!Agents : agent[b].pc = "save" => agent[b].image.id \notin S
      /\ \A j \in Items : item[j].image # Images!NoImage => item[j].image.id \notin S
      /\ files' = files \ S
  BY <1>0, <1>4, <1>5
<1>b. item' = item /\ drawn' = drawn /\ agent'[a].pc \notin {"save", "replace"}
  BY <1>0, <1>1
<1> HIDE DEF S
<1>7. Pictures'
  BY <1>1, <1>2, <1>6, <1>a, <1>b, RemovesFiles
<1> QED
  BY <1>2, <1>3, <1>7

\* All but Run of the invariant.
Shown == ImageTables /\ AtHand /\ Emptied /\ Pictures

LEMMA RegularShown ==
  ASSUME Images!ItemAssumption, ImageInv, Regular
  PROVE  Shown'
BY QuietKeeps DEF Regular, ImageInv, Shown

LEMMA GeneratesShown ==
  ASSUME Images!ItemAssumption, ImageInv, NEW a \in Images!Agents, Images!Generate(a)
  PROVE  Shown'
<1>1. ASSUME Regular PROVE Shown'
  BY <1>1, RegularShown
<1> QED
  BY <1>1, BeginsQuietly, MarksQuietly, FailsQuietly, SumsQuietly, DrawsNew, SavesNew, RemovesOld
     DEF Images!Generate, Shown

-----------------------------------------------------------------------------
(* The job *)

\* The items of a new plan have no images.
LEMMA PlanType ==
  ASSUME ImageTables, NEW text \in Nat
  PROVE  /\ Images!NewPlan(text) \in [Items -> Segment]
         /\ \A i \in Items : Images!NewPlan(text)[i].image = Images!NoImage
<1>0. \A n \in Nat : LET x == [Images!NoItem EXCEPT !.plan = n, !.st = "pending", !.text = text]
                    IN x \in Segment /\ x.image = Images!NoImage
  <2> Images!NoImage \in Picture
    BY DEF Picture
  <2> QED
    BY DEF Segment, Images!NoItem
<1>1. \A i \in Items : LET x == [Images!NoItem EXCEPT !.plan = 1 + item[i].plan, !.st = "pending", !.text = text]
                      IN x \in Segment /\ x.image = Images!NoImage
  <2> \A i \in Items : 1 + item[i].plan \in Nat
    BY DEF ImageTables, Segment
  <2> QED
    BY <1>0
<1> QED
  BY <1>1 DEF Images!NewPlan

LEMMA JobsAgent == "job" \in Images!Agents
BY DEF Images!Agents

\* A step of the job that writes the items, or nothing.
LEMMA JobWrites ==
  ASSUME ImageInv, NEW pc \in {"loop", "failing"}, Images!Go("job", pc), files' = files, drawn' = drawn,
         row' \in Project, row'.here = row.here, item' \in [Items -> Segment],
         \A i \in Items : item'[i].image \in {item[i].image, Images!NoImage}, row.here \/ item' = item
  PROVE  Regular
<1>0. pc \in Places /\ ImageTables
  BY DEF Places, ImageInv
<1>1. /\ \A b \in Images!Agents : b # "job" => agent'[b] = agent[b]
      /\ agent'["job"].pc = pc /\ agent'["job"].image = agent["job"].image /\ agent'["job"].snap = agent["job"].snap
      /\ agent' \in [Images!Agents -> Doing]
  BY <1>0, JobsAgent, GoesOn
<1>2. ImageTables'
  BY <1>1 DEF ImageInv, ImageTables
<1>3. AtHand' /\ Emptied'
  BY <1>1 DEF ImageInv, AtHand, Emptied
<1>4. Quiet
  BY <1>1 DEF Quiet
<1> QED
  BY <1>2, <1>3, <1>4 DEF Regular

LEMMA PlansQuietly ==
  ASSUME ImageInv, Images!SaveQuickPlan \/ Images!SaveVideoPlan \/ Images!SavePrompts
  PROVE  Regular
<1>0. ImageTables /\ row \in Project /\ files' = files /\ drawn' = drawn /\ item \in [Items -> Segment]
  BY DEF ImageInv, ImageTables, Images!SaveQuickPlan, Images!SaveVideoPlan, Images!SavePrompts
<1>1. CASE item' = item /\ row' = row /\ Images!Go("job", "failing")
  BY <1>0, <1>1, JobWrites
<1>2. ASSUME NEW text \in Nat, item' = Images!NewPlan(text), row.here, Images!Go("job", "loop"),
             NEW phase \in {"prompting", "imaging"}, row' = [row EXCEPT !.phase = phase]
      PROVE  Regular
  <2>1. row' \in Project /\ row'.here = row.here
    BY <1>0, <1>2 DEF Project, Images!Phases
  <2> QED
    BY <1>0, <1>2, <2>1, PlanType, JobWrites
<1>3. CASE /\ row.here /\ item' = [i \in Items |-> [item[i] EXCEPT !.text = @ + 1]]
           /\ row' = [row EXCEPT !.phase = "imaging"] /\ Images!Go("job", "loop")
  <2>1. row' \in Project /\ row'.here = row.here
    BY <1>0, <1>3 DEF Project, Images!Phases
  <2>2. \A i \in Items : LET x == [item[i] EXCEPT !.text = @ + 1]
                        IN x \in Segment /\ x.image = item[i].image
    BY <1>0 DEF Segment
  <2>3. item' \in [Items -> Segment] /\ \A i \in Items : item'[i].image = item[i].image
    BY <1>3, <2>2
  <2> QED
    BY <1>0, <1>3, <2>1, <2>3, JobWrites
<1>4. CASE Images!SaveQuickPlan
  BY <1>1, <1>2, <1>4 DEF Images!SaveQuickPlan
<1>5. CASE Images!SaveVideoPlan
  BY <1>1, <1>2, <1>5 DEF Images!SaveVideoPlan
<1>6. CASE Images!SavePrompts
  BY <1>1, <1>3, <1>6 DEF Images!SavePrompts
<1> QED
  BY <1>4, <1>5, <1>6

\* The job reads the project with its items.
LEMMA JobReadsQuietly ==
  ASSUME ImageInv, Images!JobReads
  PROVE  Regular
<1>0. /\ ImageTables /\ row \in Project /\ row' = row /\ item' = item /\ files' = files /\ drawn' = drawn
      /\ agent["job"] \in Doing /\ agent["job"].pc = "loop" /\ item \in [Items -> Segment] /\ "job" \in Images!Agents
  BY JobsAgent DEF ImageInv, ImageTables, Images!JobReads, Images!At
<1>1. CASE Images!Go("job", "leave")
  BY <1>0, <1>1, MoveIsQuiet DEF Places
<1>2. CASE ~Images!Go("job", "leave")
  <2> DEFINE pc == IF row.phase = "imaging" THEN "generate" ELSE row.phase
             todo == {i \in Images!Exists : item[i].st # "ready"}
             r == [agent["job"] EXCEPT !.phase = row.phase, !.snap = item, !.pc = pc, !.todo = todo]
  <2>1. row.phase # "completed"
    BY <1>2 DEF Images!JobReads
  <2>2. pc \in {"generate", "planning", "prompting", "idle"} /\ todo \in SUBSET Items
    BY <1>0, <2>1 DEF Project, Images!Phases, Images!Exists
  <2>3. agent' = [agent EXCEPT !["job"] = r]
    BY <1>2 DEF Images!JobReads
  <2> HIDE DEF pc, todo
  <2>4. r \in Doing /\ r.pc = pc /\ r.image = agent["job"].image /\ r.snap = item
    BY <1>0, <2>2 DEF Doing, Places, Project
  <2> HIDE DEF r
  <2>5. /\ agent' \in [Images!Agents -> Doing] /\ agent'["job"] = r
        /\ \A b \in Images!Agents : b # "job" => agent'[b] = agent[b]
    BY <1>0, <2>3, <2>4, OtherAgents
  <2>6. ImageTables' /\ AtHand'
    BY <1>0, <2>2, <2>4, <2>5 DEF ImageInv, ImageTables, AtHand
  <2>7. Emptied' /\ Quiet
    BY <1>0, <2>2, <2>4, <2>5 DEF ImageInv, Emptied, Quiet
  <2> QED
    BY <2>6, <2>7 DEF Regular
<1> QED
  BY <1>1, <1>2

\* The places at the end of the job.
JobMoves ==
  \/ Images!PhaseFails \/ Images!FailRun \/ Images!Settle \/ Images!StartFails \/ Images!FinishRun

LEMMA JobMovesQuietly ==
  ASSUME ImageInv, JobMoves
  PROVE  Regular
<1>0. /\ row \in Project /\ item' = item /\ files' = files /\ drawn' = drawn /\ "job" \in Images!Agents
  BY JobsAgent DEF ImageInv, ImageTables, JobMoves, Images!PhaseFails, Images!FailRun, Images!Settle,
                   Images!StartFails, Images!FinishRun
<1>1. row' \in Project /\ row'.here = row.here
  <2>1. ASSUME NEW phase \in Images!Phases, NEW run \in {"failed", "completed"}, Images!SetRunState(phase, run)
        PROVE  row' \in Project /\ row'.here = row.here
    BY <1>0, <2>1 DEF Images!SetRunState, Project
  <2>2. CASE Images!FailRun
    <3>1. agent["job"].phase \in Images!Phases
      BY <2>2 DEF Images!FailRun, Images!At, ImageInv, Run
    <3> QED
      BY <1>0, <2>1, <2>2, <3>1 DEF Images!FailRun
  <2>3. CASE Images!StartFails \/ Images!FinishRun
    BY <1>0, <2>1, <2>3 DEF Images!StartFails, Images!FinishRun, Images!Phases
  <2>4. CASE Images!PhaseFails \/ Images!Settle
    BY <1>0, <2>4 DEF Images!PhaseFails, Images!Settle
  <2> QED
    BY <2>2, <2>3, <2>4 DEF JobMoves
<1>2. \E pc \in {"failing", "leave", "finish", "loop"} : Images!Go("job", pc)
  BY DEF JobMoves, Images!PhaseFails, Images!FailRun, Images!Settle, Images!StartFails, Images!FinishRun, Images!Go
<1>3. PICK pc \in {"failing", "leave", "finish", "loop"} : Images!Go("job", pc)
  BY <1>2
<1>4. pc \in Places \ {"mark", "draw", "save", "replace", "put"} /\ pc # "sweep"
  BY DEF Places
<1> QED
  BY <1>0, <1>1, <1>3, <1>4, MoveIsQuiet

LEMMA IdleType ==
  /\ Images!Idle \in Doing /\ Images!Idle.pc = "idle" /\ Images!Idle.image = Images!NoImage
  /\ Images!Idle.snap = [i \in Items |-> Images!NoItem]
<1>1. Images!NoImage \in Picture
  BY DEF Picture
<1>2. Images!NoItem \in Segment
  BY <1>1 DEF Images!NoItem, Segment
<1> QED
  BY <1>1, <1>2 DEF Images!Idle, Doing, Places

\* Agents that begin anew.
LEMMA BeginsAnew ==
  ASSUME ImageInv, agent' \in [Images!Agents -> Doing], item' = item, files' = files, drawn' = drawn,
         row' \in Project, row'.here = row.here,
         \A a \in Images!Agents : agent'[a] # agent[a] =>
            /\ agent'[a].pc \notin {"mark", "draw", "save", "replace", "put", "sweep"}
            /\ agent'[a].image = Images!NoImage /\ agent'[a].snap \in {item, [i \in Items |-> Images!NoItem]}
  PROVE  Regular
<1>2. ImageTables'
  BY DEF ImageInv, ImageTables
<1>3. AtHand' /\ Emptied'
  BY DEF ImageInv, AtHand, Emptied
<1>4. Quiet
  BY DEF Quiet
<1> QED
  BY <1>2, <1>3, <1>4 DEF Regular

LEMMA EndsQuietly ==
  ASSUME ImageInv, Images!Leave \/ Images!Restart
  PROVE  Regular
<1>0. item' = item /\ files' = files /\ drawn' = drawn /\ row \in Project /\ ImageTables /\ "job" \in Images!Agents
  BY JobsAgent DEF Images!Leave, Images!Restart, ImageInv, ImageTables
<1>1. CASE Images!Leave
  <2>1. row' = row /\ agent' = [agent EXCEPT !["job"] = Images!Idle]
    BY <1>1 DEF Images!Leave
  <2>2. /\ agent' \in [Images!Agents -> Doing] /\ agent'["job"] = Images!Idle
        /\ \A b \in Images!Agents : b # "job" => agent'[b] = agent[b]
    BY <1>0, <2>1, OtherAgents, IdleType
  <2> QED
    BY <1>0, <2>1, <2>2, IdleType, BeginsAnew
<1>2. CASE Images!Restart
  <2>1. row' \in Project /\ row'.here = row.here
    BY <1>0, <1>2 DEF Images!Restart, Project
  <2>2. agent' = [a \in Images!Agents |-> Images!Idle]
    BY <1>2 DEF Images!Restart
  <2> QED
    BY <1>0, <2>1, <2>2, IdleType, BeginsAnew
<1> QED
  BY <1>1, <1>2

-----------------------------------------------------------------------------
(* The requests *)

LEMMA RequestsQuietly ==
  ASSUME ImageInv, NEW c \in Callers, Images!Request(c)
  PROVE  /\ Regular /\ agent'[c].pc \in {"generate", "edit", "delete", "resume"}
         /\ agent'[c].pc = "resume" => Mode # "manual" /\ agent'[c].phase = row.phase
         /\ \A b \in Images!Agents : b # c => agent'[b] = agent[b]
<1>0. /\ row \in Project /\ row' = row /\ item' = item /\ files' = files /\ drawn' = drawn /\ c \in Images!Agents
      /\ ImageTables /\ item \in [Items -> Segment]
  BY DEF ImageInv, ImageTables, Images!Request, Images!Agents
<1>1. ASSUME NEW r \in Doing, agent' = [agent EXCEPT ![c] = r], r.image = Images!NoImage,
             r.snap \in {item, [i \in Items |-> Images!NoItem]}, r.pc \in {"generate", "edit", "delete", "resume"},
             r.pc = "resume" => Mode # "manual" /\ r.phase = row.phase
      PROVE  /\ Regular /\ agent'[c].pc \in {"generate", "edit", "delete", "resume"}
             /\ agent'[c].pc = "resume" => Mode # "manual" /\ agent'[c].phase = row.phase
             /\ \A b \in Images!Agents : b # c => agent'[b] = agent[b]
  <2>1. /\ agent' \in [Images!Agents -> Doing] /\ agent'[c] = r
        /\ \A b \in Images!Agents : b # c => agent'[b] = agent[b]
    BY <1>0, <1>1, OtherAgents
  <2>2. Regular
    BY <1>0, <1>1, <2>1, BeginsAnew
  <2> QED
    BY <1>1, <2>1, <2>2
<1>2. ASSUME NEW todo \in SUBSET Items,
             agent' = [agent EXCEPT ![c] = [Images!Idle EXCEPT !.pc = "generate", !.snap = item, !.todo = todo]]
      PROVE  /\ Regular /\ agent'[c].pc \in {"generate", "edit", "delete", "resume"}
             /\ agent'[c].pc = "resume" => Mode # "manual" /\ agent'[c].phase = row.phase
             /\ \A b \in Images!Agents : b # c => agent'[b] = agent[b]
  <2> DEFINE r == [Images!Idle EXCEPT !.pc = "generate", !.snap = item, !.todo = todo]
  <2>1. r \in Doing /\ r.pc = "generate" /\ r.image = Images!NoImage /\ r.snap = item
    BY <1>0, IdleType DEF Doing, Places
  <2>2. agent' = [agent EXCEPT ![c] = r]
    BY <1>2
  <2> HIDE DEF r
  <2> QED
    BY <1>1, <2>1, <2>2
<1>3. CASE agent' = [agent EXCEPT ![c] = [Images!Idle EXCEPT !.pc = "edit"]]
  <2> DEFINE r == [Images!Idle EXCEPT !.pc = "edit"]
  <2>1. r \in Doing /\ r.pc = "edit" /\ r.image = Images!NoImage /\ r.snap = [i \in Items |-> Images!NoItem]
    BY <1>0, IdleType DEF Doing, Places
  <2>2. agent' = [agent EXCEPT ![c] = r]
    BY <1>3
  <2> HIDE DEF r
  <2> QED
    BY <1>1, <2>1, <2>2
<1>4. CASE agent' = [agent EXCEPT ![c] = [Images!Idle EXCEPT !.pc = "delete", !.snap = item]]
  <2> DEFINE r == [Images!Idle EXCEPT !.pc = "delete", !.snap = item]
  <2>1. r \in Doing /\ r.pc = "delete" /\ r.image = Images!NoImage /\ r.snap = item
    BY <1>0, IdleType DEF Doing, Places
  <2>2. agent' = [agent EXCEPT ![c] = r]
    BY <1>4
  <2> HIDE DEF r
  <2> QED
    BY <1>1, <2>1, <2>2
<1>5. CASE Mode # "manual" /\ agent' = [agent EXCEPT ![c] = [Images!Idle EXCEPT !.pc = "resume", !.phase = row.phase]]
  <2> DEFINE r == [Images!Idle EXCEPT !.pc = "resume", !.phase = row.phase]
  <2>1. /\ r \in Doing /\ r.pc = "resume" /\ r.image = Images!NoImage /\ r.snap = [i \in Items |-> Images!NoItem]
        /\ r.phase = row.phase
    BY <1>0, IdleType DEF Doing, Places, Project
  <2>2. agent' = [agent EXCEPT ![c] = r]
    BY <1>5
  <2> HIDE DEF r
  <2> QED
    BY <1>1, <1>5, <2>1, <2>2
<1> QED
  <2>1. ASSUME NEW todo \in {{i} : i \in Images!Exists} \cup {{i \in Images!Exists : item[i].st # "ready"}}
        PROVE  todo \in SUBSET Items
    BY DEF Images!Exists
  <2> QED
    BY <1>2, <1>3, <1>4, <1>5, <2>1 DEF Images!Request

LEMMA EditsQuietly ==
  ASSUME ImageInv, NEW c \in Callers, Images!Edit(c)
  PROVE  Regular
<1>0. /\ row \in Project /\ row' = row /\ files' = files /\ drawn' = drawn /\ c \in Images!Agents
      /\ ImageTables /\ item \in [Items -> Segment]
  BY DEF ImageInv, ImageTables, Images!Edit, Images!Agents
<1>1. CASE item' = item /\ Images!Go(c, "idle")
  BY <1>0, <1>1, MoveIsQuiet DEF Places
<1>2. ASSUME row.here, NEW i \in Items, item' = [item EXCEPT ![i].text = @ + 1, ![i].st = "pending"], Images!Go(c, "sum")
      PROVE  Regular
  <2> DEFINE x == [item[i] EXCEPT !.text = @ + 1, !.st = "pending"]
  <2>a. item[i] \in Segment /\ item[i].text + 1 \in Nat
    BY <1>0 DEF Segment
  <2>1. x \in Segment /\ x.image = item[i].image
    BY <2>a DEF Segment
  <2>2. item' = [item EXCEPT ![i] = x]
    BY <1>2
  <2> HIDE DEF x
  <2>3. /\ item' \in [Items -> Segment] /\ \A j \in Items : item'[j].image = item[j].image
    BY <1>0, <1>2, <2>1, <2>2, WritesItem
  <2>4. /\ \A b \in Images!Agents : b # c => agent'[b] = agent[b]
        /\ agent'[c].pc = "sum" /\ agent'[c].image = agent[c].image /\ agent'[c].snap = agent[c].snap
        /\ agent' \in [Images!Agents -> Doing]
    BY <1>0, <1>2, GoesOn DEF Places
  <2>5. ImageTables' /\ AtHand'
    BY <1>0, <2>3, <2>4 DEF ImageInv, ImageTables, AtHand
  <2>6. Emptied' /\ Quiet
    BY <1>0, <1>2, <2>3, <2>4 DEF ImageInv, Emptied, Quiet
  <2> QED
    BY <2>5, <2>6 DEF Regular
<1>3. Images!Exists \subseteq Items
  BY DEF Images!Exists
<1> QED
  BY <1>1, <1>2, <1>3 DEF Images!Edit

LEMMA DeletesShown ==
  ASSUME Images!ItemAssumption, ImageInv, NEW c \in Callers, Images!Delete(c)
  PROVE  Shown'
<1>0. row \in Project /\ drawn' = drawn /\ c \in Images!Agents /\ ImageTables /\ agent[c].pc \in {"delete", "sweep"}
  BY DEF ImageInv, ImageTables, Images!Delete, Images!Agents, Images!At
<1>1. CASE /\ row' = [row EXCEPT !.here = FALSE] /\ item' = [i \in Items |-> Images!NoItem] /\ files' = files
           /\ Images!Go(c, IF row.here THEN "sweep" ELSE "idle")
  <2>0. (IF row.here THEN "sweep" ELSE "idle") \in Places
    BY DEF Places
  <2>1. row' \in Project /\ ~row'.here
    BY <1>0, <1>1 DEF Project
  <2>2. item' \in [Items -> Segment] /\ \A i \in Items : item'[i].image = Images!NoImage
    BY <1>1 DEF Images!NoItem, Segment, Picture
  <2>3. /\ \A b \in Images!Agents : b # c => agent'[b] = agent[b]
        /\ agent'[c].pc \in {"sweep", "idle"} /\ agent'[c].image = agent[c].image /\ agent'[c].snap = agent[c].snap
        /\ agent' \in [Images!Agents -> Doing]
    BY <1>0, <1>1, <2>0, GoesOn
  <2>4. ImageTables' /\ AtHand'
    BY <1>0, <1>1, <2>1, <2>2, <2>3 DEF ImageInv, ImageTables, AtHand
  <2>5. Emptied' /\ Quiet
    BY <1>0, <1>1, <2>1, <2>2, <2>3 DEF ImageInv, Emptied, Quiet
  <2> QED
    BY <2>4, <2>5, RegularShown DEF Regular
<1>2. CASE /\ agent[c].pc = "sweep" /\ Images!Go(c, "idle") /\ row' = row /\ item' = item
           /\ files' = files \ {agent[c].snap[i].image.id : i \in Items}
  <2> DEFINE S == {agent[c].snap[i].image.id : i \in Items}
  <2>1. /\ \A b \in Images!Agents : b # c => agent'[b] = agent[b]
        /\ agent'[c].pc = "idle" /\ agent'[c].image = agent[c].image /\ agent'[c].snap = agent[c].snap
        /\ agent' \in [Images!Agents -> Doing]
    BY <1>0, <1>2, GoesOn DEF Places
  <2>2. ImageTables' /\ AtHand' /\ Emptied'
    BY <1>0, <1>2, <2>1 DEF ImageInv, ImageTables, AtHand, Emptied
  <2>3. \A i \in Items : item[i].image = Images!NoImage
    BY <1>0, <1>2 DEF ImageInv, Emptied, Images!NoItem
  <2>4. \A b \in Images!Agents : agent[b].pc = "save" => agent[b].image.id \notin S
    BY <1>0 DEF ImageInv, Pictures, Secret
  <2>5. files' = files \ S
    BY <1>2
  <2> HIDE DEF S
  <2>6. \A b \in Images!Agents : agent'[b].snap = agent[b].snap /\ agent'[b].image = agent[b].image
    BY <2>1
  <2>7. agent'[c].pc \notin {"save", "replace"}
    BY <2>1
  <2>8. Pictures'
    BY <1>0, <1>2, <2>1, <2>2, <2>3, <2>4, <2>5, <2>6, <2>7, RemovesFiles
  <2> QED
    BY <2>2, <2>8 DEF Shown
<1> QED
  BY <1>1, <1>2 DEF Images!Delete, Images!At

LEMMA ResumesQuietly ==
  ASSUME ImageInv, NEW c \in Callers, Images!Resume(c)
  PROVE  Regular
<1>0. /\ row \in Project /\ item' = item /\ files' = files /\ drawn' = drawn /\ c \in Images!Agents /\ ImageTables
      /\ "job" \in Images!Agents
  BY JobsAgent DEF ImageInv, ImageTables, Images!Resume, Images!Agents
<1>1. CASE row' = row /\ Images!Go(c, "idle")
  BY <1>0, <1>1, MoveIsQuiet DEF Places
<1>2. CASE agent[c].pc = "resume" /\ Images!SetRunState(agent[c].phase, "running") /\ Images!Go(c, "start")
  <2>1. row' \in Project /\ row'.here = row.here
    BY <1>0, <1>2 DEF Images!SetRunState, Project, ImageInv, Run
  <2> QED
    BY <1>0, <1>2, <2>1, MoveIsQuiet DEF Places
<1>3. CASE /\ row' = row
           /\ agent' = IF active THEN [agent EXCEPT ![c] = Images!Idle]
                       ELSE [agent EXCEPT ![c] = Images!Idle, !["job"] = [Images!Idle EXCEPT !.pc = "loop"]]
  <2> DEFINE r == [Images!Idle EXCEPT !.pc = "loop"]
  <2>1. r \in Doing /\ r.pc = "loop" /\ r.image = Images!NoImage /\ r.snap = [i \in Items |-> Images!NoItem]
    BY IdleType DEF Doing, Places
  <2>2. agent' = IF active THEN [agent EXCEPT ![c] = Images!Idle] ELSE [agent EXCEPT ![c] = Images!Idle, !["job"] = r]
    BY <1>3
  <2> HIDE DEF r
  <2>3. /\ agent' \in [Images!Agents -> Doing]
        /\ \A a \in Images!Agents : agent'[a] \in {agent[a], Images!Idle, r}
    BY <1>0, <2>1, <2>2, IdleType DEF ImageTables
  <2> QED
    BY <1>0, <1>3, <2>1, <2>3, IdleType, BeginsAnew
<1> QED
  BY <1>1, <1>2, <1>3 DEF Images!Resume, Images!At

\* Drawing leaves the run alone, and ends for the job in its next place.
LEMMA GeneratesRun ==
  ASSUME Images!ItemAssumption, ImageInv, NEW a \in Images!Agents, Images!Generate(a)
  PROVE  Run'
<1>0. ImageTables /\ agent[a] \in Doing /\ row \in Project /\ Run
  BY DEF ImageInv, ImageTables
<1>1. active' = active /\ row'.phase = row.phase /\ agent[a].pc \in {"generate", "mark", "draw", "save", "replace", "sum", "put"}
  BY <1>0 DEF Images!Generate, Images!GenerateBegins, Images!MarkItemGenerating, Images!DrawFails, Images!DrawSucceeds,
     Images!MarkItemReady, Images!RemoveReplaced, Images!Summarise, Images!PutStatus, Images!MarkProjectStatus, Project, Images!At
<1>2. /\ \A b \in Images!Agents : b # a => agent'[b] = agent[b]
      /\ agent'[a].phase = agent[a].phase
      /\ agent'[a].pc \in {"mark", "draw", "save", "replace", "sum", "put", Images!After(a, TRUE), Images!After(a, FALSE)}
  <2> DEFINE i == Images!First(agent[a].left)
             image == [id |-> drawn + 1, text |-> agent[a].snap[i].text]
             r1 == [agent[a] EXCEPT !.pc = "mark", !.left = agent[a].todo]
             r2 == [agent[a] EXCEPT !.pc = "draw", !.left = agent[a].todo]
             r3 == [agent[a] EXCEPT !.left = @ \ {i}]
             r4 == [agent[a] EXCEPT !.left = @ \ {i}, !.pc = IF agent[a].left = {i} THEN "sum" ELSE "draw"]
             r5 == [agent[a] EXCEPT !.pc = "save", !.image = image]
             r6 == [agent[a] EXCEPT !.pc = "replace"]
             r7 == [agent[a] EXCEPT !.pc = "put", !.status = Images!Aggregate]
             sets(r) == agent' = [agent EXCEPT ![a] = r]
  <2>1. \/ \E ok \in BOOLEAN : Images!Go(a, Images!After(a, ok))
        \/ sets(r1) \/ sets(r2) \/ (sets(r3) /\ agent[a].pc = "mark") \/ sets(r4) \/ sets(r5) \/ sets(r6) \/ sets(r7)
    <3>1. CASE Images!GenerateBegins(a)
      BY <3>1 DEF Images!GenerateBegins
    <3>2. CASE Images!MarkItemGenerating(a)
      BY <3>2 DEF Images!MarkItemGenerating, Images!At
    <3>3. CASE Images!DrawFails(a)
      BY <3>3 DEF Images!DrawFails, Images!NextResult
    <3>4. CASE Images!DrawSucceeds(a)
      BY <3>4 DEF Images!DrawSucceeds
    <3>5. CASE Images!MarkItemReady(a)
      BY <3>5 DEF Images!MarkItemReady, Images!NextResult
    <3>6. CASE Images!RemoveReplaced(a)
      BY <3>6 DEF Images!RemoveReplaced, Images!NextResult
    <3>7. CASE Images!Summarise(a) \/ Images!PutStatus(a)
      BY <3>7 DEF Images!Summarise, Images!PutStatus
    <3> HIDE DEF r1, r2, r3, r4, r5, r6, r7, sets
    <3> QED
      BY <3>1, <3>2, <3>3, <3>4, <3>5, <3>6, <3>7 DEF Images!Generate
  <2>2. /\ r1.pc = "mark" /\ r2.pc = "draw" /\ r3.pc = agent[a].pc /\ r4.pc \in {"sum", "draw"} /\ r5.pc = "save"
        /\ r6.pc = "replace" /\ r7.pc = "put"
        /\ \A r \in {r1, r2, r3, r4, r5, r6, r7} : r.phase = agent[a].phase
    BY <1>0 DEF Doing
  <2> HIDE DEF r1, r2, r3, r4, r5, r6, r7
  <2>3. ASSUME NEW ok \in BOOLEAN, Images!Go(a, Images!After(a, ok))
        PROVE  /\ \A b \in Images!Agents : b # a => agent'[b] = agent[b]
               /\ agent'[a].phase = agent[a].phase /\ agent'[a].pc = Images!After(a, ok)
    BY <1>0, <2>3, GoesOn
  <2>4. ASSUME NEW r, sets(r)
        PROVE  agent'[a] = r /\ \A b \in Images!Agents : b # a => agent'[b] = agent[b]
    BY <1>0, <2>4 DEF ImageTables
  <2> HIDE DEF sets
  <2> QED
    BY <2>1, <2>2, <2>3, <2>4
<1>3. CASE a = "job"
  <2>1. agent'["job"].pc \notin {"idle", "resume", "start"}
    BY <1>2, <1>3 DEF Images!After
  <2>2. agent'["job"].phase \in Images!Phases /\ active /\ Mode # "manual"
    BY <1>0, <1>1, <1>2, <1>3 DEF Run
  <2> QED
    BY <1>0, <1>1, <1>2, <1>3, <2>1, <2>2 DEF Run
<1>4. CASE a # "job"
  <2>1. agent'[a].pc \notin {"resume", "start"}
    BY <1>2, <1>4 DEF Images!After
  <2>2. agent'["job"] = agent["job"]
    BY <1>2, <1>4, JobsAgent
  <2> QED
    BY <1>0, <1>1, <1>2, <2>1, <2>2 DEF Run
<1> QED
  BY <1>3, <1>4

\* A step of the job.
LEMMA JobRun ==
  ASSUME Images!ItemAssumption, ImageInv, Images!Job
  PROVE  Run'
<1>0. ImageTables /\ "job" \in Images!Agents /\ agent["job"] \in Doing /\ row \in Project /\ Run
  BY JobsAgent DEF ImageInv, ImageTables
<1>1. CASE Images!Generate("job")
  BY <1>0, <1>1, GeneratesRun
<1>2. ASSUME NEW pc \in {"failing", "leave", "finish", "loop"}, Images!Go("job", pc), active' = active, active, Mode # "manual",
             row'.phase \in Images!Phases, pc \in {"failing", "finish"} => agent["job"].phase \in Images!Phases
      PROVE  Run'
  <2>1. /\ \A b \in Images!Agents : b # "job" => agent'[b] = agent[b]
        /\ agent'["job"].pc = pc /\ agent'["job"].phase = agent["job"].phase
    BY <1>0, <1>2, GoesOn
  <2> QED
    BY <1>0, <1>2, <2>1 DEF Run
<1>3. agent["job"].pc # "idle" => active /\ Mode # "manual" /\ row.phase \in Images!Phases
  BY <1>0 DEF Run
<1>4. agent["job"].pc \notin {"idle", "loop", "leave"} => agent["job"].phase \in Images!Phases
  BY <1>0 DEF Run
<1>5. CASE Images!JobReads
  <2>0. active' = active /\ row' = row /\ agent["job"].pc = "loop"
    BY <1>5 DEF Images!JobReads, Images!At
  <2>1. CASE Images!Go("job", "leave")
    BY <1>2, <1>3, <2>0, <2>1
  <2>2. CASE ~Images!Go("job", "leave")
    <3> DEFINE pc == IF row.phase = "imaging" THEN "generate" ELSE row.phase
               r == [agent["job"] EXCEPT !.phase = row.phase, !.snap = item, !.pc = pc,
                                         !.todo = {i \in Images!Exists : item[i].st # "ready"}]
    <3>1. agent' = [agent EXCEPT !["job"] = r] /\ row.phase # "completed"
      BY <2>2, <1>5 DEF Images!JobReads
    <3>2. r.pc = pc /\ r.phase = row.phase
      BY <1>0 DEF Doing
    <3>3. pc \in {"generate", "planning", "prompting"}
      BY <1>3, <2>0, <3>1 DEF Images!Phases
    <3> HIDE DEF r, pc
    <3>4. agent'["job"] = r /\ \A b \in Images!Agents : b # "job" => agent'[b] = agent[b]
      BY <1>0, <3>1 DEF ImageTables
    <3> QED
      BY <1>0, <1>3, <2>0, <3>2, <3>3, <3>4 DEF Run
  <2> QED
    BY <2>1, <2>2
<1>6. CASE Images!SaveQuickPlan \/ Images!SaveVideoPlan \/ Images!SavePrompts
  <2>1. active' = active /\ agent["job"].pc \in {"planning", "prompting"}
    BY <1>6 DEF Images!SaveQuickPlan, Images!SaveVideoPlan, Images!SavePrompts, Images!At
  <2>2. row'.phase \in {row.phase, "prompting", "imaging"}
    BY <1>0, <1>6 DEF Images!SaveQuickPlan, Images!SaveVideoPlan, Images!SavePrompts, Project
  <2>3. Images!Go("job", "loop") \/ Images!Go("job", "failing")
    BY <1>6 DEF Images!SaveQuickPlan, Images!SaveVideoPlan, Images!SavePrompts
  <2>4. row'.phase \in Images!Phases
    BY <1>3, <2>1, <2>2 DEF Images!Phases
  <2> QED
    BY <1>2, <1>3, <1>4, <2>1, <2>3, <2>4
<1>7. CASE JobMoves
  <2>1. active' = active /\ agent["job"].pc \in {"planning", "prompting", "generate", "failing", "settle", "finish"}
    BY <1>7 DEF JobMoves, Images!PhaseFails, Images!FailRun, Images!Settle, Images!StartFails, Images!FinishRun, Images!At
  <2>2. row'.phase \in Images!Phases
    <3>1. row'.phase \in {row.phase, agent["job"].phase, "imaging", "completed"}
      BY <1>0, <1>7 DEF JobMoves, Images!PhaseFails, Images!FailRun, Images!Settle, Images!StartFails, Images!FinishRun,
                        Images!SetRunState, Project
    <3> QED
      BY <1>3, <1>4, <2>1, <3>1 DEF Images!Phases
  <2>3. \E pc \in {"failing", "leave", "finish", "loop"} : Images!Go("job", pc)
    BY <1>7 DEF JobMoves, Images!PhaseFails, Images!FailRun, Images!Settle, Images!StartFails, Images!FinishRun, Images!Go
  <2> QED
    BY <1>2, <1>3, <1>4, <2>1, <2>2, <2>3
<1>8. CASE Images!Leave
  <2>1. row' = row /\ active' = FALSE /\ agent["job"].pc = "leave" /\ agent' = [agent EXCEPT !["job"] = Images!Idle]
    BY <1>8 DEF Images!Leave, Images!At
  <2>2. agent'["job"] = Images!Idle /\ \A b \in Images!Agents : b # "job" => agent'[b] = agent[b]
    BY <1>0, <2>1 DEF ImageTables
  <2> QED
    BY <1>0, <1>3, <2>1, <2>2, IdleType DEF Run
<1> QED
  BY <1>1, <1>5, <1>6, <1>7, <1>8 DEF Images!Job, JobMoves

\* A request, or a restart.
LEMMA RequestRun ==
  ASSUME Images!ItemAssumption, ImageInv, NEW c \in Callers,
         Images!Request(c) \/ Images!Edit(c) \/ Images!Delete(c) \/ Images!Resume(c)
  PROVE  Run'
<1>0. ImageTables /\ "job" \in Images!Agents /\ c \in Images!Agents /\ c # "job" /\ agent[c] \in Doing /\ row \in Project /\ Run
  BY JobsAgent DEF ImageInv, ImageTables, Images!Agents, Images!ItemAssumption
<1>1. CASE Images!Request(c)
  <2>1. /\ agent'[c].pc = "resume" => Mode # "manual" /\ agent'[c].phase = row.phase
        /\ agent'[c].pc \in {"generate", "edit", "delete", "resume"}
        /\ \A b \in Images!Agents : b # c => agent'[b] = agent[b]
    BY <1>1, RequestsQuietly
  <2>2. row' = row /\ active' = active
    BY <1>1 DEF Images!Request
  <2> QED
    BY <1>0, <2>1, <2>2 DEF Run
<1>2. ASSUME NEW pc \in {"idle", "sum", "sweep"}, Images!Go(c, pc), row'.phase = row.phase, active' = active
      PROVE  Run'
  <2>1. agent'[c].pc = pc /\ \A b \in Images!Agents : b # c => agent'[b] = agent[b]
    BY <1>0, <1>2, GoesOn
  <2> QED
    BY <1>0, <1>2, <2>1 DEF Run
<1>3. CASE Images!Edit(c)
  BY <1>2, <1>3 DEF Images!Edit
<1>4. CASE Images!Delete(c)
  <2>1. row'.phase = row.phase /\ active' = active
    BY <1>0, <1>4 DEF Images!Delete, Project
  <2>2. Images!Go(c, "idle") \/ Images!Go(c, "sweep")
    BY <1>4 DEF Images!Delete
  <2> QED
    BY <1>2, <2>1, <2>2
<1>5. CASE Images!Resume(c)
  <2>1. CASE row' = row /\ active' = active /\ Images!Go(c, "idle")
    BY <1>2, <2>1
  <2>2. CASE agent[c].pc = "resume" /\ active' = active /\ Images!SetRunState(agent[c].phase, "running") /\ Images!Go(c, "start")
    <3>1. row'.phase = agent[c].phase /\ agent[c].phase \in Images!Phases /\ Mode # "manual"
      BY <1>0, <2>2 DEF Images!SetRunState, Project, Run
    <3>2. agent'[c].pc = "start" /\ \A b \in Images!Agents : b # c => agent'[b] = agent[b]
      BY <1>0, <2>2, GoesOn
    <3> QED
      BY <1>0, <2>2, <3>1, <3>2 DEF Run
  <2>3. CASE /\ row' = row /\ active' = TRUE /\ agent[c].pc = "start"
             /\ agent' = IF active THEN [agent EXCEPT ![c] = Images!Idle]
                         ELSE [agent EXCEPT ![c] = Images!Idle, !["job"] = [Images!Idle EXCEPT !.pc = "loop"]]
    <3>1. Mode # "manual"
      BY <1>0, <2>3 DEF Run
    <3> DEFINE r == [Images!Idle EXCEPT !.pc = "loop"]
    <3>2. r.pc = "loop"
      BY IdleType DEF Doing
    <3>3. agent' = IF active THEN [agent EXCEPT ![c] = Images!Idle] ELSE [agent EXCEPT ![c] = Images!Idle, !["job"] = r]
      BY <2>3
    <3> HIDE DEF r
    <3>4. /\ agent'[c] = Images!Idle /\ agent'["job"] = IF active THEN agent["job"] ELSE r
          /\ \A b \in Images!Agents \ {c, "job"} : agent'[b] = agent[b]
      BY <1>0, <3>3 DEF ImageTables
    <3> QED
      BY ZenonT(60), <1>0, <2>3, <3>1, <3>2, <3>4, IdleType DEF Run
  <2> QED
    BY <1>5, <2>1, <2>2, <2>3 DEF Images!Resume, Images!At
<1> QED
  BY <1>1, <1>3, <1>4, <1>5

LEMMA ImageNext ==
  ASSUME Images!ItemAssumption, ImageInv, [Images!Next]_(Images!vars)
  PROVE  ImageInv'
<1>0. ASSUME Shown', Run' PROVE ImageInv'
  BY <1>0 DEF Shown, ImageInv
<1>1. CASE Images!Job
  <2>1. Run'
    BY <1>1, JobRun
  <2>2. CASE Images!Generate("job")
    BY <1>0, <2>1, <2>2, JobsAgent, GeneratesShown
  <2>3. CASE ~Images!Generate("job")
    BY <1>0, <1>1, <2>1, <2>3, RegularShown, JobReadsQuietly, PlansQuietly, JobMovesQuietly, EndsQuietly DEF Images!Job, JobMoves
  <2> QED
    BY <2>2, <2>3
<1>2. CASE Images!Restart
  <2>1. Run'
    <3>1. agent' = [a \in Images!Agents |-> Images!Idle] /\ active' = FALSE /\ row'.phase = row.phase
      BY <1>2 DEF Images!Restart, ImageInv, ImageTables, Project
    <3> QED
      BY <3>1, IdleType, JobsAgent DEF Run, ImageInv
  <2> QED
    BY <1>0, <1>2, <2>1, EndsQuietly, RegularShown
<1>3. ASSUME NEW c \in Callers, Images!Request(c) \/ Images!Generate(c) \/ Images!Edit(c) \/ Images!Delete(c) \/ Images!Resume(c)
      PROVE  ImageInv'
  <2>0. c \in Images!Agents
    BY DEF Images!Agents
  <2>1. CASE Images!Generate(c)
    BY <1>0, <2>0, <2>1, GeneratesShown, GeneratesRun
  <2>2. CASE Images!Delete(c)
    BY <1>0, <2>2, DeletesShown, RequestRun
  <2>3. CASE Images!Request(c) \/ Images!Edit(c) \/ Images!Resume(c)
    BY <1>0, <2>3, RequestsQuietly, EditsQuietly, ResumesQuietly, RegularShown, RequestRun
  <2> QED
    BY <1>3, <2>1, <2>2, <2>3
<1>4. CASE UNCHANGED Images!vars
  <2>1. ImageTables' /\ AtHand' /\ Emptied' /\ Run'
    BY <1>4 DEF Images!vars, ImageInv, ImageTables, AtHand, Emptied, Run
  <2>2. Pictures'
    BY <1>4 DEF Images!vars, ImageInv, Pictures, OfOneItem, Secret, Replaced
  <2> QED
    BY <2>1, <2>2 DEF ImageInv
<1> QED
  BY <1>1, <1>2, <1>3, <1>4 DEF Images!Next

LEMMA ImageInit ==
  ASSUME Images!ItemAssumption, Images!Init
  PROVE  ImageInv
<1> DEFINE bare == [i \in Items |-> Images!NoItem]
           r == [Images!Idle EXCEPT !.pc = "loop"]
<1>0. Images!NoImage.id = 0 /\ Images!NoImage \in Picture
  BY DEF Images!NoImage, Picture
<1>1. Images!Planned \in [Items -> Segment] /\ \A i \in Items : Images!Planned[i].image = Images!NoImage
  BY <1>0 DEF Images!Planned, Images!NoItem, Segment
<1>2. bare \in [Items -> Segment] /\ \A i \in Items : bare[i].image = Images!NoImage
  BY <1>0 DEF Images!NoItem, Segment
<1> HIDE DEF bare
<1>3. item \in [Items -> Segment] /\ \A i \in Items : item[i].image = Images!NoImage
  BY <1>1, <1>2 DEF Images!Init, bare
<1>4. /\ r \in Doing /\ r.pc = "loop" /\ r.image = Images!NoImage /\ r.snap = bare
  BY IdleType DEF Doing, Places, bare
<1>5. /\ agent \in [Images!Agents -> Doing]
      /\ \A a \in Images!Agents : /\ agent[a].pc \in {"idle", "loop"} /\ agent[a].image = Images!NoImage
                                 /\ \A i \in Items : agent[a].snap[i].image = Images!NoImage
  <2>1. agent = [a \in Images!Agents |-> IF a = "job" /\ Mode # "manual" THEN r ELSE Images!Idle]
    BY DEF Images!Init
  <2> HIDE DEF r
  <2> QED
    BY <1>2, <1>4, <2>1, IdleType DEF bare
<1>6. ImageTables
  BY <1>3, <1>5 DEF ImageTables, Images!Init, Project, Images!Phases
<1>7. AtHand /\ Emptied
  BY <1>5 DEF AtHand, Emptied, Images!Init
<1>8. Pictures
  BY <1>0, <1>3, <1>5 DEF Pictures, OfOneItem, Images!Init
<1>9. Run
  <2>1. agent["job"].pc = IF Mode # "manual" THEN "loop" ELSE "idle"
    BY <1>4, IdleType, JobsAgent DEF Images!Init
  <2> QED
    BY <1>5, <2>1 DEF Run, Images!Init, Images!Phases
<1> QED
  BY <1>6, <1>7, <1>8, <1>9 DEF ImageInv

LEMMA ImagesHold ==
  ASSUME Images!ItemAssumption
  PROVE  Images!Spec => []ImageInv
BY ImageInit, ImageNext, PTL DEF Images!Spec

\* The project, its items, the images on disk and the job are well typed, and a project
\* is in the table of active jobs exactly while its job runs (imageProjectJobs).
THEOREM ImagesTypeCorrect ==
  ASSUME Images!ItemAssumption
  PROVE  Images!Spec => []Images!TypeOK
<1>1. ImageInv => Images!TypeOK
  BY DEF ImageInv, ImageTables, Run, Project, Segment, Images!TypeOK
<1> QED
  BY <1>1, ImagesHold, PTL

\* The image an item shows is on disk, for any number of requests and the job that draw,
\* replace, fail and delete at the same time with what they read before (finalizeItem).
THEOREM ImageOnDisk ==
  ASSUME Images!ItemAssumption
  PROVE  Images!Spec => []Images!ImageIsThere
<1>1. ImageInv => Images!ImageIsThere
  BY DEF ImageInv, Pictures, Images!ImageIsThere
<1> QED
  BY <1>1, ImagesHold, PTL

\* A deleted project has no items, although its job and its requests go on (Delete).
THEOREM DeletedStaysEmpty ==
  ASSUME Images!ItemAssumption
  PROVE  Images!Spec => []Images!NothingAfterDeletion
<1>1. ImageInv => Images!NothingAfterDeletion
  BY DEF ImageInv, Emptied, Images!NothingAfterDeletion, Images!Exists, Images!NoItem
<1> QED
  BY <1>1, ImagesHold, PTL
=============================================================================

------------------------------ MODULE SceneTiming ------------------------------
(***************************************************************************)
(* The planner that cuts a narration into image scenes                     *)
(* (internal/imagevideo/timing.go): the slideshow's windows, the limit of  *)
(* generated video, the merge of what is too short or too much, and the    *)
(* timeline made of the cuts. A word is its times, whether it ends in      *)
(* punctuation and the image its text belongs to. The durations of the     *)
(* code are constants here, so that an instance has short narrations.      *)
(***************************************************************************)
EXTENDS Naturals, Sequences, FiniteSets

CONSTANTS firstPart,                          \* firstThirtySecondsUS
          earlyMin, earlyMax, earlyAim,       \* the windows of the first part
          laterMin, maxVideo,                 \* 6 and 15 seconds
          MaxTimedScenes,
          MaxWords, Lengths, Gaps             \* bounds of the narrations

WindowAssumption == 0 < earlyMin /\ earlyMin <= earlyAim /\ earlyAim <= earlyMax /\ earlyMax < laterMin

VARIABLE words    \* the word timings so far
vars == <<words>>

\* NewWordTimingDocument: words are positive, in order and do not overlap.
Init == words = <<>>
Duration == IF words = <<>> THEN 0 ELSE words[Len(words)].to
NextWord(gap, length, punct, sameItem) ==
    /\ Len(words) < MaxWords
    /\ words' = Append(words,
          [from |-> Duration + gap, to |-> Duration + gap + length, punct |-> punct,
           item |-> IF words = <<>> THEN 1 ELSE words[Len(words)].item + (IF sameItem THEN 0 ELSE 1)])
Next == \E gap \in Gaps, length \in Lengths, p, s \in BOOLEAN : NextWord(gap, length, p, s)
Spec == Init /\ [][Next]_vars

----------------------------------------------------------------------------
(* Slideshow *)

N == Len(words)
Least(S) == CHOOSE x \in S : \A y \in S : x <= y
Greatest(S) == CHOOSE x \in S : \A y \in S : y <= x
\* Where word i stops being shown: when the next one starts.
Boundary(i) == IF i < N THEN words[i + 1].from ELSE words[i].to
isSemanticBoundary(i) == i = N \/ words[i].punct \/ words[i].item # words[i + 1].item

\* The cut in the window nearest to the aim, the earlier of two; else the first boundary that is
\* late enough; else the end. A window with a maximum is not searched past it once it has a cut.
chooseSlideshowCut(start, min, max, aim) ==
    LET length(i) == Boundary(i) - words[start].from
        late == {i \in start..N : isSemanticBoundary(i) /\ length(i) >= min}
        within == {i \in late : length(i) <= max}
        off(i) == IF length(i) < aim THEN aim - length(i) ELSE length(i) - aim
    IN  CASE start = N -> start
          [] start # N /\ within # {} ->
                CHOOSE i \in within : \A j \in within : off(i) < off(j) \/ (off(i) = off(j) /\ i <= j)
          [] start # N /\ within = {} /\ late # {} -> Least(late)
          [] OTHER -> N

\* After the first part there is no maximum, and the first boundary late enough is taken.
SlideshowCut(start) ==
    IF start = 1 \/ words[start].from < firstPart
    THEN chooseSlideshowCut(start, earlyMin, earlyMax, earlyAim)
    ELSE chooseSlideshowCut(start, laterMin, 0, laterMin)

\* Mutant: the rest of the narration is left as it is, however short.
KeepShortEnd(cuts) == cuts
\* A last cut shorter than its window goes to the one before.
MergeShortEnd(cuts) ==
    IF Len(cuts) < 2 THEN cuts
    ELSE LET last == cuts[Len(cuts)]
             from == words[last.first].from
             min == IF from < firstPart THEN earlyMin ELSE laterMin
         IN  IF words[last.last].to - from >= min THEN cuts
             ELSE [SubSeq(cuts, 1, Len(cuts) - 1) EXCEPT ![Len(cuts) - 1].last = last.last]

buildSlideshowCuts ==
    LET From[start \in 1..(N + 1)] ==
           IF start > N THEN <<>>
           ELSE <<[first |-> start, last |-> SlideshowCut(start)]>> \o From[SlideshowCut(start) + 1]
    IN  MergeShortEnd(From[1])

\* Mutant: the cuts beyond the limit are dropped.
DropToMax(cuts) == SubSeq(cuts, 1, IF Len(cuts) < MaxTimedScenes THEN Len(cuts) ELSE MaxTimedScenes)
mergeCutsToMax(cuts) ==
    IF Len(cuts) <= MaxTimedScenes THEN cuts
    ELSE [SubSeq(cuts, 1, MaxTimedScenes) EXCEPT ![MaxTimedScenes].last = cuts[Len(cuts)].last]

----------------------------------------------------------------------------
(* Generated video *)

\* Mutant: the silence before the next word is not counted.
CutToWordEnd(start, end) ==
    LET safe == {i \in start..end : \A j \in start..i : words[j].to - words[start].from <= maxVideo}
        good == {i \in safe : words[i].punct}
    IN  IF good # {} THEN Greatest(good) ELSE IF safe # {} THEN Greatest(safe) ELSE 0
\* The last punctuation within the limit, else the last word; 0: not one word fits.
chooseCutAtMost(start, end) ==
    LET length(i) == (IF i < end THEN words[i + 1].from ELSE words[i].to) - words[start].from
        safe == {i \in start..end : \A j \in start..i : length(j) <= maxVideo}
        good == {i \in safe : words[i].punct}
    IN  IF good # {} THEN Greatest(good) ELSE IF safe # {} THEN Greatest(safe) ELSE 0

\* The cuts of every image in turn; Failed when a word is too long.
Failed == <<>>
buildImageToVideoCuts ==
    LET end(i) == Greatest({j \in i..N : words[j].item = words[i].item})
        From[start \in 1..(N + 1)] ==
           IF start > N THEN <<>>
           ELSE LET cut == chooseCutAtMost(start, end(start))
                IN  IF cut = 0 THEN <<[first |-> start, last |-> 0]>>
                    ELSE <<[first |-> start, last |-> cut]>> \o From[cut + 1]
        cuts == From[1]
    IN  IF \E k \in DOMAIN cuts : cuts[k].last = 0 THEN Failed ELSE cuts

----------------------------------------------------------------------------

\* A scene lasts from the end of the one before to where its last word stops being shown; as
\* video it also has to fit the longest tier (ChooseVideoTier).
scenesFromCuts(cuts, video) ==
    LET scene(k) == [from |-> IF k = 1 THEN 0 ELSE Boundary(cuts[k - 1].last), to |-> Boundary(cuts[k].last),
                     words |-> cuts[k].first..cuts[k].last]
        all == [k \in DOMAIN cuts |-> scene(k)]
    IN  IF \/ video /\ \E k \in DOMAIN all : all[k].to - all[k].from > maxVideo
           \/ cuts # <<>> /\ all[Len(cuts)].to # Duration
        THEN Failed ELSE all

BuildScenesFromTiming == scenesFromCuts(mergeCutsToMax(buildSlideshowCuts), FALSE)
BuildTimedScenes(video) == scenesFromCuts(IF video THEN buildImageToVideoCuts ELSE buildSlideshowCuts, video)

----------------------------------------------------------------------------
(* Properties: stated of every narration of the instance *)

Covers(scenes) ==
    /\ scenes[1].from = 0 /\ scenes[Len(scenes)].to = Duration
    /\ \A k \in 1..(Len(scenes) - 1) : scenes[k].to = scenes[k + 1].from
    /\ \A k \in DOMAIN scenes : scenes[k].from < scenes[k].to /\ scenes[k].words # {}
    /\ \A i \in 1..N : Cardinality({k \in DOMAIN scenes : i \in scenes[k].words}) = 1

\* The slideshow never fails to plan a narration: whatever its pauses and punctuation, the scenes
\* cover it word by word without a gap, and there are not more of them than a project can hold.
SlideshowAlwaysPlans ==
    LET scenes == BuildScenesFromTiming
    IN  N > 0 => scenes # Failed /\ Covers(scenes) /\ Len(scenes) <= MaxTimedScenes

\* No image of a slideshow flashes by: unless it is the only one it is shown for the early window at least.
NoImageFlashesBy ==
    LET scenes == BuildTimedScenes(FALSE)
    IN  Len(scenes) > 1 => \A k \in DOMAIN scenes : scenes[k].to - scenes[k].from >= earlyMin

\* Scenes for generated video cover the narration, stay within one image and fit the longest tier;
\* and when no pause lies outside a scene's own words, the planner fails for nothing but a word
\* that is too long by itself.
VideoScenesFit ==
    LET scenes == BuildTimedScenes(TRUE)
        tight == words[1].from = 0 /\ \A i \in 1..(N - 1) : words[i].item # words[i + 1].item => words[i + 1].from = words[i].to
    IN  N > 0 =>
          /\ scenes # Failed =>
                /\ Covers(scenes)
                /\ \A k \in DOMAIN scenes : /\ scenes[k].to - scenes[k].from <= maxVideo
                                            /\ \A i, j \in scenes[k].words : words[i].item = words[j].item
          /\ scenes = Failed /\ tight => \E i \in 1..N : Boundary(i) - words[i].from > maxVideo
==============================================================================

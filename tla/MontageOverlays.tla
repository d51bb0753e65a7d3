---------------------------- MODULE MontageOverlays ----------------------------
(***************************************************************************)
(* What a montage plan lays over its picture                               *)
(* (internal/agentruntime/montageplan): the caption lines a sentence is    *)
(* split into, the captions of the subtitle cues, the few highlighted      *)
(* sentences, and the sound effects. A behaviour writes one input, a rune  *)
(* or a cue at a time: the text of a sentence, the cues of a narration or  *)
(* the beats the word timing hears; the properties speak of what the       *)
(* planner makes of every such input.                                      *)
(*                                                                         *)
(* Caption times are tenths of a second, sound times milliseconds. A rune  *)
(* is its part in the splitting: "x" text, "g" text that belongs to the    *)
(* next rune (a word, a number and its unit, a title), "," and "." breaks. *)
(***************************************************************************)
EXTENDS Integers, Sequences, FiniteSets, FiniteSetsExt, SequencesExt

CONSTANTS spokenLineMaxRunes, spokenLineMinRunes,
          MaxRunes,                              \* bound: runes of a sentence
          MaxCues, Narration, Gaps, Lengths,     \* bounds: cues and the narration they lie in
          MaxBeats, SoundGaps, SoundDurations    \* bounds: the beats of a word timing

VARIABLES about, text, cues, beats
vars == <<about, text, cues, beats>>

Kinds == {"conclusion", "turning_point", "number", "plain"}
Init == about \in {"text", "cues", "beats"} /\ text = <<>> /\ cues = <<>> /\ beats = <<>>
NextRune(r) ==
    /\ about = "text" /\ Len(text) < MaxRunes
    /\ text' = Append(text, r)
    /\ UNCHANGED <<about, cues, beats>>
\* parseSRTCues: cues as they are in the file, none ends before it starts; they may overlap.
NextCue(gap, length, kind) ==
    /\ about = "cues" /\ Len(cues) < MaxCues
    /\ LET from == IF cues = <<>> THEN gap ELSE Max({0, cues[Len(cues)].to + gap})
       IN cues' = Append(cues, [from |-> from, to |-> from + length, kind |-> kind])
    /\ UNCHANGED <<about, text, beats>>
\* A window of words that is a turn, a conclusion or a number (semanticSFXKind).
NextBeat(gap, kind) ==
    /\ about = "beats" /\ Len(beats) < MaxBeats
    /\ beats' = Append(beats, [at |-> gap + (IF beats = <<>> THEN 0 ELSE beats[Len(beats)].at), kind |-> kind])
    /\ UNCHANGED <<about, text, cues>>
Next == \/ \E r \in {"x", "g", ",", "."} : NextRune(r)
        \/ \E g \in Gaps, l \in Lengths, k \in Kinds : NextCue(g, l, k)
        \/ \E g \in SoundGaps, k \in {"sfx_whoosh", "sfx_conclusion_hit", "sfx_water_drop"} : NextBeat(g, k)
Spec == Init /\ [][Next]_vars

----------------------------------------------------------------------------
(* The caption lines of one sentence: each a set of positions of the text *)

Spoken == {i \in DOMAIN text : text[i] \in {"x", "g"}}
\* spokenClauses: the runs of text between breaks, each with whether a sentence ended before it.
spokenClauses ==
    LET runs == {<<a, b>> \in Spoken \X Spoken : /\ a <= b /\ a..b \subseteq Spoken
                                                 /\ a - 1 \notin Spoken /\ b + 1 \notin Spoken}
        order == SetToSortSeq(runs, LAMBDA r, s : r[1] < s[1])
        before(n) == IF n = 1 THEN 1..(order[1][1] - 1) ELSE (order[n - 1][2] + 1)..(order[n][1] - 1)
    IN [n \in DOMAIN order |-> [at |-> order[n][1]..order[n][2], strong |-> \E i \in before(n) : text[i] = "."]]
\* mergeSpokenClauses: a clause too short to read joins the one before, unless a sentence ended there
\* or the two are longer than a line.
mergeSpokenClauses(clauses) ==
    FoldLeft(LAMBDA out, c :
        IF /\ out # <<>> /\ ~c.strong
           /\ \/ Cardinality(c.at) < spokenLineMinRunes
              \/ Cardinality(out[Len(out)].at) < spokenLineMinRunes
           /\ Cardinality(c.at) + Cardinality(out[Len(out)].at) <= spokenLineMaxRunes
        THEN [out EXCEPT ![Len(out)].at = @ \cup c.at]
        ELSE Append(out, c), <<>>, clauses)

Nth(S, n) == CHOOSE i \in S : Cardinality({j \in S : j <= i}) = n
\* breaksSpokenWord: the cut after the first n runes of a clause parts what belongs together.
breaksSpokenWord(S, n) == n < 1 \/ n >= Cardinality(S) \/ text[Nth(S, n)] = "g"
\* The safe cut nearest to the target, the one before it first; 0 when there is none in reach.
nearestSafeCut(S, target, lower, upper) ==
    LET safe == {n \in lower..upper : ~breaksSpokenWord(S, n)}
        off(n) == IF n <= target THEN 2 * (target - n) ELSE 2 * (n - target) + 1
    IN IF safe = {} THEN 0 ELSE CHOOSE n \in safe : \A m \in safe : off(n) <= off(m)
\* Mutant: a clause without a safe cut is cut at its target, as if that were the widest line.
CutAtTarget(S, target) == target + 1
\* Without a safe cut a line is as wide as allowed.
WidestCut(S, target) == spokenLineMaxRunes
splitLongClause(S) ==
    LET parts[left \in SUBSET S] ==
            LET n == Cardinality(left)
                chunks == (n + spokenLineMaxRunes - 1) \div spokenLineMaxRunes
                target == (2 * n + chunks) \div (2 * chunks)
                safe == nearestSafeCut(left, target, spokenLineMinRunes,
                                       Min({spokenLineMaxRunes, n - spokenLineMinRunes}))
                cut == IF safe = 0 THEN WidestCut(left, target) ELSE safe
                head == {i \in left : Cardinality({j \in left : j <= i}) <= cut}
            IN IF n <= spokenLineMaxRunes THEN <<left>> ELSE <<head>> \o parts[left \ head]
    IN parts[S]
splitSpokenLine ==
    FoldLeft(LAMBDA out, c : out \o splitLongClause(c.at), <<>>, mergeSpokenClauses(spokenClauses))

\* The lines of a sentence are its text, every rune once and in order, without its punctuation; a line
\* fits the canvas, and no line holds the end of one sentence and the start of the next.
LinesAreTheSentence ==
    about = "text" =>
        LET lines == splitSpokenLine
        IN /\ UNION {lines[i] : i \in DOMAIN lines} = Spoken
           /\ \A i, j \in DOMAIN lines : i < j => \A a \in lines[i], b \in lines[j] : a < b
           /\ \A i \in DOMAIN lines :
                /\ Cardinality(lines[i]) \in 1..spokenLineMaxRunes
                /\ \A a, b \in lines[i] : \A k \in a..b : text[k] # "."

----------------------------------------------------------------------------
(* The captions of the cues *)

lineCueMinPiece == 1     \* 50 ms, in tenths of a second
lineCueSnapGap == 4      \* 0.4 s
\* Mutant: a cue starts when the file says, whatever is still shown.
StartsWhenWritten(cue, prevEnd) == cue.from
\* A cue starts when the caption before it has ended.
StartOf(cue, prevEnd) == Max({cue.from, prevEnd})
\* spokenCaptionsFromLineCues: one caption per cue, cut to the narration, dropped when nothing of it is
\* left; gaps below 0.4 s are closed.
spokenCaptionsFromLineCues ==
    LET shown == FoldLeft(LAMBDA out, c :
            LET from == StartOf(c, IF out = <<>> THEN 0 ELSE out[Len(out)].to)
                to == Min({c.to, Narration})
            IN IF to - from < lineCueMinPiece THEN out ELSE Append(out, [from |-> from, to |-> to]), <<>>, cues)
    IN [i \in DOMAIN shown |->
          IF i < Len(shown) /\ shown[i + 1].from - shown[i].to \in 1..(lineCueSnapGap - 1)
          THEN [shown[i] EXCEPT !.to = shown[i + 1].from] ELSE shown[i]]

captionWeight(kind) == CASE kind = "conclusion" -> 4 [] kind = "turning_point" -> 3
                         [] kind = "number" -> 2 [] kind = "plain" -> 0
captionItemMin == 20
captionItemMax == 40
\* Mutant: a caption is drawn out to two seconds after it was cut to the narration.
DrawnOutLast(cue) == [from |-> cue.from, kind |-> cue.kind,
    to |-> Max({cue.from + captionItemMin, Min({Narration, cue.from + captionItemMax, cue.to})})]
\* The candidate of a cue: two to four seconds from its start, cut to the narration.
Highlight(cue) == [from |-> cue.from, kind |-> cue.kind,
    to |-> Min({Narration, Max({cue.from + captionItemMin, Min({cue.from + captionItemMax, cue.to})})})]
\* selectHighlightCaptions: by weight and then by time, a candidate that overlaps a kept one is left out;
\* the kept ones are taken in time until 15 % of the narration is covered, skipping what leads past 25 %.
selectHighlightCaptions ==
    LET all == {Highlight(cues[i]) : i \in {j \in DOMAIN cues : captionWeight(cues[j].kind) > 0}}
        long == {c \in all : c.to - c.from >= captionItemMin}
        byWeight == SetToSortSeq(long, LAMBDA c, d :
            \/ captionWeight(c.kind) > captionWeight(d.kind)
            \/ c.kind = d.kind /\ (c.from < d.from \/ (c.from = d.from /\ c.to < d.to)))
        kept == FoldLeft(LAMBDA out, c :
            IF \E k \in out : c.from < k.to /\ c.to > k.from THEN out ELSE out \cup {c}, {}, byWeight)
        inTime == SetToSortSeq(kept, LAMBDA c, d : c.from < d.from)
    IN FoldLeft(LAMBDA out, c :
           LET covered == FoldLeft(LAMBDA n, x : n + x.to - x.from, 0, out)
           IN IF 100 * covered >= 15 * Narration \/ 100 * (covered + c.to - c.from) > 25 * Narration
              THEN out ELSE Append(out, c), <<>>, inTime)

Follow(items) == /\ \A i \in DOMAIN items : items[i].from < items[i].to /\ items[i].to <= Narration
                 /\ \A i \in 1..(Len(items) - 1) : items[i].to <= items[i + 1].from
\* timingHighlightCaptions, the same for word timings (here a cue is the words of one hit): a caption is
\* cut to the narration and not dropped, the first is taken whatever it covers, and the first that
\* would lead past a quarter ends the list.
timingHighlightCaptions ==
    FoldLeft(LAMBDA s, c :
        LET h == Highlight(c)
            covered == FoldLeft(LAMBDA n, x : n + x.to - x.from, 0, s.out)
            skip == captionWeight(c.kind) = 0 \/ h.to <= h.from \/ (s.out # <<>> /\ h.from < s.out[Len(s.out)].to)
        IN CASE s.full \/ skip -> s
             [] ~(s.full \/ skip) /\ s.out # <<>> /\ 4 * (covered + h.to - h.from) > Narration -> [s EXCEPT !.full = TRUE]
             [] OTHER -> [s EXCEPT !.out = Append(@, h)],
        [out |-> <<>>, full |-> FALSE], cues).out

\* Captions never lie over each other or past the narration, whatever the cues are; highlights are two
\* to four seconds long and cover a quarter of the narration at most.
CaptionsKeepTheirPlace ==
    about = "cues" =>
        LET items == selectHighlightCaptions
        IN /\ Follow(spokenCaptionsFromLineCues) /\ Follow(items) /\ Follow(timingHighlightCaptions)
           /\ \A i \in DOMAIN items : items[i].to - items[i].from \in captionItemMin..captionItemMax
           /\ 4 * FoldLeft(LAMBDA n, x : n + x.to - x.from, 0, items) <= Narration

----------------------------------------------------------------------------
(* The sound effects *)

sfxMinGap == 12000
sfxLongForm == 240000
AllSounds == <<"sfx_opening_hit", "sfx_water_drop", "sfx_whoosh", "sfx_conclusion_hit">>
Libraries == {SelectSeq(AllSounds, LAMBDA s : s \in S) : S \in (SUBSET Range(AllSounds)) \ {{}}}

\* buildSFXPlacements: the opening at 0; in a long narration three or four spread over it, as many as the
\* library has, then filled to three.
Filled(starts, duration) ==
    IF duration < sfxLongForm \/ Len(starts) >= 3 THEN starts
    ELSE starts \o [i \in 1..(3 - Len(starts)) |-> starts[Len(starts)] + i * sfxMinGap]
buildSFXPlacements(duration, library) ==
    LET count == IF duration < sfxLongForm THEN 1
                 ELSE Min({IF duration < sfxLongForm + 2 * sfxMinGap THEN 3 ELSE 4, Len(library)})
        spread == FoldLeft(LAMBDA out, i :
            Append(out, Max({((duration - sfxMinGap) * i) \div count, out[Len(out)] + sfxMinGap})),
            <<0>>, [i \in 1..(count - 1) |-> i])
        starts == Filled(spread, duration)
    IN [i \in DOMAIN starts |-> [at |-> starts[i], kind |-> library[((i - 1) % Len(library)) + 1]]]

sfxBudget(duration) ==
    Min({12, Max({duration \div 45000 + 1, IF duration >= sfxLongForm THEN 3 ELSE 1})})
\* Mutant: the buckets are trusted to keep the beats apart.
FitsItsBucket(taken, at) == at >= sfxMinGap
\* A beat fits when it is 12 s away from everything taken.
Fits(taken, at) == \A t \in taken : at - t.at >= sfxMinGap \/ t.at - at >= sfxMinGap
\* One beat per bucket of the narration: the first turn that fits, else the first number.
FromBuckets(duration) ==
    LET budget == sfxBudget(duration)
        heard == {i \in DOMAIN beats : beats[i].at >= sfxMinGap /\ beats[i].at < duration}
        opening == [at |-> 0, kind |-> "sfx_opening_hit"]
    IN FoldLeft(LAMBDA taken, b :
           LET open == {i \in heard : /\ budget * beats[i].at >= (b - 1) * duration
                                      /\ budget * beats[i].at < b * duration
                                      /\ Fits(taken, beats[i].at)}
               turns == {i \in open : beats[i].kind # "sfx_water_drop"}
           IN IF open = {} \/ Cardinality(taken) >= budget THEN taken ELSE taken \cup {beats[Min(IF turns = {} THEN open ELSE turns)]},
           {opening}, [b \in 1..(IF budget > 1 THEN budget ELSE 0) |-> b])
\* buildSemanticSFXPlacements: filled to three in a long narration; a kind the library lacks is left out,
\* and when fewer than three are left the plain placement is used.
buildSemanticSFXPlacements(duration, library) ==
    LET sorted == SetToSortSeq(FromBuckets(duration), LAMBDA a, b : a.at < b.at)
        fill(q) == LET n == q[Len(q)].at + sfxMinGap
                   IN IF duration < sfxLongForm \/ Len(q) >= 3 \/ n >= duration THEN q
                      ELSE Append(q, [at |-> n, kind |-> "sfx_whoosh"])
        full == fill(fill(sorted))
        out == SelectSeq(full, LAMBDA s : s.kind \in Range(library))
    IN IF duration >= sfxLongForm /\ Len(out) < 3 THEN buildSFXPlacements(duration, library) ELSE out

\* What the validator of the draft asks of the sounds: in order, 12 s apart, inside the narration, three
\* to twelve in a long one, the opening at its start when the library has it.
SoundsPassValidation ==
    about = "beats" => \A duration \in SoundDurations, library \in Libraries :
        LET out == buildSemanticSFXPlacements(duration, library)
        IN /\ \A i \in DOMAIN out : out[i].at < duration /\ out[i].kind \in Range(library)
           /\ \A i \in 1..(Len(out) - 1) : out[i + 1].at - out[i].at >= sfxMinGap
           /\ duration >= sfxLongForm => Len(out) \in 3..12
           /\ "sfx_opening_hit" \in Range(library) => out # <<>> /\ out[1] = [at |-> 0, kind |-> "sfx_opening_hit"]
=============================================================================

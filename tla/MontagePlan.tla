------------------------------ MODULE MontagePlan ------------------------------
(***************************************************************************)
(* The planner of a montage draft (internal/agentruntime/montageplan): the *)
(* pool of clips, the slots of the narration, the clip chosen for each     *)
(* slot on a ladder of relaxed constraints, and the part of the clip it    *)
(* shows. A step of this module plans one slot, in plans of version 1.0    *)
(* (selectTimeline, buildTimeline) and 2.0 (selectTimelineV2).             *)
(*                                                                         *)
(* Timeline times are tenths of a second. Times inside a clip are 1/200 s, *)
(* so that the speeds 1.0, 1.1 and 1.5 are exact. The seeded hash of a     *)
(* clip is its field frac (0..10), which orders equal clips and draws the  *)
(* length of a slot; the lengths of clips are multiples of 0.3 s, for      *)
(* which the rounding to milliseconds changes nothing.                     *)
(***************************************************************************)
EXTENDS Integers, Sequences, FiniteSets, FiniteSetsExt, Functions

CONSTANTS Items,      \* the rows of the media library, records as in ItemAssumption
          Pools,      \* the sets of ids a library of one instance may hold
          Versions,   \* plan versions: "1.0", "2.0"
          Presets,    \* presets of the media mix
          Durations,  \* lengths of the narration
          Intents     \* the narrative intents: records [from, to, importance]

\* in = out for a row that is no part of a longer source.
ItemAssumption == \A i \in Items :
    /\ i.id \in Nat /\ i.kind \in {"broll", "movie", "image"} /\ i.frac \in 0..10
    /\ i.kind # "image" => i.duration >= 100     \* minVideoSourceSeconds
    /\ i.in <= i.out /\ i.out <= i.duration

VARIABLES pool,       \* the candidates, in their order
          version, preset, duration,
          slots,      \* the slots planned so far: [item, from, to, level]
          state       \* "selecting", "planned" or "failed"
vars == <<pool, version, preset, duration, slots, state>>

IndexOf(c) == CHOOSE i \in DOMAIN pool : pool[i] = c

----------------------------------------------------------------------------
(* The pool: rows in the order of their hash, their categories interleaved *)

Hashed(S) == CHOOSE q \in [1..Cardinality(S) -> S] :
    /\ \A i, j \in DOMAIN q : i < j => \/ q[i].frac < q[j].frac
                                       \/ q[i].frac = q[j].frac /\ q[i].id < q[j].id

\* The next row is the first of the largest category that is not the last one shown, of equal ones
\* the category that appears first; when only that category is left its rows follow in their order.
interleaveByCategory(q) ==
    LET first(c) == CHOOSE i \in DOMAIN q : q[i].category = c /\ \A j \in 1..(i - 1) : q[j].category # c
        step[n \in 0..Len(q)] ==
            IF n = 0 THEN [out |-> <<>>, left |-> DOMAIN q]
            ELSE LET s == step[n - 1]
                     size(c) == Cardinality({i \in s.left : q[i].category = c})
                     last == IF s.out = <<>> THEN "" ELSE s.out[Len(s.out)].category
                     others == {q[i].category : i \in s.left} \ {last}
                     from == IF others = {} THEN {q[i].category : i \in s.left} ELSE others
                     cat == CHOOSE c \in from : \A d \in from :
                               size(c) > size(d) \/ (size(c) = size(d) /\ first(c) <= first(d))
                     i == CHOOSE k \in s.left : q[k].category = cat
                                                /\ \A j \in s.left : q[j].category = cat => k <= j
                 IN [out |-> Append(s.out, q[i]), left |-> s.left \ {i}]
    IN step[Len(q)].out

Init ==
    /\ version \in Versions /\ preset \in Presets /\ duration \in Durations
    /\ (version = "1.0" => preset = "movie_mix")
    /\ \E ids \in Pools : pool = interleaveByCategory(Hashed({i \in Items : i.id \in ids}))
    /\ slots = <<>> /\ state = "selecting"

----------------------------------------------------------------------------
(* The media mix *)

kindOrder == <<"broll", "movie", "image">>
substituteKinds == [movie |-> <<"broll", "image">>, broll |-> <<"movie", "image">>,
                    image |-> <<"broll", "movie">>]
\* The middle of a kind's share in thousandths of the narration; 0: never asked for.
Middle == CASE preset = "movie_mix"     -> [broll |-> 400, movie |-> 300, image |-> 250]
            [] preset = "movie_catalog" -> [broll |-> 100, movie |-> 850, image |-> 50]
            [] preset = "image_video"   -> [broll |-> 75, movie |-> 0, image |-> 925]
MaxSourceUses == IF preset = "movie_catalog" THEN 80 ELSE 2
MinSegmentsBetweenReuse == IF preset = "movie_catalog" THEN 1 ELSE 5

Cursor == IF slots = <<>> THEN 0 ELSE slots[Len(slots)].to
Remaining == duration - Cursor
Used(c) == \E k \in DOMAIN slots : slots[k].item = c \/ (c.shot # "" /\ slots[k].item.shot = c.shot)
UsesOf(src) == Cardinality({k \in DOMAIN slots : slots[k].item.source = src})
\* Slots since the source was shown last; far away when it was not.
Since(src) == LET shown == {k \in DOMAIN slots : slots[k].item.source = src}
              IN IF shown = {} THEN 1000 ELSE Len(slots) + 1 - (CHOOSE k \in shown : \A j \in shown : j <= k)
Previous == IF slots = <<>> THEN [source |-> "", category |-> ""] ELSE slots[Len(slots)].item

\* The kind farthest below the middle of its share.
deficitKind ==
    LET assigned(kind) == MapThenSumSet(LAMBDA k : slots[k].to - slots[k].from,
                                        {k \in DOMAIN slots : slots[k].item.kind = kind})
        deficit(i) == Middle[kindOrder[i]] * duration - 1000 * assigned(kindOrder[i])
        asked == {i \in 1..3 : Middle[kindOrder[i]] > 0}
    IN kindOrder[CHOOSE i \in asked : \A j \in asked : deficit(i) > deficit(j) \/ (deficit(i) = deficit(j) /\ i <= j)]

----------------------------------------------------------------------------
(* Which clip may fill a slot *)

hasShotRange(c) == c.out > c.in
availableSeconds(c) == IF hasShotRange(c) THEN c.out - c.in ELSE c.duration
Unbounded == 100000
\* The longest slot a clip can fill, playing at 1.5x in a plan of version 2.0.
v2MaxTimeline(c) == IF c.kind = "image" THEN Unbounded ELSE (availableSeconds(c) * 2) \div 3
v2SlotRange(kind, at) == IF at < 300 THEN [lo |-> 40, hi |-> 70]
                         ELSE CASE kind = "movie" -> [lo |-> 30, hi |-> 60]
                                [] kind = "broll" -> [lo |-> 50, hi |-> 90]
                                [] kind = "image" -> [lo |-> 40, hi |-> 70]

\* Mutant: the source budget without the speed.
BudgetAtNormalSpeed(c, need) == c.kind = "image" \/ availableSeconds(c) >= need
\* The budget of the source is never relaxed: a slot shows 1.5 times its length.
BudgetAllows(c, need) == c.kind = "image" \/ 2 * availableSeconds(c) >= 3 * need

Strict == 1
RelaxUses == 2
RelaxSpacing == 3
LastResort == 4
\* A row with a shot of its own never repeats; a row without one only at the last resort. Uses and
\* spacing of a source hold at the first level, spacing at the second, at the third only that one
\* source does not follow itself.
eligible(c, level, need) ==
    /\ version = "2.0" => BudgetAllows(c, need)
    /\ Used(c) => c.shot = "" /\ level = LastResort
    /\ level = Strict => UsesOf(c.source) < MaxSourceUses
    /\ level \in {Strict, RelaxUses} => Since(c.source) > MinSegmentsBetweenReuse
    /\ level = RelaxSpacing => c.source # Previous.source

\* The importance of a clip's intent at this moment, 0 when its intent is spoken elsewhere.
Overlap(c) == IF version = "2.0" /\ c.intent \in DOMAIN Intents
                 /\ Intents[c.intent].from <= Cursor /\ Cursor < Intents[c.intent].to
              THEN Intents[c.intent].importance ELSE 0
Reserved(c) == version = "2.0" /\ c.intent \in DOMAIN Intents /\ Overlap(c) = 0
Flag(b) == IF b THEN 0 ELSE 1
\* What preferCandidate compares, in its order: less is better.
Merits(c, level) ==
    << IF level < LastResort THEN -Overlap(c) ELSE 0,
       IF level < LastResort THEN Flag(~Reserved(c)) ELSE 0,
       IF level = LastResort THEN UsesOf(c.source) ELSE 0,
       IF level = LastResort THEN Flag(c.source # Previous.source) ELSE 0,
       -c.score, Flag(c.category # Previous.category), c.frac, IndexOf(c) >>
preferCandidate(a, b, level) ==
    \E k \in 1..8 : /\ Merits(a, level)[k] < Merits(b, level)[k]
                    /\ \A j \in 1..(k - 1) : Merits(a, level)[j] = Merits(b, level)[j]
pickFromKind(kind, level, need) ==
    LET fit == {c \in Range(pool) : c.kind = kind /\ eligible(c, level, need)}
    IN {c \in fit : \A d \in fit \ {c} : preferCandidate(c, d, level)}

Need(kind) == Min({v2SlotRange(kind, Cursor).lo, Remaining})
Chain == <<deficitKind>> \o substituteKinds[deficitKind]
\* Mutant: the whole ladder is climbed for one kind before the next kind is asked.
KindBeforeLevel(x, y) == x[2] < y[2] \/ (x[2] = y[2] /\ x[1] < y[1])
\* Every kind of the chain is asked at one level before the next level is tried.
LevelBeforeKind(x, y) == x[1] < y[1] \/ (x[1] = y[1] /\ x[2] < y[2])
\* The clip of the next slot with the level that gave it; no clip when the last resort has none.
Chosen ==
    LET open == {x \in (Strict..LastResort) \X (1..3) : pickFromKind(Chain[x[2]], x[1], Need(Chain[x[2]])) # {}}
        first == {x \in open : \A y \in open \ {x} : LevelBeforeKind(x, y)}
    IN UNION {{[item |-> c, level |-> x[1]] : c \in pickFromKind(Chain[x[2]], x[1], Need(Chain[x[2]]))} : x \in first}

----------------------------------------------------------------------------
(* The length of a slot *)

\* timelineSlots of version 1.0: 7 s in the first 30 s, 8 s after; the last slot absorbs an end
\* shorter than 1.5 s. Where the slot that starts at `at` ends.
V1End(at) ==
    LET length == Min({IF at < 300 THEN 70 ELSE 80, duration - at})
    IN IF duration - at - length < 15 THEN duration ELSE at + length

\* The drawn length inside the range of the kind, what the clip and the narration leave of it.
Drawn(c) ==
    LET range == v2SlotRange(c.kind, Cursor)
    IN Min({range.lo * 10 + c.frac * (range.hi - range.lo), 10 * v2MaxTimeline(c), 10 * Remaining}) \div 10
v2TailAbsorbSeconds == 30
\* Mutant: the end is swallowed whether or not the clip is long enough.
AbsorbAlways(c) == IF Remaining - Drawn(c) < v2TailAbsorbSeconds THEN Remaining ELSE Drawn(c)
\* An end shorter than 3 s is absorbed when the clip has enough for it; else the clip gives all it has.
V2Length(c) ==
    IF Remaining - Drawn(c) < v2TailAbsorbSeconds THEN Min({Remaining, v2MaxTimeline(c)}) ELSE Drawn(c)

SelectSlot ==
    /\ state = "selecting" /\ Remaining > 0
    /\ \E o \in Chosen :
         slots' = Append(slots, [item |-> o.item, from |-> Cursor, level |-> o.level,
             to |-> IF version = "1.0" THEN V1End(Cursor) ELSE Cursor + V2Length(o.item)])
    /\ UNCHANGED <<pool, version, preset, duration, state>>
SelectFails ==
    /\ state = "selecting"
    /\ Remaining > 0 /\ Chosen = {}
    /\ state' = "failed"
    /\ UNCHANGED <<pool, version, preset, duration, slots>>
SelectionEnds ==
    /\ state = "selecting" /\ Remaining = 0
    /\ state' = "planned"
    /\ UNCHANGED <<pool, version, preset, duration, slots>>
Next == SelectSlot \/ SelectFails \/ SelectionEnds
Spec == Init /\ [][Next]_vars

----------------------------------------------------------------------------
(* What part of its clip a slot shows: [in, out] in 1/200 s *)

\* fitShotToClip at 1.1x, then at 1.0x, with a second of lead-in when there is room for it; a shorter
\* clip is shown whole.
fitShotToClip(length, source) ==
    LET lead(need) == IF source >= need + 200 THEN 200 ELSE 0
    IN CASE source >= 22 * length -> [in |-> lead(22 * length), out |-> lead(22 * length) + 22 * length, fits |-> TRUE]
         [] source < 22 * length /\ source >= 20 * length ->
              [in |-> lead(20 * length), out |-> lead(20 * length) + 20 * length, fits |-> TRUE]
         [] OTHER -> [in |-> 0, out |-> source, fits |-> FALSE]
\* buildTimeline: a still fills its slot, a part of a source that is shorter is slowed to fill it, and
\* the slot that absorbed the end is shown on, slowed when its clip ends before.
V1Window(k) ==
    LET c == slots[k].item
        length == Min({IF slots[k].from < 300 THEN 70 ELSE 80, slots[k].to - slots[k].from})
        base == IF hasShotRange(c) THEN 20 * c.in ELSE 0
        w == IF hasShotRange(c) /\ availableSeconds(c) < length
             THEN [in |-> 0, out |-> 20 * availableSeconds(c), fits |-> TRUE]
             ELSE fitShotToClip(length, 20 * availableSeconds(c))
        shown == (w.out - w.in) * (slots[k].to - slots[k].from)
        end == Min({base + w.in + shown \div length, 20 * (IF hasShotRange(c) THEN c.out ELSE c.duration)})
    IN IF c.kind = "image" THEN [in |-> 0, out |-> 20 * (slots[k].to - slots[k].from), fits |-> TRUE]
       ELSE [in |-> base + w.in, out |-> end, fits |-> w.fits]

\* v2SourceWindow: at 1.5x, after a second of lead-in when there is room; a later use of the source
\* walks on by one slot and wraps, never past the end of the clip.
V2Window(k) ==
    LET c == slots[k].item
        source == 30 * (slots[k].to - slots[k].from)
        reuse == Cardinality({j \in 1..(k - 1) : slots[j].item.source = c.source})
        base == IF hasShotRange(c) THEN 20 * c.in ELSE IF 20 * c.duration >= source + 400 THEN 200 ELSE 0
        limit == 20 * (IF hasShotRange(c) THEN c.out ELSE c.duration)
        span == limit - base
        offset == IF source <= span THEN Min({(reuse * source) % span, span - source}) ELSE 0
        out == Min({base + offset + source, limit})
    IN [in |-> Max({out - source, base}), out |-> out, fits |-> TRUE]
Window(k) == IF version = "1.0" THEN V1Window(k) ELSE V2Window(k)

----------------------------------------------------------------------------
(* Properties *)

TypeOK ==
    /\ state \in {"selecting", "planned", "failed"}
    /\ \A k \in DOMAIN slots : slots[k].item \in Range(pool) /\ slots[k].level \in Strict..LastResort

\* The slots of a plan are the narration without a gap, each longer than nothing.
PlanCoversNarration ==
    /\ \A k \in DOMAIN slots : slots[k].from < slots[k].to /\ slots[k].from = (IF k = 1 THEN 0 ELSE slots[k - 1].to)
    /\ state = "planned" => slots[Len(slots)].to = duration

\* A clip is shown again, or two clips of one source follow each other, only when every clip of
\* another source that has not been shown is too short for the slot.
RepeatsOnlyWhenSpent ==
    \A k \in DOMAIN slots :
        LET c == slots[k].item
            shown(d) == \E j \in 1..(k - 1) : slots[j].item = d \/ (d.shot # "" /\ slots[j].item.shot = d.shot)
            need(d) == Min({v2SlotRange(d.kind, slots[k].from).lo, duration - slots[k].from})
        IN shown(c) \/ (k > 1 /\ slots[k - 1].item.source = c.source)
           => \A d \in Range(pool) : \/ shown(d)
                                     \/ k > 1 /\ slots[k - 1].item.source = d.source
                                     \/ version = "2.0" /\ ~BudgetAllows(d, need(d))
\* A clip with a shot of its own is in the plan once.
ShotIsShownOnce ==
    \A j, k \in DOMAIN slots : slots[j].item.shot # "" /\ slots[j].item.shot = slots[k].item.shot => j = k

\* In a plan of version 2.0 every slot is as long as the shortest of its kind and at most 3 s longer
\* than the longest; only the last may be shorter, and only because the clip before it gave all it had.
SlotsKeepTheirPace ==
    version = "2.0" => \A k \in DOMAIN slots :
        LET c == slots[k].item
            length == slots[k].to - slots[k].from
            range == v2SlotRange(c.kind, slots[k].from)
        IN /\ length < range.hi + v2TailAbsorbSeconds
           /\ length < range.lo =>
                /\ slots[k].to = duration
                /\ k > 1 /\ length < v2TailAbsorbSeconds =>
                      slots[k - 1].to - slots[k - 1].from = v2MaxTimeline(slots[k - 1].item)

\* What a slot shows lies inside its clip and plays at the speed of the plan: in version 2.0 exactly
\* 1.5x, in version 1.0 the clip fits its slot, so that every slot is one shot of the timeline.
WindowsFit ==
    \A k \in DOMAIN slots :
        LET c == slots[k].item
            w == Window(k)
        IN c.kind # "image" =>
             /\ 20 * c.in <= w.in /\ w.in < w.out
             /\ w.out <= 20 * (IF hasShotRange(c) THEN c.out ELSE c.duration)
             /\ w.fits
             /\ version = "2.0" => w.out - w.in = 30 * (slots[k].to - slots[k].from)

\* Rows of one category are neighbours in the pool only when it has more rows than all others.
PoolIsSpread ==
    (\E i \in 1..(Len(pool) - 1) : pool[i].category = pool[i + 1].category)
    => \E c \in {pool[i].category : i \in DOMAIN pool} :
          2 * Cardinality({i \in DOMAIN pool : pool[i].category = c}) > Len(pool) + 1
=============================================================================

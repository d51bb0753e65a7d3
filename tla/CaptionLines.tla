----------------------------- MODULE CaptionLines -----------------------------
(***************************************************************************)
(* Compose of internal/narration/captions.go: the words a voice was timed  *)
(* on become captions. Words are cut into sentences, sentences into lines, *)
(* punctuation is pulled back and connectors are pushed on, and fragments  *)
(* are merged into their neighbours. A word stands for an atom of atomize, *)
(* so no two of them must be joined; what the passes tell apart of it is   *)
(* its length, its kind and how long it is heard.                          *)
(***************************************************************************)
EXTENDS Integers, Sequences, SequencesExt

CONSTANTS Atoms,             \* [n |-> runes, k |-> "word" | "strong" | "soft" | "connector", d |-> duration]
          MaxLineRunes, MinCaptionRunes, MinDuration,
          MaxWords           \* bound of the instance

OptionsAssumption == {MaxLineRunes, MinCaptionRunes} \subseteq Nat \ {0} /\ MinDuration \in Nat

VARIABLE words

TypeOK == words \in Seq(Atoms) /\ Len(words) <= MaxWords

Init == words = <<>>
Hears(a) == Len(words) < MaxWords /\ words' = Append(words, a)
Next == \E a \in Atoms : Hears(a)
Spec == Init /\ [][Next]_words

----------------------------------------------------------------------------

Runes(group) == FoldLeft(LAMBDA sum, w : sum + w.n, 0, group)
Duration(group) == FoldLeft(LAMBDA sum, w : sum + w.d, 0, group)
isPunctuationOnly(w) == w.k \in {"strong", "soft"}
isConnector(w) == w.k = "connector"
AtLeastOne(group, done) == IF group = <<>> THEN done ELSE Append(done, group)

\* A sentence ends at its terminator, or at a comma once the line is long enough.
SentenceEnds(w, length) == w.k = "strong" \/ (w.k = "soft" /\ length >= (MaxLineRunes * 3) \div 5)
splitSentences(ws) ==
    LET Step(acc, w) == LET line == Append(acc.current, w)
                        IN  IF SentenceEnds(w, Runes(line)) THEN [done |-> Append(acc.done, line), current |-> <<>>]
                            ELSE [acc EXCEPT !.current = line]
        all == FoldLeft(Step, [done |-> <<>>, current |-> <<>>], ws)
    IN  AtLeastOne(all.current, all.done)

\* The fewest lines that fit, close to the same length.
balance(segment) ==
    LET total == Runes(segment)
        parts == (total + MaxLineRunes - 1) \div MaxLineRunes
        target == (total + parts - 1) \div parts
        Flush(acc) == [done |-> AtLeastOne(acc.current, acc.done), current |-> <<>>]
        Step(acc, i) ==
            LET fits == IF Runes(acc.current) + segment[i].n > MaxLineRunes THEN Flush(acc) ELSE acc
                line == Append(fits.current, segment[i])
                cut == /\ i < Len(segment)
                       /\ Runes(line) >= target \/ Runes(line) + segment[i + 1].n > MaxLineRunes
            IN  IF cut THEN [done |-> Append(fits.done, line), current |-> <<>>] ELSE [fits EXCEPT !.current = line]
    IN  IF total <= MaxLineRunes \/ Len(segment) < 2 THEN <<segment>>
        ELSE Flush(FoldLeft(Step, [done |-> <<>>, current |-> <<>>], [i \in DOMAIN segment |-> i])).done

\* The longest head, short of the whole, that is punctuation; the longest tail of connectors.
Longest(group, P(_)) == CHOOSE c \in 0..(Len(group) - 1) : P(c) /\ (c = Len(group) - 1 \/ ~P(c + 1))
HeadCount(group) == Longest(group, LAMBDA c : \A j \in 1..c : isPunctuationOnly(group[j]))
TailCount(group) == Longest(group, LAMBDA c : \A j \in (Len(group) - c + 1)..Len(group) : isConnector(group[j]))

\* From the line before, to the line after.
pullLeadingPunctuation(groups) ==
    FoldLeft(LAMBDA gs, i : LET c == HeadCount(gs[i])
                            IN  [gs EXCEPT ![i - 1] = @ \o SubSeq(gs[i], 1, c), ![i] = SubSeq(@, c + 1, Len(@))],
             groups, [j \in 1..(Len(groups) - 1) |-> j + 1])
pushTrailingConnectors(groups) ==
    FoldLeft(LAMBDA gs, i : LET c == TailCount(gs[i])  keep == Len(gs[i]) - c
                            IN  [gs EXCEPT ![i + 1] = SubSeq(gs[i], keep + 1, keep + c) \o @, ![i] = SubSeq(@, 1, keep)],
             groups, [j \in 1..(Len(groups) - 1) |-> j])

groupWords(ws) ==
    LET lines == FoldLeft(LAMBDA done, s : done \o balance(s), <<>>, splitSentences(ws))
    IN  pushTrailingConnectors(pullLeadingPunctuation(lines))

----------------------------------------------------------------------------
(* mergeFragments *)

Fragment(group) == Runes(group) < MinCaptionRunes \/ Duration(group) < MinDuration
\* The neighbours that can take a fragment in; the shorter one does, the one before on a tie.
Takers(groups, i) == {j \in {i - 1, i + 1} \cap DOMAIN groups : Runes(groups[i]) + Runes(groups[j]) <= MaxLineRunes}
mergeTarget(groups, i) ==
    CHOOSE j \in Takers(groups, i) : \A o \in Takers(groups, i) \ {j} :
        Runes(groups[j]) < Runes(groups[o]) \/ (Runes(groups[j]) = Runes(groups[o]) /\ j < o)

\* Mutant: the fragment goes to the end of the line that takes it.
MergedAtEnd(groups, i, j) == RemoveAt([groups EXCEPT ![j] = @ \o groups[i]], i)
Merged(groups, i, j) == RemoveAt([groups EXCEPT ![j] = IF j > i THEN groups[i] \o @ ELSE @ \o groups[i]], i)

Mergeable(groups) == {i \in DOMAIN groups : Fragment(groups[i]) /\ Takers(groups, i) # {}}
\* After each merge the pass begins again.
mergeFragments(groups) ==
    FoldLeft(LAMBDA gs, n : IF Mergeable(gs) = {} THEN gs
                            ELSE LET i == CHOOSE i \in Mergeable(gs) : \A o \in Mergeable(gs) : i <= o
                                 IN  Merged(gs, i, mergeTarget(gs, i)),
             groups, groups)

Lines == mergeFragments(groupWords(words))

----------------------------------------------------------------------------
(* Properties *)

\* Whatever is cut, pulled, pushed and merged, the captions are the words of the narration in
\* their order, none twice and none left out, so that each is shown while it is heard.
CaptionsAreTheWords == words # <<>> => FlattenSeq(Lines) = words /\ \A i \in DOMAIN Lines : Lines[i] # <<>>

\* A fragment that is left stands between lines neither of which could take it in.
FragmentsHaveNoPlace == \A i \in DOMAIN Lines : Fragment(Lines[i]) => Takers(Lines, i) = {}

\* A line is longer than the limit only for the sake of one atom, of the punctuation it keeps
\* and of the connectors that open it.
LongLineHasReason ==
    \A i \in DOMAIN Lines : LET own == SelectSeq(Lines[i], LAMBDA w : w.k = "word")
                            IN  Runes(own) <= MaxLineRunes \/ Len(own) = 1

\* SpokenLineMaxRunes: the cap of a line, counting digits and punctuation.
LineFits == \A i \in DOMAIN Lines : Runes(Lines[i]) <= MaxLineRunes \/ Len(Lines[i]) = 1
\* A cue never ends on a connector.
NoTrailingConnector == \A i \in 1..(Len(Lines) - 1) : ~isConnector(Lines[i][Len(Lines[i])])
\* Closing punctuation is kept off the start of a line.
NoLeadingPunctuation == \A i \in 2..Len(Lines) : isPunctuationOnly(Lines[i][1]) => Len(Lines[i]) = 1
=============================================================================

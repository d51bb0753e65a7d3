------------------------------ MODULE PlanReply ------------------------------
(***************************************************************************)
(* What the console accepts as the answer of the text model that cuts a     *)
(* script into image cards (internal/imageproject/planner.go): the object   *)
(* that is taken out of the answer, the numbering and the roles of the      *)
(* cards, and the mapping of their excerpts back onto the script.           *)
(* A rune is "a", "b" or a blank.                                           *)
(***************************************************************************)
EXTENDS Naturals, Sequences, FiniteSets

CONSTANTS Runes,            \* with " "
          MaxScript, MaxExcerpt, MaxCards

Texts(n) == UNION {[1..k -> Runes] : k \in 0..n}
Roles == {"", "cover", "content", "other"}

VARIABLES script, cards     \* the script and the cards of the answer, in its order
vars == <<script, cards>>

Init == script \in Texts(MaxScript) \ {<<>>} /\ cards = <<>>
NextCard(text, sequence, role) ==
    /\ Len(cards) < MaxCards
    /\ cards' = Append(cards, [text |-> text, sequence |-> sequence, role |-> role]) /\ script' = script
Next == \E t \in Texts(MaxExcerpt), n \in 0..MaxCards, r \in Roles : NextCard(t, n, r)
Spec == Init /\ [][Next]_vars

---------------------------------------------------------------------------
Blank(s) == \A i \in DOMAIN s : s[i] = " "
Part(s, from, to) == SubSeq(s, from, to)
TrimSpace(s) ==
    LET solid == {i \in DOMAIN s : s[i] # " "}
    IN IF solid = {} THEN <<>>
       ELSE Part(s, CHOOSE i \in solid : \A j \in solid : i <= j, CHOOSE i \in solid : \A j \in solid : j <= i)

IndexAnywhere(text, cursor) ==
    LET found == {i \in 1..(Len(script) - Len(text) + 1) : Part(script, i, i + Len(text) - 1) = text}
    IN IF found = {} THEN 0 ELSE CHOOSE i \in found : \A j \in found : i <= j

\* strings.Index from a cursor: the first position of text, 0 if there is none.
Index(text, cursor) ==
    LET found == {i \in cursor..(Len(script) - Len(text) + 1) : Part(script, i, i + Len(text) - 1) = text}
    IN IF found = {} THEN 0 ELSE CHOOSE i \in found : \A j \in found : i <= j

\* The role by position: the first card is the cover, no other may be.
RoleOf(card) == IF card.sequence = 1 THEN "cover" ELSE IF card.role \in {"", "cover"} THEN "content" ELSE card.role

\* The cards are numbered 1..n, each number once, and none is blank.
Numbered ==
    /\ cards # <<>>
    /\ {cards[i].sequence : i \in DOMAIN cards} = 1..Len(cards)
    /\ \A i \in DOMAIN cards : ~Blank(cards[i].text) /\ RoleOf(cards[i]) \in {"cover", "content"}

CardAt(n) == CHOOSE i \in DOMAIN cards : cards[i].sequence = n

\* recoverExactExcerpts: where each excerpt ends in the script, 0 once one was
\* rewritten or left text out before it.
EndsLoose ==
    LET end[n \in 0..Len(cards)] ==
            IF n = 0 THEN 1
            ELSE LET text == TrimSpace(cards[CardAt(n)].text)
                     at == IF end[n - 1] = 0 THEN 0 ELSE Index(text, end[n - 1])
                 IN IF at = 0 THEN 0 ELSE at + Len(text)
    IN end

Ends ==
    LET end[n \in 0..Len(cards)] ==
            IF n = 0 THEN 1
            ELSE LET text == TrimSpace(cards[CardAt(n)].text)
                     at == IF end[n - 1] = 0 THEN 0 ELSE Index(text, end[n - 1])
                 IN IF at = 0 \/ ~Blank(Part(script, end[n - 1], at - 1)) THEN 0 ELSE at + Len(text)
    IN end

\* Nothing but blanks may follow the last one, which takes them.
Accepted ==
    /\ ~Blank(script) /\ Numbered
    /\ Ends[Len(cards)] # 0 /\ Blank(Part(script, Ends[Len(cards)], Len(script)))

\* A card takes the blanks before its excerpt, the last one those after it.
SourceText(n) == Part(script, Ends[n - 1], IF n = Len(cards) THEN Len(script) ELSE Ends[n] - 1)

---------------------------------------------------------------------------
Concat(f, n) == LET c[k \in 0..n] == IF k = 0 THEN <<>> ELSE c[k - 1] \o f[k] IN c[n]

\* The cards never invent, drop or reorder copy: together they are the script,
\* and each is what the model quoted for it.
CardsAreTheScript ==
    Accepted => /\ Concat([n \in 1..Len(cards) |-> SourceText(n)], Len(cards)) = script
                /\ \A n \in 1..Len(cards) : TrimSpace(SourceText(n)) = TrimSpace(cards[CardAt(n)].text)

\* Every division of the script is accepted, however its pieces were trimmed:
\* the first occurrence of a piece that repeats is the right one.
Cuts == {c \in [0..Len(cards) -> 0..Len(script)] :
            c[0] = 0 /\ c[Len(cards)] = Len(script) /\ \A n \in 1..Len(cards) : c[n - 1] < c[n]}
EveryCutIsAccepted ==
    Numbered /\ (\E c \in Cuts : \A n \in 1..Len(cards) :
                    TrimSpace(cards[CardAt(n)].text) = TrimSpace(Part(script, c[n - 1] + 1, c[n]))) => Accepted
=============================================================================

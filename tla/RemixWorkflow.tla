----------------------------- MODULE RemixWorkflow -----------------------------
(***************************************************************************)
(* The node graph the remix lab works by: what PUT accepts and stores for  *)
(* everybody or for one account, the view a run takes of a stored graph,   *)
(* and the graph of a repeated run with other reference models             *)
(* (internal/remixlab/workflow.go and reference_models.go).                *)
(* A node is its id; its type and role are given by constants, because an  *)
(* edit changes the nodes that are there and their edges, never the type   *)
(* of an id. Prompts, titles and positions are left out.                   *)
(***************************************************************************)
EXTENDS Naturals, FiniteSets, Sequences

CONSTANTS Input, Writer, Selfcheck, Reviewer, Output,   \* ids of the nodes of these types
          Agents, References,      \* ids of ordinary agents and of reference drafts
          maxWorkflowAgents, Accounts,
          Candidates,              \* the graphs an editor sends: [nodes, edges]
          MaxModels                \* bound of the instance

VARIABLES file,      \* the stored graphs: "global" and one for each account that has its own
          snapshot   \* the graph frozen into a run; NoGraph: there is none

vars == <<file, snapshot>>

Nodes == {Input, Writer, Selfcheck, Reviewer, Output} \cup Agents \cup References
NoGraph == [nodes |-> {}, edges |-> {}]
In(w, n) == {e[1] : e \in {d \in w.edges : d[2] = n}}
Out(w, n) == {e[2] : e \in {d \in w.edges : d[1] = n}}

----------------------------------------------------------------------------
(* ValidateWorkflow *)

CountsAreRight(w) ==
    /\ {Input, Writer, Output} \subseteq w.nodes
    /\ Cardinality(w.nodes \cap (Agents \cup References)) <= maxWorkflowAgents

EdgesJoinNodes(w) == \A e \in w.edges : e[1] \in w.nodes /\ e[2] \in w.nodes /\ e[1] # e[2]

\* What the mechanical check, the review and the end are connected to.
Last(w) == IF Selfcheck \in w.nodes THEN Selfcheck ELSE Writer
Final(w) == IF Reviewer \in w.nodes THEN Reviewer ELSE Last(w)

ConnectionsAreRight(w) ==
    /\ In(w, Input) = {}
    /\ \A a \in w.nodes \cap (Agents \cup References \cup {Writer}) :
          In(w, a) \subseteq {Input} \cup Agents \cup References
    /\ \A a \in w.nodes \cap References : In(w, a) = {Input} /\ Out(w, a) = {Writer}
    /\ Selfcheck \in w.nodes => In(w, Selfcheck) = {Writer}
    /\ Reviewer \in w.nodes => In(w, Reviewer) = {Last(w)}
    /\ In(w, Output) = {Final(w)} /\ Out(w, Output) = {}

\* Mutant: a node is queued again for every edge into it.
VisitedOnAnyEdge(w) ==
    LET degree == [n \in w.nodes |-> Cardinality(In(w, n))]
        Kahn[S \in SUBSET w.nodes] ==
           LET next == {n \in w.nodes \ S : degree[n] = 0 \/ In(w, n) \cap S # {}}
           IN  IF next = {} THEN S ELSE Kahn[S \cup next]
    IN  Kahn[{}]
\* The cycle detection: nodes whose incoming edges have all been taken away, in rounds.
Visited(w) ==
    LET Kahn[S \in SUBSET w.nodes] ==
           LET next == {n \in w.nodes \ S : Cardinality(In(w, n) \ S) = 0}
           IN  IF next = {} THEN S ELSE Kahn[S \cup next]
    IN  Kahn[{}]

ValidateWorkflow(w) ==
    /\ CountsAreRight(w) /\ EdgesJoinNodes(w) /\ ConnectionsAreRight(w)
    /\ Visited(w) = w.nodes

----------------------------------------------------------------------------
(* Views of a stored graph *)

\* Mutant: the node is taken out and its neighbours are not joined.
Unbridged(w) ==
    [nodes |-> w.nodes \ {Selfcheck}, edges |-> {e \in w.edges : Selfcheck \notin {e[1], e[2]}}]
\* The retired mechanical check is taken out of the graph a run works by.
withoutMechanicalReview(w) ==
    IF Selfcheck \notin w.nodes THEN w
    ELSE [nodes |-> w.nodes \ {Selfcheck},
          edges |-> {e \in w.edges : Selfcheck \notin {e[1], e[2]}}
                    \cup (In(w, Selfcheck) \X Out(w, Selfcheck))]

\* The reference nodes of the graph are replaced by n of them, old ids first; Input feeds the
\* writer in any case. Rejected: too many, or another node depends on a replaced one.
withReferenceModels(w, n) ==
    LET old == w.nodes \cap References
        kept == w.nodes \ old
        ids == CHOOSE S \in SUBSET References : Cardinality(S) = n /\ (S \subseteq old \/ old \subseteq S)
        new == [nodes |-> kept \cup ids,
                edges |-> {e \in w.edges : e[1] \in kept /\ e[2] \in kept}
                          \cup ({Input} \X ids) \cup (ids \X {Writer}) \cup {<<Input, Writer>>}]
    IN  IF \E e \in w.edges : e[1] \in old /\ e[2] \in kept \ {Writer} THEN NoGraph
        ELSE IF ValidateWorkflow(new) THEN new ELSE NoGraph

----------------------------------------------------------------------------

DefaultWorkflow ==
    [nodes |-> {Input, Writer, Reviewer, Output} \cup Agents,
     edges |-> {<<Input, Writer>>, <<Writer, Reviewer>>, <<Reviewer, Output>>}
               \cup ({Input} \X Agents) \cup (Agents \X {Writer})]

\* The account's own graph, else the one for everybody, else the default.
LoadWorkflowForAccount(a) ==
    IF file[a] # NoGraph THEN file[a] ELSE IF file["global"] # NoGraph THEN file["global"] ELSE DefaultWorkflow

Init == file = [a \in Accounts \cup {"global"} |-> NoGraph] /\ snapshot = NoGraph

SaveWorkflowDefinition(a, w) ==
    /\ ValidateWorkflow(w) /\ file' = [file EXCEPT ![a] = w]
    /\ UNCHANGED snapshot

\* A new workflow experiment freezes the graph of its account.
StartRun(a) ==
    /\ snapshot' = withoutMechanicalReview(LoadWorkflowForAccount(a))
    /\ UNCHANGED file

RerunWithReferences(n) ==
    /\ snapshot # NoGraph /\ withReferenceModels(snapshot, n) # NoGraph
    /\ snapshot' = withReferenceModels(snapshot, n)
    /\ UNCHANGED file

Next ==
    \/ \E a \in Accounts \cup {"global"}, w \in Candidates : SaveWorkflowDefinition(a, w)
    \/ \E a \in Accounts : StartRun(a)
    \/ \E n \in 0..MaxModels : RerunWithReferences(n)

Spec == Init /\ [][Next]_vars

----------------------------------------------------------------------------
(* Properties *)

\* The waves runFlowAgents makes of the edges between agents.
Waves(w) ==
    LET agents == w.nodes \cap (Agents \cup References)
        Ran[S \in SUBSET agents] ==
           LET next == {a \in agents \ S : In(w, a) \cap agents \subseteq S}
           IN  IF next = {} THEN S ELSE Ran[S \cup next]
    IN  Ran[{}]

\* Every agent of a graph a run works by gets its turn: the check at the save is what keeps the
\* executor's waves from ending early (flowrun.go says the empty wave cannot happen).
EveryAgentHasItsWave == Waves(snapshot) = snapshot.nodes \cap (Agents \cup References)

\* The graph a run works by is one the editor would accept: taking out the retired check or
\* exchanging the reference models leaves the way from the source to the end whole.
SnapshotIsValid == snapshot # NoGraph => ValidateWorkflow(snapshot) /\ Selfcheck \notin snapshot.nodes
==============================================================================

--------------------------- MODULE MCTaskScheduler ---------------------------
(* Instances of TaskScheduler for TLC. *)
EXTENDS TaskScheduler

OneTask    == {1}
ThreeTasks == 1..3

\* Every task belongs to the one project.
OneProject == [t \in Tasks |-> CHOOSE p \in Projects : TRUE]

NoRemix   == {}
AppFirst  == {1}
LegacyOnly == {}

\* Steps that change something, taken as one action: the live instance has few of the requests and faults, and
\* MCSchedulerSafety the instances in which every action of the scheduler fires.
Change == <<Next>>_vars
LiveSpec == Init /\ [][Change]_vars /\ Fairness

AllEndings == {"failed", "rejected", "superseded", "awaiting_input", "completed"}
=============================================================================

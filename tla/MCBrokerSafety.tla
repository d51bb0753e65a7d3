--------------------------- MODULE MCBrokerSafety ----------------------------
(* ConversationBroker in two small instances, checked in one run.  `focus` names the instance a behaviour is   *)
(* about, and x1, x2, ... are the variables of the module in the order in which it declares them.              *)
EXTENDS Naturals, Sequences, TLC

CONSTANTS c1, c2, c3, r1, r2, r3, r4, w1, w2, noturn, none

VARIABLES focus,
          x1, x2, x3, x4, x5, x6, x7, x8, x9, x10, x11, x12, x13, x14

vars == <<focus, x1, x2, x3, x4, x5, x6, x7, x8, x9, x10, x11, x12, x13, x14>>

\* Four requests, two of them with one client key, send, steer and queue; refused calls, a lost thread, a crash.
M == INSTANCE ConversationBroker WITH
    NoTurn <- noturn, None <- none, Turns <- {1, 2, 3}, MaxAttempt <- 2, Tasks <- {},
    Chats <- {c1, c2, c3}, ModeOf <- (c1 :> "auto") @@ (c2 :> "queue") @@ (c3 :> "steer"),
    Clients <- {r1, r2, r3, r4}, ChatOf <- (r1 :> c1) @@ (r2 :> c1) @@ (r3 :> c2) @@ (r4 :> c3),
    Workers <- {w1}, Operations <- {"refuse", "missing"}, Endings <- {"completed"}, MaxReopen <- 0,
    MaxRestart <- 1,
    rows <- x1, outbox <- x2, created <- x3, turnRow <- x4, status <- x5, inbox <- x6, lease <- x7,
    mutex <- x8, proc <- x9, server <- x10, starter <- x11, sent <- x12, epoch <- x13,
    restarts <- x14
MInit == focus = "messages" /\ M!Init
MNext == focus = "messages" /\ M!Next /\ UNCHANGED <<focus>>

\* A task with an answer, an output retry, a cancellation, completions claimed twice by two workers and turns that end before they are recorded.
K == INSTANCE ConversationBroker WITH
    NoTurn <- noturn, None <- none, Turns <- {1, 2}, MaxAttempt <- 3, Tasks <- {1}, Chats <- {},
    ModeOf <- [c \in {} |-> "auto"], Clients <- {}, ChatOf <- [r \in {} |-> c1],
    Workers <- {w1, w2}, Operations <- {"resume", "stale", "retry", "cancel", "early"},
    Endings <- {"output_invalid", "superseded", "awaiting_input", "completed"}, MaxReopen <- 2,
    MaxRestart <- 0,
    rows <- x1, outbox <- x2, created <- x3, turnRow <- x4, status <- x5, inbox <- x6, lease <- x7,
    mutex <- x8, proc <- x9, server <- x10, starter <- x11, sent <- x12, epoch <- x13,
    restarts <- x14
KInit == focus = "task" /\ K!Init
KNext == focus = "task" /\ K!Next /\ UNCHANGED <<focus>>

Init == \/ MInit \/ KInit
Next == \/ MNext \/ KNext
Spec == Init /\ [][Next]_vars

------------------------------------------------------------------------------
\* The App Server accepts a message at most once, a conversation has one open turn at a time, and the result of
\* a task is validated by one process at a time, also when a completion is claimed twice.
OneOfEach ==
    /\ focus = "messages" => M!SentAtMostOnce /\ M!OneActiveTurn /\ M!OneValidator
    /\ focus = "task" => K!SentAtMostOnce /\ K!OneActiveTurn /\ K!OneValidator

\* What is called accepted was accepted in the turn the receipt names, a conversation shown as running has an
\* open turn or a completion under way, and a task is bound to a turn that was started for it.
RecordsAreTrue ==
    /\ focus = "messages" => M!AcceptedWasSent /\ M!RunningHasTurn
    /\ focus = "task" => K!AcceptedWasSent /\ K!BoundToItsOwnTurn

\* A finished task stays finished, but for the validation of a retained output, and a task that waits for an
\* answer is not failed by what the broker does with messages.
EndsStand ==
    [][ /\ focus = "task" => K!KeepsFinished /\ K!KeepsWaiting]_vars
==============================================================================

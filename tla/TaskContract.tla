---------------------------- MODULE TaskContract -----------------------------
(***************************************************************************)
(* What a client of the task queue relies on, without queue, slots, locks, *)
(* phases or goroutines: a task moves along one life cycle, and at most    *)
(* one task of an exclusive key executes at a time.                        *)
(***************************************************************************)
CONSTANTS Tasks, KeyOf

VARIABLES
  status,      \* the state of each task a client reads
  executing    \* the tasks a process may be working for

contract == <<status, executing>>

Init ==
  /\ status = [t \in Tasks |-> "absent"]
  /\ executing = {}

\* The life cycle.  A failed task reopens only to revalidate its output.
Moves ==
  {<<"absent", "queued">>, <<"queued", "running">>, <<"queued", "failed">>,
   <<"running", "awaiting_input">>, <<"running", "completed">>, <<"running", "failed">>,
   <<"awaiting_input", "queued">>, <<"failed", "running">>}

Move(t) ==
  /\ \E move \in Moves : /\ status[t] = move[1]
                         /\ status' = [status EXCEPT ![t] = move[2]]
  /\ UNCHANGED executing

Occupy(t) ==
  /\ t \notin executing
  /\ \A u \in executing : KeyOf[u] # KeyOf[t]
  /\ status[t] = "running"
  /\ executing' = executing \cup {t}
  /\ UNCHANGED status

Release(t) ==
  /\ t \in executing
  /\ executing' = executing \ {t}
  /\ UNCHANGED status

\* A restart ends every execution; what was running is interrupted and what
\* was queued or waiting for an answer is kept.
Restart ==
  /\ executing' = {}
  /\ status' = [t \in Tasks |-> IF status[t] = "running" THEN "interrupted" ELSE status[t]]

Next ==
  \/ \E t \in Tasks : Move(t) \/ Occupy(t) \/ Release(t)
  \/ Restart

Spec == Init /\ [][Next]_contract
=============================================================================

------------------------------- MODULE TaskFeed -------------------------------
(***************************************************************************)
(* How news of a task reaches the page: the events the runner persists and *)
(* then publishes through the hub of internal/realtime/hub.go (wired in    *)
(* cmd/console/main.go), the sockets that replay and follow them, and the  *)
(* task list of web/src/App.tsx, whose hydrateTasks puts a task together   *)
(* from three requests and keeps a copy of it. A message on a socket is    *)
(* only the occasion of a refresh: the page reads nothing from it.         *)
(***************************************************************************)
EXTENDS Naturals, Sequences, FiniteSets

CONSTANTS Clients,                        \* sockets of the pages that watch the task
          Action,                         \* of the task: "remix", "montage" or "other"
          MaxEvents, MaxDrops, MaxReads   \* bounds of the instance

VARIABLES events,    \* task_events: who wrote each, "runner" or "request"
          runner,    \* the goroutine that persists and publishes one event after the other
          hub,       \* the clients registered for the task, and whether the hub is closed
          client,    \* each socket: where its handler is, its cursor and what the page received
          row,       \* codex_tasks: the status and whether the result is registered
          page,      \* hydrateTasks of the task, taskCacheRef, taskOpenIDRef and whether the task
                     \* is one of the six newest
          drops, reads

vars == <<events, runner, hub, client, row, page, drops, reads>>
feed == <<events, runner, hub, client, drops>>

Ended == {"completed", "failed"}
NoClient == [at |-> "off", cursor |-> 0, replay |-> 0, got |-> <<>>]
NoCopy == [status |-> "none", result |-> FALSE]
Idle == [at |-> "idle", event |-> 0, to |-> {}, told |-> 0]

TypeOK ==
    /\ events \in Seq({"runner", "request"}) /\ Len(events) <= MaxEvents
    /\ runner.at \in {"idle", "broadcast", "publish", "over"} /\ runner.to \subseteq Clients
    /\ hub.clients \subseteq Clients
    /\ \A c \in Clients : client[c].at \in {"off", "replay", "writing", "live", "broken"} /\ client[c].cursor \in 0..MaxEvents
    /\ row.status \in {"running"} \cup Ended /\ page.at \in {"idle", "detail", "result"}

Init ==
    /\ events = <<>> /\ runner = Idle
    /\ hub = [clients |-> {}, closed |-> FALSE] /\ client = [c \in Clients |-> NoClient]
    /\ row = [status |-> "running", result |-> FALSE]
    /\ page = [at |-> "idle", listed |-> "none", copy |-> NoCopy, cached |-> NoCopy,
               recent |-> TRUE, open |-> FALSE, hydrated |-> FALSE]
    /\ drops = 0 /\ reads = 0

----------------------------------------------------------------------------
(* Events and the hub *)

\* insertEvent: the sequence is the next one of the task.
Insert(by) == Len(events) < MaxEvents /\ events' = Append(events, by)

AppendEvent ==
    /\ runner.at = "idle" /\ row.status = "running"
    /\ Insert("runner")
    /\ runner' = [runner EXCEPT !.at = "broadcast", !.told = Len(events) + 1]
    /\ UNCHANGED <<hub, client, row, page, drops, reads>>

\* Inside the transaction of a request; nobody publishes it.
RequestEvent ==
    /\ Insert("request")
    /\ UNCHANGED <<runner, hub, client, row, page, drops, reads>>

\* The broadcast reads the events back and publishes the last one to those registered now.
Publish ==
    /\ runner.at = "broadcast"
    /\ runner' = [runner EXCEPT !.at = "publish", !.event = Len(events), !.to = IF hub.closed THEN {} ELSE hub.clients]
    /\ UNCHANGED <<events, hub, client, row, page, drops, reads>>

Received(c, e) == [client[c] EXCEPT !.cursor = e, !.got = Append(@, e)]

\* Mutant: what the replay brought is sent again.
WriteAgain(c) ==
    /\ runner.at = "publish" /\ c \in runner.to /\ client[c].at \notin {"replay", "writing"}
    /\ runner' = [runner EXCEPT !.to = @ \ {c}]
    /\ client' = IF client[c].at # "live" THEN client ELSE [client EXCEPT ![c] = Received(c, runner.event)]
    /\ UNCHANGED <<events, hub, row, page, drops, reads>>
\* Mutant: a client whose lock is taken is passed over.
WriteIfFree(c) ==
    /\ runner.at = "publish" /\ c \in runner.to
    /\ runner' = [runner EXCEPT !.to = @ \ {c}]
    /\ client' = IF client[c].at # "live" \/ runner.event <= client[c].cursor THEN client
                 ELSE [client EXCEPT ![c] = Received(c, runner.event)]
    /\ UNCHANGED <<events, hub, row, page, drops, reads>>
\* write waits for the client's lock, which the replay holds; the cursor drops what it has seen.
Write(c) ==
    /\ runner.at = "publish" /\ c \in runner.to /\ client[c].at \notin {"replay", "writing"}
    /\ runner' = [runner EXCEPT !.to = @ \ {c}]
    /\ client' = IF client[c].at # "live" \/ runner.event <= client[c].cursor THEN client
                 ELSE [client EXCEPT ![c] = Received(c, runner.event)]
    /\ UNCHANGED <<events, hub, row, page, drops, reads>>

Published ==
    /\ runner.at = "publish" /\ runner.to = {}
    /\ runner' = [runner EXCEPT !.at = "idle", !.event = 0]
    /\ UNCHANGED <<events, hub, client, row, page, drops, reads>>

Added(c) == [hub EXCEPT !.clients = @ \cup {c}]
TakenOff(c) == [hub EXCEPT !.clients = @ \ {c}]

\* Handler: with the client's lock held it registers, then reads the events; the page asks from 0.
Connect(c) ==
    /\ client[c].at = "off" /\ ~hub.closed
    /\ client' = [client EXCEPT ![c] = [NoClient EXCEPT !.at = "replay"]]
    /\ hub' = Added(c)
    /\ UNCHANGED <<events, runner, row, page, drops, reads>>

ReadEvents(c) ==
    /\ client[c].at = "replay"
    /\ client' = [client EXCEPT ![c].at = "writing", ![c].replay = Len(events)]
    /\ UNCHANGED <<events, runner, hub, row, page, drops, reads>>

\* The whole snapshot is written before the lock is let go.
Replayed(c) ==
    /\ client[c].at = "writing"
    /\ client' = [client EXCEPT ![c] = [at |-> "live", cursor |-> @.replay, replay |-> 0, got |-> [i \in 1..@.replay |-> i]]]
    /\ UNCHANGED <<events, runner, hub, row, page, drops, reads>>

\* The socket breaks; the page connects again after two seconds.
Breaks(c) ==
    /\ client[c].at = "live" /\ drops < MaxDrops /\ drops' = drops + 1
    /\ client' = [client EXCEPT ![c] = [NoClient EXCEPT !.at = "broken"]]
    /\ runner' = [runner EXCEPT !.to = @ \ {c}]
    /\ UNCHANGED <<events, hub, row, page, reads>>
Removed(c) ==
    /\ client[c].at = "broken" /\ hub' = TakenOff(c)
    /\ client' = [client EXCEPT ![c] = NoClient]
    /\ UNCHANGED <<events, runner, row, page, drops, reads>>

\* Close closes every registered client once it has its lock.
Close ==
    /\ ~hub.closed /\ hub' = [clients |-> {}, closed |-> TRUE]
    /\ \A c \in Clients : client[c].at \notin {"replay", "writing"}
    /\ client' = [c \in Clients |-> IF client[c].at = "live" THEN [NoClient EXCEPT !.at = "broken"] ELSE client[c]]
    /\ UNCHANGED <<events, runner, row, page, drops, reads>>

----------------------------------------------------------------------------
(* The row and the list of the page *)

\* The result is registered in the transaction that ends the task.
TaskEnds ==
    /\ row.status = "running" /\ runner.at = "idle"
    /\ \E s \in Ended : row' = [status |-> s, result |-> TRUE]
    /\ runner' = [runner EXCEPT !.at = "over"]
    /\ UNCHANGED <<events, hub, client, page, drops, reads>>

\* The task is pushed down by newer ones; its dialog is opened and closed.
NewerTasks ==
    /\ page.recent /\ page' = [page EXCEPT !.recent = FALSE]
    /\ UNCHANGED <<feed, row, reads>>
Dialog ==
    /\ page' = [page EXCEPT !.open = ~page.open]
    /\ UNCHANGED <<feed, row, reads>>

\* Mutant: any copy that is kept is served once the list says the task has ended.
ServesAnyCopy == page.cached # NoCopy /\ row.status \in Ended /\ ~page.open
\* The kept copy is served when both it and the list say the task has ended, a montage's when it is registered.
ServesCopy ==
    /\ page.cached.status \in Ended /\ row.status \in Ended /\ ~page.open
    /\ Action = "montage" => page.cached.result

\* shouldHydrate: a task under way, a new one, a remix, and the one that is open.
Hydrates == row.status \notin Ended \/ page.recent \/ Action = "remix" \/ page.open

\* A task that is not asked for is shown by its copy if there is one, whatever that says.
List ==
    /\ page.at = "idle" /\ reads < MaxReads /\ reads' = reads + 1
    /\ LET listed == [page EXCEPT !.listed = row.status, !.hydrated = Hydrates]
           shell == [status |-> row.status, result |-> FALSE] IN
       page' = CASE ~Hydrates -> [listed EXCEPT !.copy = IF page.cached = NoCopy THEN shell ELSE page.cached]
                 [] Hydrates /\ ServesCopy -> [listed EXCEPT !.copy = page.cached]
                 [] Hydrates /\ ~ServesCopy -> [listed EXCEPT !.at = "detail"]
    /\ UNCHANGED <<feed, row>>

\* GET /api/tasks/{id} and the result, which is asked for when the list says the task has ended
\* and of every montage.
\* The three requests are under way at once; each may fail.
Detail ==
    /\ page.at = "detail"
    /\ \E s \in {row.status, page.listed} : page' = [page EXCEPT !.at = "result", !.copy = [status |-> s, result |-> FALSE]]
    /\ UNCHANGED <<feed, row, reads>>
Result ==
    /\ page.at = "result"
    /\ \E r \in {FALSE} \cup (IF page.listed \in Ended \/ Action = "montage" THEN {row.result} ELSE {}) :
          page' = [page EXCEPT !.at = "idle", !.copy.result = r, !.cached = [page.copy EXCEPT !.result = r]]
    /\ UNCHANGED <<feed, row, reads>>

Next ==
    \/ AppendEvent \/ RequestEvent \/ Publish \/ Published \/ Close \/ TaskEnds
    \/ NewerTasks \/ Dialog \/ List \/ Detail \/ Result
    \/ \E c \in Clients : Write(c) \/ Connect(c) \/ ReadEvents(c) \/ Replayed(c) \/ Breaks(c) \/ Removed(c)

Spec == Init /\ [][Next]_vars

----------------------------------------------------------------------------
(* Properties *)

\* A page receives the events of a task in their order, none of them twice, whether they come
\* from the replay or are published while it runs.
InOrder == \A c \in Clients : \A i, j \in DOMAIN client[c].got : i < j => client[c].got[i] < client[c].got[j]

\* No page sleeps through what the runner reports: once an event has been published, every socket
\* that is open has received it or a newer one, also one that connected in between. (Only the last
\* event is published, so that those before it may never come; the page refreshes all the same.)
NewsArrives ==
    runner.at \in {"idle", "over"} /\ ~hub.closed =>
        \A c \in Clients : client[c].at = "live" => client[c].cursor >= runner.told

\* Once the list says a task has ended and the task is asked for, the page shows it so, whatever
\* copy it keeps and in whatever order the three requests of a refresh were answered.
HydratedEndIsShown == page.at = "idle" /\ page.hydrated /\ page.listed \in Ended => page.copy.status \in Ended

----------------------------------------------------------------------------
(* What the repository says of the page *)

\* hydrateTasks: "A cached copy from while the task was still running must not be served after the
\* list reports a terminal status". It is, of a task that is no longer asked for; no run is spent on it.
EndIsShown == page.at = "idle" /\ page.listed \in Ended => page.copy.status \in Ended

\* What hydrateTasks is said to keep of a finished task: its detail, progress and result.
KeptCopyIsComplete == page.cached.status \in Ended /\ page.at = "idle" => page.cached.result
===============================================================================

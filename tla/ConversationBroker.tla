-------------------------- MODULE ConversationBroker --------------------------
(***************************************************************************)
(* One conversation of the console and its App Server thread: the durable  *)
(* outbox, the turns and the completion inbox of internal/conversation/    *)
(* broker.go, the task adapter that binds turns to formal tasks            *)
(* (task_adapter.go), the notification consumer, the completion workers    *)
(* and the recovery at start-up.                                           *)
(*                                                                         *)
(* A step is one transaction of the store, one call to the App Server or   *)
(* one critical section.  A delivery holds the mutex of the conversation   *)
(* from the reload of its message to the end of the call; the transactions *)
(* of tasks.go and the notification consumer do not take it.               *)
(***************************************************************************)
EXTENDS TaskStore, Sequences

CONSTANTS
  Tasks,       \* formal tasks of the conversation, all on the app_server transport
  Chats,       \* client keys of chat messages
  ModeOf,      \* the delivery mode of a chat message
  Clients,     \* requests that send a chat message
  ChatOf,      \* the client key a request carries
  Workers,     \* completion workers
  None,
  Operations,  \* the requests and faults this instance exercises
  Endings,     \* the results a turn of a task may have
  MaxReopen,   \* bound: a task is resumed or retried only below this attempt
  MaxRestart   \* bound: number of console restarts

ASSUME TurnsAssumption == Turns \subseteq Nat \ {0} /\ IsFiniteSet(Turns)
ASSUME ChatAssumption ==
  /\ ModeOf \in [Chats -> {"auto", "steer", "queue"}]
  /\ ChatOf \in [Clients -> Chats]
ASSUME OperationsAssumption ==
  /\ Operations \subseteq {"resume", "cancel", "retry", "refuse", "missing", "early", "stale"}
  /\ Endings \subseteq {"output_invalid", "other", "superseded", "awaiting_input", "completed"}
ASSUME BoundsAssumption == MaxReopen \in Nat /\ MaxRestart \in Nat

\* A client key: of a chat, or of a task and the turn its answer follows.
Keys        == Chats \cup (Tasks \X (Turns \cup {NoTurn}))
\* The keys of tasks have a prefix of their own.
ASSUME KeysAssumption == \A c \in Chats : c \notin Tasks \X (Turns \cup {NoTurn})
IsFormal(k) == k \notin Chats
TaskOf(k)   == k[1]
IsResume(k) == k[2] # NoTurn
Mode(k)     == IF IsFormal(k) THEN "queue" ELSE ModeOf[k]

Requests == {"enqueue", "resume"} \X Tasks
Retries  == {"retry"} \X Tasks
Senders  == {"client"} \X Clients
Pool     == {"worker"} \X Workers
Notifier == <<"notifier", 0>>
Recovery == <<"recover", 0>>
Procs    == Requests \cup Retries \cup Senders \cup Pool \cup {Notifier, Recovery}
ASSUME NoneAssumption == None \notin Keys /\ None \notin Procs

VARIABLES
  rows,      \* codex_tasks, as in TaskStore
  outbox,    \* chat_outbox
  created,   \* the client keys in order of created_at
  turnRow,   \* chat_turns: the rows that carry a Codex turn id
  status,    \* chat_sessions.status
  inbox,     \* chat_completion_inbox
  lease,     \* thread_leases: "free", held by this process, or by one that is gone
  mutex,     \* the process in the conversation's critical section
  proc,      \* goroutines
  server,    \* the App Server's turns
  starter,   \* the message each turn was started with
  sent,      \* how often the App Server accepted each message
  epoch,     \* the turns that existed at the last restart
  restarts

store  == <<rows, outbox, created, turnRow, status, inbox>>
remote == <<server, starter, sent>>
vars   == <<store, lease, mutex, proc, remote, epoch, restarts>>

OutboxStates == {"absent", "pending", "queued", "sending", "accepted", "failed"}
ServerStates == {"none", "live", "done", "error", "over"}
Delivering   == {"lease", "mark", "decide", "steer", "resteer", "start", "restart",
                 "record", "accept", "status", "bindTask", "refuse"}
ProcStates   == Delivering \cup
  {"idle", "send", "lock", "failOutbox", "failTask", "failRow", "bind",
   "check", "complete", "adopt", "result", "commit", "write", "failTurn", "retry",
   "close", "closeStatus", "done", "next", "after", "sweep", "fail", "inbox",
   "reset", "interrupt", "snapshot", "recover"}

\* seen: the delivery status of the message as the process last read it.
Proc == [pc : ProcStates, key : Keys \cup {None}, seen : OutboxStates,
         turn : Turns \cup {NoTurn}, todo : Seq(Keys \X OutboxStates),
         v : Nat, outcome : {"awaiting_input", "completed"}]

Idle == [pc |-> "idle", key |-> None, seen |-> "absent", turn |-> NoTurn,
         todo |-> <<>>, v |-> 0, outcome |-> "completed"]

Init ==
  /\ rows = [t \in Tasks |-> AbsentRow("app_server")]
  /\ outbox = [k \in Keys |-> [state |-> "absent", turn |-> NoTurn]]
  /\ created = <<>>
  /\ turnRow = [x \in Turns |-> "none"]
  /\ status = "idle"
  /\ inbox = [x \in Turns |-> "none"]
  /\ lease = "free"
  /\ mutex = None
  /\ proc = [p \in Procs |-> Idle]
  /\ server = [x \in Turns |-> "none"]
  /\ starter = [x \in Turns |-> None]
  /\ sent = [k \in Keys |-> 0]
  /\ epoch = {}
  /\ restarts = 0

-----------------------------------------------------------------------------
(* Rows and processes                                                      *)

\* The HTTP server starts after the recovery.
Serving == proc[Recovery].pc = "idle"

Goto(p, pc) == proc' = [proc EXCEPT ![p].pc = pc]
Finish(p)   == proc' = [proc EXCEPT ![p] = Idle]

ActiveTurns == {x \in Turns : turnRow[x] = "running"}
HasActive   == ActiveTurns # {}
ActiveTurn  == Highest(ActiveTurns)

BoundTo(x) == {t \in Tasks : rows[t].turn = x}
BoundTask(x) == CHOOSE t \in BoundTo(x) : TRUE

\* The messages in one of the states, in order of created_at.
InState(states) == {i \in DOMAIN created : outbox[created[i]].state \in states}
Nth(S, n) == CHOOSE i \in S : Cardinality({j \in S : j <= i}) = n
Snapshot(states) ==
  LET listed == InState(states)
  IN  [n \in 1..Cardinality(listed) |->
         LET k == created[Nth(listed, n)] IN <<k, outbox[k].state>>]

\* Enqueue is idempotent on the client key.
Insert(k, state) ==
  /\ outbox[k].state = "absent"
  /\ outbox' = [outbox EXCEPT ![k].state = state]
  /\ created' = Append(created, k)

\* UpdateOutboxStatus: compare and set.
SetOutbox(k, expected, next, x) ==
  /\ outbox[k].state = expected
  /\ outbox' = [outbox EXCEPT ![k] = [state |-> next, turn |-> x]]

\* FailTask when the task is not finished.
FailIfLive(t) ==
  rows' = IF CanFailTask(rows[t]) THEN [rows EXCEPT ![t] = FailTask(@)] ELSE rows

\* FailTurn of the adapter.
FailBoundTurn(x) ==
  rows' = IF BoundTo(x) # {} /\ OwnsLiveTurn(rows[BoundTask(x)], x)
          THEN [rows EXCEPT ![BoundTask(x)] = FailAppServerTurn(@)] ELSE rows

-----------------------------------------------------------------------------
(* Requests                                                                *)

\* Send: the message is stored first; a queued one waits for a completion.
Send(c) ==
  LET p == <<"client", c>>
      k == ChatOf[c]
  IN
  /\ Serving
  /\ proc[p].pc = "idle"
  /\ \/ Insert(k, IF Mode(k) = "queue" THEN "queued" ELSE "pending")
     \/ outbox[k].state = "pending" /\ UNCHANGED <<outbox, created>>
  /\ proc' = IF Mode(k) = "queue" THEN proc
             ELSE [proc EXCEPT ![p] = [Idle EXCEPT !.pc = "lock", !.key = k]]
  /\ UNCHANGED <<rows, turnRow, status, inbox, lease, mutex, remote, epoch, restarts>>

\* deliver: under the mutex the message is read again.
Deliver(c) ==
  LET p == <<"client", c>>
      now == outbox[proc[p].key].state
  IN
  /\ proc[p].pc = "lock"
  /\ mutex = None
  /\ IF now \in {"accepted", "sending", "failed"}
     THEN Finish(p) /\ UNCHANGED mutex
     ELSE mutex' = p /\ proc' = [proc EXCEPT ![p].pc = "lease", ![p].seen = now]
  /\ UNCHANGED <<store, lease, remote, epoch, restarts>>

Enqueue(t) ==
  /\ Serving
  /\ proc[<<"enqueue", t>>].pc = "idle"
  /\ rows[t].status = "absent"
  /\ rows' = [rows EXCEPT ![t] = AdmitQueuedTask(@)]
  /\ proc' = [proc EXCEPT ![<<"enqueue", t>>] = [Idle EXCEPT !.pc = "send", !.key = <<t, NoTurn>>]]
  /\ UNCHANGED <<outbox, created, turnRow, status, inbox, lease, mutex, remote, epoch, restarts>>

MayReopen(t) == NextAttempt(rows[t]) <= MaxReopen

\* BeginAppServerResume stores the answer as a queued message and unbinds the
\* turn in one transaction.
Resume(t) ==
  LET p == <<"resume", t>>
      k == <<t, rows[t].turn>>
  IN
  /\ "resume" \in Operations
  /\ Serving
  /\ proc[p].pc = "idle"
  /\ rows[t].turn # NoTurn
  /\ CanBeginAppServerResume(rows[t], rows[t].turn)
  /\ MayReopen(t)
  /\ Insert(k, "queued")
  /\ rows' = [rows EXCEPT ![t] = BeginAppServerResume(@)]
  /\ proc' = [proc EXCEPT ![p] = [Idle EXCEPT !.pc = "send", !.key = k]]
  /\ UNCHANGED <<turnRow, status, inbox, lease, mutex, remote, epoch, restarts>>

\* SendTask up to the mutex.
SendTask(p) ==
  LET k == proc[p].key
      now == outbox[k].state
  IN
  /\ proc[p].pc = "send"
  /\ \/ Insert(k, "queued") /\ Goto(p, "lock")
     \/ now \in {"pending", "queued"} /\ Goto(p, "lock") /\ UNCHANGED <<outbox, created>>
     \/ now = "failed" /\ Goto(p, "failOutbox") /\ UNCHANGED <<outbox, created>>
     \/ now = "sending" /\ Finish(p) /\ UNCHANGED <<outbox, created>>
     \/ /\ now = "accepted"
        /\ proc' = [proc EXCEPT ![p].pc = "bind", ![p].turn = outbox[k].turn]
        /\ UNCHANGED <<outbox, created>>
  /\ UNCHANGED <<rows, turnRow, status, inbox, lease, mutex, remote, epoch, restarts>>

\* deliverTask reads the message again, but only an accepted or sending one
\* stops it.
DeliverTask(p) ==
  LET k == proc[p].key
      now == outbox[k].state
  IN
  /\ p \in Requests
  /\ proc[p].pc = "lock"
  /\ mutex = None
  /\ \/ now = "sending" /\ Finish(p) /\ UNCHANGED mutex
     \/ /\ now = "accepted"
        /\ proc' = [proc EXCEPT ![p].pc = "bind", ![p].turn = outbox[k].turn]
        /\ UNCHANGED mutex
     \/ /\ now \notin {"sending", "accepted"}
        /\ mutex' = p
        /\ proc' = [proc EXCEPT ![p].pc = "lease", ![p].seen = now]
  /\ UNCHANGED <<store, lease, remote, epoch, restarts>>

\* CancelTask and CancelAppServerTurn; the interrupted turn may end any time.
Cancel(t) ==
  /\ "cancel" \in Operations
  /\ Serving
  /\ CanCancelTask(rows[t])
  /\ rows' = [rows EXCEPT ![t] = CancelTask(@)]
  /\ UNCHANGED <<outbox, created, turnRow, status, inbox, lease, mutex, proc, remote, epoch, restarts>>

-----------------------------------------------------------------------------
(* deliverLocked: the holder of the mutex delivers proc[p].key             *)

\* What a delivery leaves to its caller.  A completion worker keeps the mutex
\* for the next message; the others return it.
AfterDelivery(p, ok) ==
  CASE p \in Senders -> Idle
    [] p \in Requests ->
         IF ok /\ proc[p].turn = NoTurn THEN Idle
         ELSE [proc[p] EXCEPT !.pc = IF ok THEN "bind" ELSE "failOutbox"]
    [] p \in Pool ->
         IF ok THEN Idle ELSE [proc[p] EXCEPT !.pc = "failOutbox"]
    [] p = Recovery ->
         IF ok \/ ~IsFormal(proc[p].key) THEN Idle
         ELSE [proc[p] EXCEPT !.pc = "failOutbox", !.todo = <<>>]

Exit(p, ok) ==
  /\ proc' = [proc EXCEPT ![p] = AfterDelivery(p, ok)]
  /\ mutex' = IF p \in Pool /\ ~ok THEN p ELSE None
  /\ lease' = IF lease = "mine" THEN "free" ELSE lease

\* acquireLease: only a lease of another, expired or not, process stands in
\* the way.
AcquireLease(p) ==
  /\ mutex = p /\ proc[p].pc = "lease"
  /\ IF lease = "other"
     THEN Exit(p, FALSE)
     ELSE lease' = "mine" /\ Goto(p, "mark") /\ UNCHANGED mutex
  /\ UNCHANGED <<store, remote, epoch, restarts>>

\* Mutant: the message counts as accepted when the call is made.
MarkAccepted(p) ==
  LET q == proc[p] IN
  /\ mutex = p /\ q.pc = "mark"
  /\ outbox' = [outbox EXCEPT ![q.key].state = "accepted"]
  /\ Goto(p, "decide")
  /\ UNCHANGED <<rows, created, turnRow, status, inbox, lease, mutex, remote, epoch, restarts>>

MarkSending(p) ==
  LET q == proc[p] IN
  /\ mutex = p /\ q.pc = "mark"
  /\ IF q.seen \in {"pending", "queued"}
     THEN IF outbox[q.key].state = q.seen
          THEN /\ SetOutbox(q.key, q.seen, "sending", NoTurn)
               /\ proc' = [proc EXCEPT ![p].pc = "decide", ![p].seen = "sending"]
               /\ UNCHANGED <<mutex, lease>>
          ELSE Exit(p, FALSE) /\ UNCHANGED outbox
     ELSE Goto(p, "decide") /\ UNCHANGED <<outbox, mutex, lease>>
  /\ UNCHANGED <<rows, created, turnRow, status, inbox, remote, epoch, restarts>>

\* Mutant: a task message may join the turn that is running.
DecideToJoin(p) ==
  /\ mutex = p /\ proc[p].pc = "decide"
  /\ IF HasActive
     THEN proc' = [proc EXCEPT ![p].pc = "steer", ![p].turn = ActiveTurn]
     ELSE Goto(p, "start")
  /\ UNCHANGED <<store, mutex, lease, remote, epoch, restarts>>

\* Mutant: the turns of the conversation are not looked at.
DecideToStart(p) ==
  /\ mutex = p /\ proc[p].pc = "decide"
  /\ Goto(p, "start")
  /\ UNCHANGED <<store, mutex, lease, remote, epoch, restarts>>

\* A queued message that finds an active turn goes back to the queue.  (A
\* queued message is never delivered by the request that stored it.)
Decide(p) ==
  LET q == proc[p] IN
  /\ mutex = p /\ q.pc = "decide"
  /\ \/ /\ Mode(q.key) = "steer" /\ ~HasActive
        /\ Goto(p, "refuse")
        /\ UNCHANGED <<outbox, mutex, lease>>
     \/ /\ Mode(q.key) = "queue" /\ HasActive
        /\ IF q.seen # "sending" THEN Exit(p, TRUE) /\ UNCHANGED outbox
           ELSE IF outbox[q.key].state = "sending"
                THEN SetOutbox(q.key, "sending", "queued", NoTurn) /\ Exit(p, TRUE)
                ELSE Exit(p, FALSE) /\ UNCHANGED outbox
     \/ /\ Mode(q.key) # "queue" /\ HasActive
        /\ proc' = [proc EXCEPT ![p].pc = "steer", ![p].turn = ActiveTurn]
        /\ UNCHANGED <<outbox, mutex, lease>>
     \/ /\ Mode(q.key) # "steer" /\ ~HasActive
        /\ Goto(p, "start")
        /\ UNCHANGED <<outbox, mutex, lease>>
  /\ UNCHANGED <<rows, created, turnRow, status, inbox, remote, epoch, restarts>>

\* The App Server takes the text into the expected turn while that runs.
SteerAccepted(p) ==
  LET q == proc[p] IN
  /\ mutex = p /\ q.pc \in {"steer", "resteer"}
  /\ server[q.turn] = "live"
  /\ sent' = [sent EXCEPT ![q.key] = @ + 1]
  /\ Goto(p, "accept")
  /\ UNCHANGED <<store, mutex, lease, server, starter, epoch, restarts>>

\* refreshAfterStale, once.
SteerStale(p) ==
  LET q == proc[p] IN
  /\ mutex = p /\ q.pc \in {"steer", "resteer"}
  /\ server[q.turn] # "live"
  /\ \/ /\ q.pc = "steer" /\ HasActive
        /\ proc' = [proc EXCEPT ![p].pc = "resteer", ![p].turn = ActiveTurn]
     \/ /\ q.pc = "steer" /\ ~HasActive
        /\ Goto(p, IF Mode(q.key) = "steer" THEN "refuse" ELSE "start")
     \/ q.pc = "resteer" /\ Goto(p, "refuse")
  /\ UNCHANGED <<store, mutex, lease, remote, epoch, restarts>>

Unused   == {x \in Turns : server[x] = "none"}
NextTurn == CHOOSE x \in Unused : \A y \in Unused : x <= y

StartAccepted(p) ==
  /\ mutex = p /\ proc[p].pc \in {"start", "restart"}
  /\ Unused # {}
  /\ server' = [server EXCEPT ![NextTurn] = "live"]
  /\ starter' = [starter EXCEPT ![NextTurn] = proc[p].key]
  /\ sent' = [sent EXCEPT ![proc[p].key] = @ + 1]
  /\ proc' = [proc EXCEPT ![p].pc = "record", ![p].turn = NextTurn]
  /\ UNCHANGED <<store, mutex, lease, epoch, restarts>>

\* The App Server refuses the call, or the instance has no turn left.
CallRefused(p) ==
  /\ mutex = p
  /\ \/ proc[p].pc \in {"start", "restart", "steer", "resteer"} /\ "refuse" \in Operations
     \/ proc[p].pc \in {"start", "restart"} /\ Unused = {}
  /\ Goto(p, "refuse")
  /\ UNCHANGED <<store, mutex, lease, remote, epoch, restarts>>

\* replaceMissingThread: the start is tried once more on a new thread.
ThreadMissing(p) ==
  /\ "missing" \in Operations
  /\ mutex = p /\ proc[p].pc \in {"start", "restart"}
  /\ Goto(p, IF proc[p].pc = "start" THEN "restart" ELSE "refuse")
  /\ UNCHANGED <<store, mutex, lease, remote, epoch, restarts>>

RecordTurn(p) ==
  /\ mutex = p /\ proc[p].pc = "record"
  /\ turnRow' = [turnRow EXCEPT ![proc[p].turn] = "running"]
  /\ Goto(p, "accept")
  /\ UNCHANGED <<rows, outbox, created, status, inbox, lease, mutex, remote, epoch, restarts>>

Accept(p) ==
  LET q == proc[p] IN
  /\ mutex = p /\ q.pc = "accept"
  /\ IF outbox[q.key].state = "sending"
     THEN /\ SetOutbox(q.key, "sending", "accepted", q.turn)
          /\ Goto(p, "status")
          /\ UNCHANGED <<mutex, lease>>
     ELSE Exit(p, FALSE) /\ UNCHANGED outbox
  /\ UNCHANGED <<rows, created, turnRow, status, inbox, remote, epoch, restarts>>

MarkRunning(p) ==
  /\ mutex = p /\ proc[p].pc = "status"
  /\ status' = "running"
  /\ IF IsFormal(proc[p].key) THEN Goto(p, "bindTask") /\ UNCHANGED <<mutex, lease>>
     ELSE Exit(p, TRUE)
  /\ UNCHANGED <<rows, outbox, created, turnRow, inbox, remote, epoch, restarts>>

\* TaskTurnStarted: the turn is bound to the attempt the message belongs to.
BindTask(p) ==
  LET q == proc[p]
      t == TaskOf(q.key)
      mixed == \/ rows[t].status = "resuming" /\ ~IsResume(q.key)
               \/ rows[t].status = "queued" /\ IsResume(q.key)
  IN
  /\ mutex = p /\ q.pc = "bindTask"
  /\ \/ mixed /\ Exit(p, FALSE) /\ UNCHANGED rows
     \/ /\ ~mixed /\ CanStartAppServerTurn(rows[t], q.turn)
        /\ rows' = [rows EXCEPT ![t] = StartAppServerTurn(@, q.turn)]
        /\ Exit(p, TRUE)
     \/ /\ ~mixed /\ ~CanStartAppServerTurn(rows[t], q.turn)
        /\ IF rows[t].status = "awaiting_input" THEN UNCHANGED rows ELSE FailIfLive(t)
        /\ Exit(p, FALSE)
  /\ UNCHANGED <<outbox, created, turnRow, status, inbox, remote, epoch, restarts>>

\* failSending.
Refuse(p) ==
  LET k == proc[p].key IN
  /\ mutex = p /\ proc[p].pc = "refuse"
  /\ IF outbox[k].state = "sending" THEN SetOutbox(k, "sending", "failed", NoTurn)
     ELSE UNCHANGED outbox
  /\ Exit(p, FALSE)
  /\ UNCHANGED <<rows, created, turnRow, status, inbox, remote, epoch, restarts>>

\* FailOutboxByClientKey and FailOutbox have no condition on the status.
FailDelivery(p) ==
  LET k == proc[p].key IN
  /\ proc[p].pc = "failOutbox"
  /\ outbox' = [outbox EXCEPT ![k].state = "failed"]
  /\ Goto(p, IF IsFormal(k) THEN "failTask" ELSE "after")
  /\ UNCHANGED <<rows, created, turnRow, status, inbox, lease, mutex, remote, epoch, restarts>>

\* TaskDeliveryFailed.  A task that is finished between the look at its status
\* and the write makes a worker and the recovery return.
FailTaskDelivery(p) ==
  LET t == TaskOf(proc[p].key) IN
  /\ proc[p].pc = "failTask"
  /\ \/ /\ FailIfLive(t)
        /\ Goto(p, CASE p \in Requests -> "failRow"
                     [] p \in Pool -> "after"
                     [] p = Recovery -> "recover")
        /\ UNCHANGED mutex
     \/ /\ p \notin Requests /\ ~CanFailTask(rows[t])
        /\ Finish(p)
        /\ mutex' = IF p \in Pool THEN None ELSE mutex
        /\ UNCHANGED rows
  /\ UNCHANGED <<outbox, created, turnRow, status, inbox, lease, remote, epoch, restarts>>

\* The error branch of Enqueue and of Resume.
FailRow(p) ==
  LET t == TaskOf(proc[p].key) IN
  /\ proc[p].pc = "failRow"
  /\ IF IsResume(proc[p].key) THEN FailIfLive(t)
     ELSE rows' = IF CanFailQueuedTask(rows[t]) THEN [rows EXCEPT ![t] = FailQueuedTask(@)] ELSE rows
  /\ Finish(p)
  /\ UNCHANGED <<outbox, created, turnRow, status, inbox, lease, mutex, remote, epoch, restarts>>

\* bindReceipt: the turn is normally bound already.
BindReceipt(p) ==
  LET q == proc[p]
      t == TaskOf(q.key)
  IN
  /\ q.pc = "bind"
  /\ \/ rows[t].turn = q.turn /\ UNCHANGED rows
     \/ rows[t].turn = NoTurn /\ rows' = [rows EXCEPT ![t].turn = q.turn]
     \/ /\ rows[t].turn \notin {q.turn, NoTurn}
        /\ IF IsResume(q.key) THEN FailIfLive(t) ELSE UNCHANGED rows
  /\ Finish(p)
  /\ UNCHANGED <<outbox, created, turnRow, status, inbox, lease, mutex, remote, epoch, restarts>>

-----------------------------------------------------------------------------
(* The App Server's notifications                                          *)

\* "early": a turn may end before its start is recorded.
ServerEnds(x) ==
  /\ server[x] = "live"
  /\ \/ "early" \in Operations
     \/ \A p \in Procs : proc[p].turn = x => proc[p].pc \notin {"record", "accept", "status", "bindTask"}
  /\ \E end \in {"done", "error"} : server' = [server EXCEPT ![x] = end]
  /\ UNCHANGED <<store, lease, mutex, proc, starter, sent, epoch, restarts>>

\* consumeNotifications: without a turn row the notification has no session.
Notify(x) ==
  /\ server[x] \in {"done", "error"}
  /\ proc[Notifier].pc = "idle"
  /\ server' = [server EXCEPT ![x] = "over"]
  /\ proc' = IF turnRow[x] = "none" THEN proc
             ELSE [proc EXCEPT ![Notifier] =
                     [Idle EXCEPT !.pc = IF server[x] = "error" THEN "fail" ELSE "inbox", !.turn = x]]
  /\ UNCHANGED <<store, lease, mutex, starter, sent, epoch, restarts>>

NotifyFailure ==
  /\ proc[Notifier].pc = "fail"
  /\ FailBoundTurn(proc[Notifier].turn)
  /\ Goto(Notifier, "inbox")
  /\ UNCHANGED <<outbox, created, turnRow, status, inbox, lease, mutex, remote, epoch, restarts>>

\* persistCompletion: a second completion of the turn is ignored.
PersistCompletion ==
  LET x == proc[Notifier].turn IN
  /\ proc[Notifier].pc = "inbox"
  /\ inbox' = IF inbox[x] = "none" THEN [inbox EXCEPT ![x] = "pending"] ELSE inbox
  /\ Finish(Notifier)
  /\ UNCHANGED <<rows, outbox, created, turnRow, status, lease, mutex, remote, epoch, restarts>>

-----------------------------------------------------------------------------
(* Completion workers                                                      *)

Claim(w, x) ==
  LET p == <<"worker", w>> IN
  /\ proc[p].pc = "idle"
  /\ inbox[x] = "pending"
  /\ inbox' = [inbox EXCEPT ![x] = "processing"]
  /\ proc' = [proc EXCEPT ![p] = [Idle EXCEPT !.pc = "check", !.turn = x]]
  /\ UNCHANGED <<rows, outbox, created, turnRow, status, lease, mutex, remote, epoch, restarts>>

\* processTurnCompleted up to the call of CompleteTurn.
Check(p) ==
  LET x == proc[p].turn IN
  /\ proc[p].pc = "check"
  /\ Goto(p, IF BoundTo(x) = {} THEN "adopt"
             ELSE IF rows[BoundTask(x)].status \in {"running", "resuming"} THEN "complete"
             ELSE "close")
  /\ UNCHANGED <<store, lease, mutex, remote, epoch, restarts>>

\* Mutant: a task whose result is being validated is claimed again.
CompleteTurnAgain(p) ==
  LET x == proc[p].turn
      t == BoundTask(x)
  IN
  /\ proc[p].pc \in {"complete", "adopt"}
  /\ IF BoundTo(x) # {} /\ CanBeginResultValidation(rows[t])
     THEN /\ rows' = [rows EXCEPT ![t] = ClaimAppServerResult(@)]
          /\ proc' = [proc EXCEPT ![p].pc = "result", ![p].v = ValidationAttempt(rows[t]),
                                  ![p].key = <<t, NoTurn>>]
     ELSE Goto(p, "close") /\ UNCHANGED rows
  /\ UNCHANGED <<outbox, created, turnRow, status, inbox, lease, mutex, remote, epoch, restarts>>

CompleteTurn(p) ==
  LET x == proc[p].turn
      t == BoundTask(x)
      state == IF BoundTo(x) = {} THEN "absent" ELSE rows[t].status
  IN
  /\ proc[p].pc \in {"complete", "adopt"}
  /\ \/ /\ state \notin {"running", "resuming"}
        /\ Goto(p, "close") /\ UNCHANGED rows
     \/ /\ state = "resuming"
        /\ Goto(p, IF proc[p].pc = "adopt" THEN "failTurn" ELSE "retry") /\ UNCHANGED rows
     \/ /\ state = "running"
        /\ IF CanClaimAppServerResult(rows[t], x)
           THEN /\ rows' = [rows EXCEPT ![t] = ClaimAppServerResult(@)]
                /\ proc' = [proc EXCEPT ![p].pc = "result", ![p].v = ValidationAttempt(rows[t]),
                                        ![p].key = <<t, NoTurn>>]
           ELSE Goto(p, "failTurn") /\ UNCHANGED rows
  /\ UNCHANGED <<outbox, created, turnRow, status, inbox, lease, mutex, remote, epoch, restarts>>

\* RetryOutput of the adapter: the retained output of a failed task is
\* validated again by the request itself.
RetryOutput(t) ==
  LET p == <<"retry", t>> IN
  /\ "retry" \in Operations
  /\ Serving
  /\ proc[p].pc = "idle"
  /\ CanClaimOutputInvalidRetry(rows[t])
  /\ ValidationAttempt(rows[t]) <= MaxReopen
  /\ rows' = [rows EXCEPT ![t] = ClaimOutputInvalidRetry(@)]
  /\ proc' = [proc EXCEPT ![p] = [Idle EXCEPT !.pc = "result", !.turn = rows[t].turn,
                                              !.v = ValidationAttempt(rows[t]), !.key = <<t, NoTurn>>]]
  /\ UNCHANGED <<outbox, created, turnRow, status, inbox, lease, mutex, remote, epoch, restarts>>

\* Where p goes when CompleteAgentResult returns.
AfterResult(p, ok) ==
  proc' = [proc EXCEPT ![p] = IF p \in Retries THEN Idle
                              ELSE [@ EXCEPT !.pc = IF ok THEN "close" ELSE "failTurn"]]

\* persistFailure of the runner with an expected turn.
PersistFailure(t, x) ==
  rows' = IF OwnsLiveTurn(rows[t], x) THEN [rows EXCEPT ![t] = FailAppServerTurn(@)] ELSE rows

\* CompleteAgentResult: an unusable result is written as a failure.
ResultRejected(p) ==
  LET t == TaskOf(proc[p].key)
      q == proc[p]
  IN
  /\ q.pc = "result"
  /\ \E error \in Endings \cap {"output_invalid", "other"} :
       IF CanWriteFailure(rows[t], q.v, q.turn)
       THEN rows' = [rows EXCEPT ![t] = WriteFailure(@, q.v, error)]
       ELSE PersistFailure(t, q.turn)
  /\ AfterResult(p, FALSE)
  /\ UNCHANGED <<outbox, created, turnRow, status, inbox, lease, mutex, remote, epoch, restarts>>

\* BeginAssetCommit looks at the phases and not at the claim.
ResultAccepted(p) ==
  LET t == TaskOf(proc[p].key)
      q == proc[p]
  IN
  /\ q.pc = "result"
  /\ \/ /\ CanBeginAssetCommit(rows[t], q.v)
        /\ rows' = [rows EXCEPT ![t] = BeginAssetCommit(@, q.v)]
        /\ \E end \in Endings \cap {"awaiting_input", "completed"} :
             proc' = [proc EXCEPT ![p].pc = "write", ![p].outcome = end]
     \/ /\ "superseded" \in Endings \/ ~CanBeginAssetCommit(rows[t], q.v)
        /\ PersistFailure(t, q.turn)
        /\ AfterResult(p, FALSE)
  /\ UNCHANGED <<outbox, created, turnRow, status, inbox, lease, mutex, remote, epoch, restarts>>

\* A resumed task has left the turn: the write is refused by its claim.
WriteResult(p) ==
  LET t == TaskOf(proc[p].key)
      q == proc[p]
  IN
  /\ q.pc = "write"
  /\ IF CanWriteSuccess(rows[t], q.v, q.turn)
     THEN rows' = [rows EXCEPT ![t] = WriteSuccess(@, q.v, q.outcome)] /\ AfterResult(p, TRUE)
     ELSE PersistFailure(t, q.turn) /\ AfterResult(p, FALSE)
  /\ UNCHANGED <<outbox, created, turnRow, status, inbox, lease, mutex, remote, epoch, restarts>>

FailTurn(p) ==
  /\ proc[p].pc = "failTurn"
  /\ FailBoundTurn(proc[p].turn)
  /\ Goto(p, "retry")
  /\ UNCHANGED <<outbox, created, turnRow, status, inbox, lease, mutex, remote, epoch, restarts>>

\* Mutant: the completion stays with the worker that gave up.
RetryLater(p) ==
  /\ proc[p].pc = "retry"
  /\ Finish(p)
  /\ UNCHANGED <<store, lease, mutex, remote, epoch, restarts>>

\* RetryCompletion.
RetryCompletion(p) ==
  LET x == proc[p].turn IN
  /\ proc[p].pc = "retry"
  /\ inbox' = IF inbox[x] = "processing" THEN [inbox EXCEPT ![x] = "pending"] ELSE inbox
  /\ Finish(p)
  /\ UNCHANGED <<rows, outbox, created, turnRow, status, lease, mutex, remote, epoch, restarts>>

\* closeTurnCompleted: two writes under the mutex.  The conversation goes idle
\* even when its open turn is another one.
CloseTurn(p) ==
  LET x == proc[p].turn IN
  /\ proc[p].pc = "close"
  /\ mutex = None
  /\ mutex' = p
  /\ turnRow' = IF HasActive /\ ActiveTurn = x THEN [turnRow EXCEPT ![x] = "completed"] ELSE turnRow
  /\ Goto(p, "closeStatus")
  /\ UNCHANGED <<rows, outbox, created, status, inbox, lease, remote, epoch, restarts>>

\* Mutant: the status is left to the next turn.
CloseNoStatus(p) ==
  /\ proc[p].pc = "closeStatus"
  /\ mutex' = None
  /\ Goto(p, "done")
  /\ UNCHANGED <<store, lease, remote, epoch, restarts>>

CloseStatus(p) ==
  /\ proc[p].pc = "closeStatus"
  /\ status' = "idle"
  /\ mutex' = None
  /\ Goto(p, "done")
  /\ UNCHANGED <<rows, outbox, created, turnRow, inbox, lease, remote, epoch, restarts>>

\* Mutant: nobody looks at the queue after a completion.
CompleteOnly(p) ==
  LET x == proc[p].turn IN
  /\ proc[p].pc = "done"
  /\ inbox' = IF inbox[x] = "processing" THEN [inbox EXCEPT ![x] = "done"] ELSE inbox
  /\ Finish(p)
  /\ UNCHANGED <<rows, outbox, created, turnRow, status, lease, mutex, remote, epoch, restarts>>

CompleteCompletion(p) ==
  LET x == proc[p].turn IN
  /\ proc[p].pc = "done"
  /\ IF inbox[x] = "processing"
     THEN inbox' = [inbox EXCEPT ![x] = "done"] /\ Goto(p, "next")
     ELSE Finish(p) /\ UNCHANGED inbox
  /\ UNCHANGED <<rows, outbox, created, turnRow, status, lease, mutex, remote, epoch, restarts>>

\* Another worker has reclaimed a completion that took too long.
RequeueStale(x) ==
  /\ "stale" \in Operations
  /\ inbox[x] = "processing"
  /\ inbox' = [inbox EXCEPT ![x] = "pending"]
  /\ UNCHANGED <<rows, outbox, created, turnRow, status, lease, mutex, proc, remote, epoch, restarts>>

-----------------------------------------------------------------------------
(* deliverAfterCompletion                                                  *)

ListPending(p) ==
  /\ proc[p].pc = "next"
  /\ mutex = None
  /\ mutex' = p
  /\ proc' = [proc EXCEPT ![p].pc = "after", ![p].turn = NoTurn, ![p].todo = Snapshot({"queued"})]
  /\ UNCHANGED <<store, lease, remote, epoch, restarts>>

Deliverable(k) == IsFormal(k) => rows[TaskOf(k)].status = "running"

\* The next message of the list: formalOutboxDeliverable closes the message of
\* a task that is not running.
NextPending(p) ==
  LET q == proc[p]
      k == Head(q.todo)[1]
      state == Head(q.todo)[2]
  IN
  /\ q.pc = "after"
  /\ q.todo # <<>>
  /\ \/ /\ Deliverable(k)
        /\ proc' = [proc EXCEPT ![p] = [q EXCEPT !.pc = "lease", !.key = k, !.seen = state,
                                                !.turn = NoTurn, !.todo = Tail(q.todo)]]
        /\ UNCHANGED <<outbox, mutex>>
     \/ /\ ~Deliverable(k) /\ outbox[k].state = state
        /\ SetOutbox(k, state, "failed", NoTurn)
        /\ proc' = [proc EXCEPT ![p].todo = Tail(@)]
        /\ UNCHANGED mutex
     \/ /\ ~Deliverable(k) /\ outbox[k].state # state
        /\ Finish(p) /\ mutex' = None /\ UNCHANGED outbox
  /\ UNCHANGED <<rows, created, turnRow, status, inbox, lease, remote, epoch, restarts>>

\* Mutant: the sweep lists every message.
ListAll(p) ==
  /\ proc[p].pc = "after"
  /\ proc[p].todo = <<>>
  /\ proc' = [proc EXCEPT ![p].pc = "sweep", ![p].todo = Snapshot(OutboxStates)]
  /\ UNCHANGED <<store, mutex, lease, remote, epoch, restarts>>

ListFailed(p) ==
  /\ proc[p].pc = "after"
  /\ proc[p].todo = <<>>
  /\ proc' = [proc EXCEPT ![p].pc = "sweep", ![p].todo = Snapshot({"failed"})]
  /\ UNCHANGED <<store, mutex, lease, remote, epoch, restarts>>

\* The tasks of failed messages fail as well, up to the first that cannot.
SweepFailed(p) ==
  LET q == proc[p]
      k == Head(q.todo)[1]
  IN
  /\ q.pc = "sweep"
  /\ \/ /\ q.todo # <<>> => IsFormal(k) /\ ~CanFailTask(rows[TaskOf(k)])
        /\ Finish(p) /\ mutex' = None /\ UNCHANGED rows
     \/ /\ q.todo # <<>>
        /\ IF IsFormal(k) THEN FailIfLive(TaskOf(k)) ELSE UNCHANGED rows
        /\ proc' = [proc EXCEPT ![p].todo = Tail(@)]
        /\ UNCHANGED mutex
  /\ UNCHANGED <<outbox, created, turnRow, status, inbox, lease, remote, epoch, restarts>>

-----------------------------------------------------------------------------
(* Crash, restart and recovery                                             *)

\* The leases of a console that is gone run out.
ExpireLease ==
  /\ lease = "other"
  /\ lease' = "free"
  /\ UNCHANGED <<store, mutex, proc, remote, epoch, restarts>>

HasUnsent(t)      == \E k \in Keys : IsFormal(k) /\ TaskOf(k) = t /\ outbox[k].state \in {"pending", "queued"}
HasOpenInbox(x)   == x # NoTurn /\ inbox[x] \in {"pending", "processing"}

\* The App Server dies with the console: no turn outlives it.
Restart ==
  /\ restarts < MaxRestart
  /\ restarts' = restarts + 1
  /\ rows' = [t \in Tasks |-> InterruptInFlight(rows[t], HasOpenInbox(rows[t].turn), HasUnsent(t))]
  /\ proc' = [p \in Procs |-> IF p = Recovery THEN [Idle EXCEPT !.pc = "reset"] ELSE Idle]
  /\ mutex' = None
  /\ lease' = IF lease = "mine" THEN "other" ELSE lease
  /\ server' = [x \in Turns |-> IF server[x] = "none" THEN "none" ELSE "over"]
  /\ epoch' = {x \in Turns : turnRow[x] # "none"}
  /\ UNCHANGED <<outbox, created, turnRow, status, inbox, starter, sent>>

\* Mutant: what a worker had claimed is left to it.
KeepProcessing ==
  /\ proc[Recovery].pc = "reset"
  /\ Goto(Recovery, "interrupt")
  /\ UNCHANGED <<store, lease, mutex, remote, epoch, restarts>>

ResetProcessing ==
  /\ proc[Recovery].pc = "reset"
  /\ inbox' = [x \in Turns |-> IF inbox[x] = "processing" THEN "pending" ELSE inbox[x]]
  /\ Goto(Recovery, "interrupt")
  /\ UNCHANGED <<rows, outbox, created, turnRow, status, lease, mutex, remote, epoch, restarts>>

Unreconciled == {x \in ActiveTurns \cap epoch : ~HasOpenInbox(x)}

\* Mutant: the turns get the status of an interrupted task.
InterruptTurnsAsTasks ==
  /\ proc[Recovery].pc = "interrupt"
  /\ turnRow' = [x \in Turns |-> IF x \in Unreconciled THEN "interrupted" ELSE turnRow[x]]
  /\ status' = IF Unreconciled # {} THEN "idle" ELSE status
  /\ Goto(Recovery, "snapshot")
  /\ UNCHANGED <<rows, outbox, created, inbox, lease, mutex, remote, epoch, restarts>>

\* InterruptUnreconciledActiveTurns: only turns older than the process.
InterruptTurns ==
  /\ proc[Recovery].pc = "interrupt"
  /\ turnRow' = [x \in Turns |-> IF x \in Unreconciled THEN "failed" ELSE turnRow[x]]
  /\ status' = IF Unreconciled # {} THEN "idle" ELSE status
  /\ Goto(Recovery, "snapshot")
  /\ UNCHANGED <<rows, outbox, created, inbox, lease, mutex, remote, epoch, restarts>>

\* The list of messages to recover; with an active turn only those whose
\* outcome is unknown.  The completions it drains first go to the workers.
ListRecoverable ==
  /\ proc[Recovery].pc = "snapshot"
  /\ proc' = [proc EXCEPT ![Recovery].pc = "recover",
                          ![Recovery].todo = Snapshot({"sending"}) \o
                             IF HasActive THEN <<>> ELSE Snapshot({"pending", "queued"})]
  /\ UNCHANGED <<store, lease, mutex, remote, epoch, restarts>>

\* Mutant: a message left in sending is sent again.
RecoverByResending ==
  LET q == proc[Recovery]
      k == Head(q.todo)[1]
  IN
  /\ q.pc = "recover"
  /\ q.todo # <<>>
  /\ Head(q.todo)[2] = "sending"
  /\ mutex = None
  /\ mutex' = Recovery
  /\ proc' = [proc EXCEPT ![Recovery] = [q EXCEPT !.pc = "lease", !.key = k, !.seen = "sending",
                                                  !.todo = Tail(q.todo)]]
  /\ UNCHANGED <<store, lease, remote, epoch, restarts>>

\* A message left in sending fails instead of being sent again.
RecoverSending ==
  LET q == proc[Recovery]
      k == Head(q.todo)[1]
  IN
  /\ q.pc = "recover"
  /\ q.todo # <<>>
  /\ Head(q.todo)[2] = "sending"
  /\ LET lost == outbox[k].state = "sending" IN
     /\ outbox' = IF lost THEN [outbox EXCEPT ![k].state = "failed"] ELSE outbox
     /\ proc' = [proc EXCEPT ![Recovery] =
                   [q EXCEPT !.pc = IF lost /\ IsFormal(k) THEN "failTask" ELSE "recover",
                             !.key = k, !.todo = Tail(q.todo)]]
  /\ UNCHANGED <<rows, created, turnRow, status, inbox, lease, mutex, remote, epoch, restarts>>

\* Pending and queued messages, until one is delivered.
RecoverUnsent ==
  LET q == proc[Recovery]
      k == Head(q.todo)[1]
      state == Head(q.todo)[2]
  IN
  /\ q.pc = "recover"
  /\ q.todo # <<>>
  /\ state # "sending"
  /\ \/ /\ Deliverable(k)
        /\ mutex = None
        /\ mutex' = Recovery
        /\ proc' = [proc EXCEPT ![Recovery] = [q EXCEPT !.pc = "lease", !.key = k, !.seen = state,
                                                        !.turn = NoTurn, !.todo = Tail(q.todo)]]
        /\ UNCHANGED outbox
     \/ /\ ~Deliverable(k) /\ outbox[k].state = state
        /\ SetOutbox(k, state, "failed", NoTurn)
        /\ proc' = [proc EXCEPT ![Recovery].todo = Tail(@)]
        /\ UNCHANGED mutex
     \/ /\ ~Deliverable(k) /\ outbox[k].state # state
        /\ Finish(Recovery) /\ UNCHANGED <<outbox, mutex>>
  /\ UNCHANGED <<rows, created, turnRow, status, inbox, lease, remote, epoch, restarts>>

EndRecovery ==
  /\ proc[Recovery].pc = "recover"
  /\ proc[Recovery].todo = <<>>
  /\ Finish(Recovery)
  /\ UNCHANGED <<store, lease, mutex, remote, epoch, restarts>>

-----------------------------------------------------------------------------
Step(p) ==
  \/ SendTask(p) \/ DeliverTask(p)
  \/ AcquireLease(p) \/ MarkSending(p) \/ Decide(p)
  \/ SteerAccepted(p) \/ SteerStale(p) \/ StartAccepted(p) \/ CallRefused(p) \/ ThreadMissing(p)
  \/ RecordTurn(p) \/ Accept(p) \/ MarkRunning(p) \/ BindTask(p) \/ Refuse(p)
  \/ FailDelivery(p) \/ FailTaskDelivery(p) \/ FailRow(p) \/ BindReceipt(p)
  \/ Check(p) \/ CompleteTurn(p) \/ ResultRejected(p) \/ ResultAccepted(p) \/ WriteResult(p)
  \/ FailTurn(p) \/ RetryCompletion(p) \/ CloseTurn(p) \/ CloseStatus(p) \/ CompleteCompletion(p)
  \/ ListPending(p) \/ NextPending(p) \/ ListFailed(p) \/ SweepFailed(p)

Notifying == (\E x \in Turns : Notify(x)) \/ NotifyFailure \/ PersistCompletion

Recovering ==
  \/ ResetProcessing \/ InterruptTurns \/ ListRecoverable
  \/ RecoverSending \/ RecoverUnsent \/ EndRecovery

Next ==
  \/ \E c \in Clients : Send(c) \/ Deliver(c)
  \/ \E t \in Tasks : Enqueue(t) \/ Resume(t) \/ Cancel(t) \/ RetryOutput(t)
  \/ \E p \in Procs : Step(p)
  \/ \E w \in Workers, x \in Turns : Claim(w, x)
  \/ \E x \in Turns : ServerEnds(x) \/ RequeueStale(x)
  \/ Notifying
  \/ Recovering
  \/ ExpireLease
  \/ Restart

Spec == Init /\ [][Next]_vars

\* A started goroutine runs on and gets the mutex of the conversation in the
\* end (sync.Mutex does not starve a waiter), a turn ends, its notification is
\* consumed and the sweep wakes a worker every second.  Nobody has to send,
\* cancel or restart anything.
Fairness ==
  /\ \A p \in Requests \cup Retries \cup Pool \cup {Recovery} : SF_vars(Step(p))
  /\ \A c \in Clients : SF_vars(Step(<<"client", c>>) \/ Deliver(c))
  /\ \A x \in Turns : WF_vars(ServerEnds(x)) /\ SF_vars(\E w \in Workers : Claim(w, x))
  /\ WF_vars(Notifying)
  /\ WF_vars(Recovering)
  /\ WF_vars(ExpireLease)

FairSpec == Spec /\ Fairness

-----------------------------------------------------------------------------
(* Properties                                                              *)

\* Type correctness of the store, the processes and the App Server.
TypeOK ==
  /\ rows \in [Tasks -> Row]
  /\ outbox \in [Keys -> [state : OutboxStates, turn : Turns \cup {NoTurn}]]
  /\ created \in Seq(Keys)
  /\ turnRow \in [Turns -> {"none", "running", "completed", "failed"}]
  /\ status \in {"idle", "running"}
  /\ inbox \in [Turns -> {"none", "pending", "processing", "done"}]
  /\ lease \in {"free", "mine", "other"}
  /\ mutex \in Procs \cup {None}
  /\ proc \in [Procs -> Proc]
  /\ server \in [Turns -> ServerStates]
  /\ starter \in [Turns -> Keys \cup {None}]
  /\ sent \in [Keys -> Nat]
  /\ epoch \subseteq Turns
  /\ restarts \in 0..MaxRestart

\* The App Server accepts a message at most once, whatever requests, workers
\* and restarts do with it: "duplicate client key ... never invokes Codex
\* again" (Send) and "risking a duplicate App Server call" (Recover).
SentAtMostOnce == \A k \in Keys : sent[k] <= 1

\* A conversation has one open turn at a time, in the store and on the App
\* Server, although three kinds of process start turns.
OneActiveTurn ==
  /\ Cardinality(ActiveTurns) <= 1
  /\ Cardinality({x \in Turns : server[x] = "live"}) <= 1

\* A message the console calls accepted was accepted by the App Server, in
\* the turn its receipt names, and that turn was recorded.
AcceptedWasSent ==
  \A k \in Keys : outbox[k].state = "accepted" =>
    /\ sent[k] = 1
    /\ outbox[k].turn # NoTurn => turnRow[outbox[k].turn] # "none"

\* Nobody is in the conversation's critical section and the recovery is over.
Quiet == mutex = None /\ Serving

\* A conversation shown as running has an open turn, or a completion that will
\* make it idle, once everybody has left it: chat_sessions.status and
\* chat_turns are written in separate steps, and a crash may come between.
RunningHasTurn ==
  Quiet /\ status = "running" => HasActive \/ \E x \in Turns : HasOpenInbox(x)

\* A task is bound to a turn that was started for it, never to the turn of a
\* chat message or of another task in the same conversation.
BoundToItsOwnTurn ==
  \A t \in Tasks, x \in Turns : rows[t].turn = x =>
    /\ starter[x] \in Keys \ Chats
    /\ TaskOf(starter[x]) = t

\* Somebody will still finish a running task once the recovery is over: its
\* turn goes on, or its end waits to be consumed, or the completion is recorded
\* and waits for a worker, or one works on it, or the request that sends the
\* message of the task is still under way.  The rows of the task, the turn and
\* the completion are closed in separate transactions, with crashes between.
RunningTaskCompletes ==
  Serving => \A t \in Tasks, x \in Turns :
    rows[t].turn = x /\ rows[t].status \in {"running", "resuming"} =>
      \/ server[x] \in {"live", "done", "error"} \/ inbox[x] = "pending"
      \/ \E p \in Pool \cup Retries \cup {Notifier} :
           proc[p].turn = x /\ proc[p].pc \notin {"close", "closeStatus", "done", "next"}
      \/ \E p \in Requests : proc[p].pc # "idle" /\ TaskOf(proc[p].key) = t

\* The result of a task is validated and committed by one process at a time,
\* also when a completion is claimed twice.
OneValidator ==
  \A t \in Tasks :
    Cardinality({p \in Procs : proc[p].pc \in {"result", "write"} /\ TaskOf(proc[p].key) = t}) <= 1

\* A finished task stays as it is; only the validation of a retained output
\* reopens one, and only one that failed.
KeepsFinished ==
  \A t \in Tasks : rows[t].status \in Finished =>
    \/ rows'[t].status = rows[t].status
    \/ rows[t].status = "failed" /\ rows[t].error = "output_invalid" /\ RetryOutput(t)
FinishedIsFinal == [][KeepsFinished]_vars

\* A task that waits for an answer is not failed by what the broker does with
\* messages: the sweep fails the task of every failed message of the
\* conversation, the ones of earlier attempts included.
KeepsWaiting == \A t \in Tasks : rows[t].status = "awaiting_input" => rows'[t].status # "failed"
WaitingIsNotFailed == [][KeepsWaiting]_vars

\* Every recorded completion is worked off, through failures, retries and
\* restarts.
CompletionsAreDrained ==
  \A x \in Turns : inbox[x] = "pending" ~> inbox[x] = "done"

Queued(k) == outbox[k].state = "queued"

\* A message queued behind an open turn is sent or fails, unless the console
\* stops before (QueueIsRecovered).
QueueMoves == \A k \in Keys : Serving /\ Queued(k) /\ HasActive ~> ~Queued(k) \/ ~Serving

-----------------------------------------------------------------------------
(* What the repository says of the program and the code does not keep. One  *)
(* run is spent on the first of these, and none on the others.              *)

\* A task that waits in the queue behind a turn is not failed because of the
\* waiting: its message fails only after the task is finished or a call failed.
QueuedTaskKeepsItsPlace ==
  [][\A t \in Tasks, p \in Pool \cup {Recovery} :
       NextPending(p) \/ RecoverUnsent =>
         ~(outbox[<<t, NoTurn>>].state = "queued" /\ outbox'[<<t, NoTurn>>].state = "failed"
           /\ rows[t].status = "queued")]_vars

\* Once a turn has been answered its task leaves it for the turn of the answer
\* ("Resume binds a new turn and returns the task to running").
AnsweredTurnIsLeft ==
  \A t \in Tasks, x \in Turns : outbox[<<t, x>>].state # "absent" => rows[t].turn # x

\* What is queued in an idle conversation when the console starts is sent or
\* fails: the lease of the process before must not be in the way for good.
QueueIsRecovered ==
  \A k \in Keys :
    proc[Recovery].pc = "snapshot" /\ outbox[k].state = "queued" /\ ~HasActive
      ~> outbox[k].state # "queued"

\* A message the console has reported as failed is not sent afterwards.  No
\* run checks it; the README describes the trace.
FailedIsNotSent ==
  [][\A k \in Keys : sent'[k] > sent[k] => outbox[k].state = "sending"]_vars
=============================================================================

--------------------- MODULE ConversationMessages_proofs ---------------------
(***************************************************************************)
(* Proofs about ConversationBroker: the messages.                          *)
(*                                                                         *)
(* The App Server accepts a message at most once (SentOnce), and a message *)
(* the console calls accepted is one it accepted (AcceptedSent).  Requests *)
(* send what they stored, a completion worker sends what it finds queued   *)
(* and the recovery what it finds pending; that they never send the same   *)
(* message rests on the tasks as much as on the outbox.  A worker delivers *)
(* for a running task only, and a task is not running while a request      *)
(* sends for it, because nobody can bind it a turn: that needs the message *)
(* of the turn, which the request holds, and of an answered turn there is  *)
(* one answer (MsgInv).                                                    *)
(*                                                                         *)
(* Then the conversation: when its status says that a turn runs, one is    *)
(* open or its completion is still to be used (RunningHasATurn).           *)
(*                                                                         *)
(* The last sections are about a task that has its turn: one process       *)
(* validates its result (ValidatedByOne), and while it waits for an answer *)
(* no message fails it (WaitingStays).  While a task has its turn, no      *)
(* message of it is on its way and none has failed (TurnInv); a console    *)
(* that stops after an answer was sent and before the turn of the answer   *)
(* is bound breaks this, so it is a hypothesis that it does not.           *)
(***************************************************************************)
EXTENDS ConversationBroker_proofs

-----------------------------------------------------------------------------
(* Where a delivery comes from                                             *)

\* Until the App Server has taken the message, or refused it.
Pre == {"decide", "steer", "resteer", "start", "restart"}

\* Where a worker has a list of queued messages.
Listing == {"after", "failOutbox", "failTask"} \cup Delivering

\* Where a message is on its way to the App Server, or is given up.
Handling == {"send", "lock", "failOutbox"} \cup Delivering

\* A message enters the critical section as its request read it there, or
\* as the list of a worker or of the recovery has it.
Enters(p) ==
  \/ /\ p \in Senders \cup Requests /\ proc[p].pc = "lock"
     /\ proc'[p].key = proc[p].key /\ proc'[p].seen = outbox[proc[p].key].state
     /\ proc'[p].seen \notin {"accepted", "sending"} /\ (p \in Senders => proc'[p].seen # "failed")
  \/ /\ p \in Pool \cup {Recovery} /\ proc[p].pc = (IF p = Recovery THEN "recover" ELSE "after")
     /\ proc[p].todo # <<>> /\ proc'[p].key = Head(proc[p].todo)[1] /\ proc'[p].seen = Head(proc[p].todo)[2]
     /\ proc'[p].seen \in {"pending", "queued"} /\ Deliverable(proc'[p].key)

\* Requests begin once the recovery is over; the recovery begins with a restart.
Begins(p) ==
  proc[p].pc = "idle" /\ proc'[p].pc # "idle" =>
    p # Recovery /\ (p \in Senders \cup Requests \cup Retries => Serving)

\* A message is stored before its request waits for the mutex.
Waits(p) ==
  /\ proc'[p].pc = "send" =>
       \/ proc'[p] = proc[p]
       \/ \E t \in Tasks : Enqueue(t) /\ p = <<"enqueue", t>>
       \/ \E t \in Tasks : Resume(t) /\ p = <<"resume", t>> /\ proc'[p].key = <<t, rows[t].turn>>
  /\ proc'[p].pc = "lock" =>
       \/ proc'[p] = proc[p]
       \/ /\ outbox'[proc'[p].key].state # "absent"
          /\ p \in Senders \/ (proc[p].pc = "send" /\ proc'[p].key = proc[p].key)

\* A delivery keeps its message from the lease to the end.
Delivers(p) ==
  /\ proc'[p].pc \in Delivering =>
       \/ proc[p].pc \in Delivering /\ proc'[p].key = proc[p].key
       \/ proc'[p].pc = "lease" /\ Enters(p)
  /\ proc'[p].pc = "lease" => proc'[p] = proc[p] \/ Enters(p)
  /\ proc'[p].pc = "mark" =>
       \/ proc'[p] = proc[p]
       \/ proc[p].pc = "lease" /\ proc'[p].key = proc[p].key /\ proc'[p].seen = proc[p].seen
  /\ proc'[p].pc \in Pre =>
       \/ proc'[p] = proc[p]
       \/ proc[p].pc \in Pre
       \/ /\ MarkSending(p) /\ mutex = p
          /\ \/ /\ proc[p].seen \in {"pending", "queued"}
                /\ outbox[proc[p].key].state = proc[p].seen /\ outbox'[proc[p].key].state = "sending"
             \/ proc[p].seen \notin {"pending", "queued"} /\ outbox' = outbox
  /\ proc'[p].pc = "failOutbox" =>
       /\ proc'[p].key = proc[p].key
       /\ \/ proc[p].pc \in Delivering \cup {"failOutbox"}
          \/ proc[p].pc = "send" /\ outbox[proc[p].key].state # "absent"

\* The messages of a list are in the list before, or were found in the table.
Recalls(p) ==
  \A i \in DOMAIN proc'[p].todo :
    \/ /\ \E j \in DOMAIN proc[p].todo : proc'[p].todo[i] = proc[p].todo[j]
       /\ p \in Pool /\ proc'[p].pc \in Listing => proc[p].pc \in Listing
    \/ /\ outbox[proc'[p].todo[i][1]].state # "absent"
       /\ p \in Pool /\ proc'[p].pc \in Listing => outbox[proc'[p].todo[i][1]].state = "queued"

Goes(p) == Begins(p) /\ Waits(p) /\ Delivers(p) /\ Recalls(p)
Going   == \A p \in Procs : Goes(p)

\* A process that does nothing goes on.
LEMMA NoGoing ==
  ASSUME NEW p \in Procs, proc'[p] = proc[p]
  PROVE  Goes(p)
<1>1. Begins(p) /\ Waits(p) /\ Recalls(p)
  BY DEF Begins, Waits, Recalls
<1>2. Delivers(p)
  BY DEF Delivers
<1> QED
  BY <1>1, <1>2 DEF Goes

\* ... so that a step of one process is about that process only.
LEMMA OneGoes ==
  ASSUME NEW p \in Procs, \A q \in Procs \ {p} : proc'[q] = proc[q], Goes(p)
  PROVE  Going
  BY NoGoing DEF Going

\* A step that ends outside a delivery.
LEMMA GoesAway ==
  ASSUME NEW p \in Procs, \A q \in Procs \ {p} : proc'[q] = proc[q],
         proc'[p].pc \notin Handling, Begins(p), Recalls(p)
  PROVE  Going
<1>1. Waits(p) /\ Delivers(p)
  BY DEF Waits, Delivers, Handling, Delivering, Pre
<1> QED
  BY <1>1, OneGoes DEF Goes

\* Failing the task of a message leads on, or ends a worker or the recovery.
LEMMA FailTaskGoes ==
  ASSUME TypeInv, NEW p \in Procs, FailTaskDelivery(p)
  PROVE  /\ proc[p].pc = "failTask" /\ outbox' = outbox
         /\ \/ /\ FailIfLive(TaskOf(proc[p].key))
               /\ \E pc \in {"failRow", "after", "recover"} : Goto(p, pc)
            \/ Finish(p) /\ rows' = rows
<1>1. p \in Requests \cup Pool \cup {Recovery}
  BY ProcType, KindsDiffer DEF FailTaskDelivery, Kinds, Delivering
<1> QED
  BY <1>1 DEF FailTaskDelivery

\* A process that is done.
LEMMA GoesFinish ==
  ASSUME TypeInv, NEW p \in Procs, Finish(p)
  PROVE  Going
<1>1. proc'[p] = Idle /\ \A q \in Procs \ {p} : proc'[q] = proc[q]
  BY FinishMoves
<1>2. Idle.pc = "idle" /\ DOMAIN Idle.todo = {}
  BY EmptyList DEF Idle
<1> QED
  BY <1>1, <1>2, GoesAway DEF Begins, Recalls, Handling, Delivering

\* A process that goes on outside a delivery.
LEMMA GoesGoto ==
  ASSUME TypeInv, NEW p \in Procs, NEW pc, Goto(p, pc), pc \notin Handling, proc[p].pc # "idle",
         p \in Pool /\ pc \in Listing => proc[p].pc \in Listing
  PROVE  Going
<1>1. proc'[p].pc = pc /\ proc'[p].todo = proc[p].todo /\ \A q \in Procs \ {p} : proc'[q] = proc[q]
  BY GotoMoves
<1>2. Begins(p) /\ Recalls(p)
  BY <1>1 DEF Begins, Recalls
<1> QED
  BY <1>1, <1>2, GoesAway

\* A process that begins with nothing to look at.
LEMMA GoesBegins ==
  ASSUME TypeInv, NEW p \in Procs, NEW r, proc' = [proc EXCEPT ![p] = r], r.todo = <<>>, r.pc \notin Handling,
         p # Recovery, p \in Senders \cup Requests \cup Retries => Serving
  PROVE  Going
<1>1. proc'[p] = r /\ \A q \in Procs \ {p} : proc'[q] = proc[q]
  BY MovesTo
<1>2. Begins(p) /\ Recalls(p)
  BY <1>1, EmptyList DEF Begins, Recalls
<1> QED
  BY <1>1, <1>2, GoesAway

\* The end of a delivery.
LEMMA GoesExit ==
  ASSUME TypeInv, NEW p \in Procs, NEW ok \in BOOLEAN, proc[p].pc \in Delivering, mutex = p, Exit(p, ok)
  PROVE  Going
<1>1. /\ OneMoves(p) /\ proc[p].pc # "idle"
      /\ \/ proc'[p] = Idle
         \/ proc'[p].pc = "bind" /\ proc'[p].todo = proc[p].todo
         \/ /\ proc'[p].pc = "failOutbox" /\ proc'[p].key = proc[p].key
            /\ proc'[p].todo = IF p = Recovery THEN <<>> ELSE proc[p].todo
  BY ExitMoves DEF Delivering
<1>2. \A q \in Procs \ {p} : proc'[q] = proc[q]
  BY <1>1 DEF OneMoves
<1>3. Idle.pc = "idle" /\ DOMAIN Idle.todo = {} /\ DOMAIN <<>> = {}
  BY EmptyList DEF Idle
<1>4. Begins(p) /\ Waits(p) /\ Delivers(p)
  BY <1>1, <1>3 DEF Begins, Waits, Delivers, Delivering, Pre
<1>5. Recalls(p)
  <2>1. CASE proc'[p] = Idle
    BY <1>3, <2>1 DEF Recalls
  <2>2. CASE proc'[p].todo = proc[p].todo
    BY <2>2 DEF Recalls, Listing
  <2>3. CASE proc'[p].todo = <<>>
    BY <1>3, <2>3 DEF Recalls
  <2> QED
    BY <1>1, <2>1, <2>2, <2>3
<1> QED
  BY <1>2, <1>4, <1>5, OneGoes DEF Goes

\* A step from one point of a delivery to a later one.
LEMMA GoesOn ==
  ASSUME TypeInv, NEW p \in Procs, \A q \in Procs \ {p} : proc'[q] = proc[q],
         proc[p].pc \in Delivering, proc'[p].pc \in Delivering \ {"lease", "mark"},
         proc'[p].key = proc[p].key, proc'[p].todo = proc[p].todo,
         proc'[p].pc \in Pre => proc[p].pc \in Pre
  PROVE  Going
<1>1. Begins(p) /\ Waits(p)
  BY DEF Begins, Waits, Delivering
<1>2. Delivers(p)
  BY DEF Delivers, Pre
<1>3. Recalls(p)
  BY DEF Recalls, Listing
<1> QED
  BY <1>1, <1>2, <1>3, OneGoes DEF Goes

\* The requests.
LEMMA RequestsGo ==
  ASSUME TypeInv, TypeInv', NEW p \in Procs
  PROVE  /\ \A c \in Clients : Send(c) \/ Deliver(c) => Going
         /\ \A t \in Tasks : Enqueue(t) \/ Resume(t) \/ Cancel(t) \/ RetryOutput(t) => Going
         /\ SendTask(p) \/ DeliverTask(p) \/ FailRow(p) \/ BindReceipt(p) => Going
<1>0. /\ proc \in [Procs -> Proc] /\ proc' \in [Procs -> Proc] /\ DOMAIN <<>> = {}
      /\ outbox \in [Keys -> [state : OutboxStates, turn : Turns \cup {NoTurn}]]
  BY EmptyList DEF TypeInv, TypeOK
<1>1. ASSUME NEW c \in Clients, Send(c) PROVE Going
  <2> DEFINE r == [Idle EXCEPT !.pc = "lock", !.key = ChatOf[c]]
             x == <<"client", c>>
  <2>1. /\ x \in Senders /\ x \in Procs /\ x # Recovery /\ ChatOf[c] \in Keys
        /\ r.pc = "lock" /\ r.key = ChatOf[c] /\ r.todo = <<>>
    BY KindsDiffer, ChatAssumption DEF Senders, Idle, Keys
  <2>2. CASE proc' = proc
    BY <2>2, NoGoing DEF Going
  <2>3. CASE proc' = [proc EXCEPT ![x] = r]
    <3>1. proc'[x] = r /\ \A q \in Procs \ {x} : proc'[q] = proc[q]
      BY <2>1, <2>3, MovesTo
    <3>2. outbox'[ChatOf[c]].state # "absent"
      BY <1>0, <1>1, <2>1 DEF Send, Insert
    <3> HIDE DEF r
    <3>3. Begins(x) /\ Recalls(x)
      BY <1>0, <1>1, <2>1, <3>1 DEF Send, Begins, Recalls
    <3>4. Waits(x) /\ Delivers(x)
      BY <2>1, <3>1, <3>2 DEF Waits, Delivers, Delivering, Pre
    <3> QED
      BY <2>1, <3>1, <3>3, <3>4, OneGoes DEF Goes
  <2> QED
    BY <1>1, <2>2, <2>3 DEF Send
<1>2. ASSUME NEW z \in Senders \cup Requests, proc[z].pc = "lock",
             proc' = [proc EXCEPT ![z] = [proc[z] EXCEPT !.pc = "lease", !.seen = outbox[proc[z].key].state]],
             outbox[proc[z].key].state \notin {"accepted", "sending"},
             z \in Senders => outbox[proc[z].key].state # "failed"
      PROVE  Going
  <2> DEFINE r == [proc[z] EXCEPT !.pc = "lease", !.seen = outbox[proc[z].key].state]
  <2>1. z \in Procs /\ z \notin Pool /\ z # Recovery
    BY KindsDiffer
  <2>2. r.pc = "lease" /\ r.key = proc[z].key /\ r.seen = outbox[proc[z].key].state /\ r.todo = proc[z].todo
    BY <1>0, <2>1 DEF Proc
  <2>3. proc'[z] = r /\ \A q \in Procs \ {z} : proc'[q] = proc[q]
    BY <1>2, <2>1, MovesTo
  <2> HIDE DEF r
  <2>4. Enters(z)
    BY <1>2, <2>2, <2>3 DEF Enters
  <2>5. Begins(z) /\ Waits(z) /\ Recalls(z)
    BY <1>2, <2>1, <2>2, <2>3 DEF Begins, Waits, Recalls
  <2>6. Delivers(z)
    BY <2>2, <2>3, <2>4 DEF Delivers, Pre
  <2> QED
    BY <2>1, <2>3, <2>5, <2>6, OneGoes DEF Goes
<1>3. ASSUME NEW c \in Clients, Deliver(c) PROVE Going
  <2> DEFINE x == <<"client", c>>
  <2>1. x \in Senders /\ x \in Procs
    BY KindsDiffer DEF Senders
  <2>2. CASE Finish(x)
    BY <2>1, <2>2, GoesFinish
  <2>3. CASE /\ proc[x].pc = "lock" /\ outbox[proc[x].key].state \notin {"accepted", "sending", "failed"}
             /\ proc' = [proc EXCEPT ![x].pc = "lease", ![x].seen = outbox[proc[x].key].state]
    <3>1. proc' = [proc EXCEPT ![x] = [proc[x] EXCEPT !.pc = "lease", !.seen = outbox[proc[x].key].state]]
      BY <2>3
    <3> QED
      BY <1>2, <2>1, <2>3, <3>1
  <2> QED
    BY <1>3, <2>2, <2>3 DEF Deliver
<1>4. ASSUME NEW t \in Tasks, Enqueue(t) \/ Resume(t) PROVE Going
  <2> DEFINE z == IF Enqueue(t) THEN <<"enqueue", t>> ELSE <<"resume", t>>
             r == [Idle EXCEPT !.pc = "send", !.key = IF Enqueue(t) THEN <<t, NoTurn>> ELSE <<t, rows[t].turn>>]
  <2>1. z \in Requests /\ z \in Procs /\ z # Recovery /\ z \notin Pool
    BY KindsDiffer DEF Requests
  <2>2. r.pc = "send" /\ r.todo = <<>> /\ (~Enqueue(t) => r.key = <<t, rows[t].turn>>)
    BY DEF Idle
  <2>3. proc' = [proc EXCEPT ![z] = r] /\ Serving
    BY <1>4 DEF Enqueue, Resume
  <2>4. proc'[z] = r /\ \A q \in Procs \ {z} : proc'[q] = proc[q]
    BY <2>1, <2>3, MovesTo
  <2>5. Waits(z)
    <3>1. CASE Enqueue(t)
      BY <2>2, <2>4, <3>1 DEF Waits
    <3>2. CASE ~Enqueue(t)
      BY <1>4, <2>2, <2>4, <3>2 DEF Waits
    <3> QED
      BY <3>1, <3>2
  <2> HIDE DEF r, z
  <2>6. Begins(z) /\ Recalls(z)
    BY <1>0, <2>1, <2>2, <2>3, <2>4 DEF Begins, Recalls
  <2>7. Delivers(z)
    BY <2>2, <2>4 DEF Delivers, Delivering, Pre
  <2> QED
    BY <2>1, <2>4, <2>5, <2>6, <2>7, OneGoes DEF Goes
<1>5. ASSUME NEW t \in Tasks, Cancel(t) PROVE Going
  BY <1>5, NoGoing DEF Cancel, Going
<1>6. ASSUME NEW t \in Tasks, RetryOutput(t) PROVE Going
  <2> DEFINE x == <<"retry", t>>
             r == [Idle EXCEPT !.pc = "result", !.turn = rows[t].turn,
                               !.v = ValidationAttempt(rows[t]), !.key = <<t, NoTurn>>]
  <2>1. x \in Procs /\ x # Recovery /\ r.todo = <<>> /\ r.pc = "result"
    BY KindsDiffer DEF Retries, Idle
  <2>2. proc' = [proc EXCEPT ![x] = r] /\ Serving
    BY <1>6 DEF RetryOutput
  <2> HIDE DEF r
  <2> QED
    BY <2>1, <2>2, GoesBegins DEF Handling, Delivering
<1>7. ASSUME SendTask(p) \/ DeliverTask(p) PROVE Going
  <2>0. p \in Requests /\ proc[p].pc \in {"send", "lock"} /\ proc[p].key \in Keys /\ proc[p] \in Proc /\ p \notin Pool
    <3>1. proc[p].pc \in {"send", "lock"} /\ p \in Requests
      BY <1>7, ProcType, KindsDiffer DEF SendTask, DeliverTask, Kinds, Delivering
    <3> QED
      BY <1>0, <3>1, RequestKey, KindsDiffer
  <2>1. CASE Finish(p)
    BY <2>1, GoesFinish
  <2>2. CASE SendTask(p) /\ outbox[proc[p].key].state = "failed" /\ Goto(p, "failOutbox")
    <3>1. proc'[p].pc = "failOutbox" /\ proc'[p].key = proc[p].key /\ proc'[p].todo = proc[p].todo
          /\ \A q \in Procs \ {p} : proc'[q] = proc[q]
      BY <2>2, GotoMoves
    <3>2. proc[p].pc = "send" /\ outbox[proc[p].key].state = "failed"
      BY <2>2 DEF SendTask
    <3>3. Begins(p) /\ Waits(p) /\ Recalls(p)
      BY <2>0, <3>1, <3>2 DEF Begins, Waits, Recalls
    <3>4. Delivers(p)
      BY <3>1, <3>2 DEF Delivers, Delivering, Pre
    <3> QED
      BY <3>1, <3>3, <3>4, OneGoes DEF Goes
  <2>3. CASE proc' = [proc EXCEPT ![p].pc = "bind", ![p].turn = outbox[proc[p].key].turn]
    <3> DEFINE r == [proc[p] EXCEPT !.pc = "bind", !.turn = outbox[proc[p].key].turn]
    <3>1. r.pc = "bind" /\ r.todo = proc[p].todo /\ proc' = [proc EXCEPT ![p] = r]
      BY <2>0, <2>3 DEF Proc
    <3> HIDE DEF r
    <3>2. proc'[p] = r /\ \A q \in Procs \ {p} : proc'[q] = proc[q]
      BY <3>1, MovesTo
    <3>3. Begins(p) /\ Recalls(p)
      BY <2>0, <3>1, <3>2 DEF Begins, Recalls
    <3> QED
      BY <3>1, <3>2, <3>3, GoesAway DEF Handling, Delivering
  <2>4. CASE SendTask(p) /\ Goto(p, "lock")
    <3>1. proc'[p].pc = "lock" /\ proc'[p].key = proc[p].key /\ proc'[p].todo = proc[p].todo
          /\ \A q \in Procs \ {p} : proc'[q] = proc[q]
      BY <2>4, GotoMoves
    <3>2. proc[p].pc = "send" /\ outbox'[proc[p].key].state # "absent"
      BY <1>0, <2>0, <2>4, <3>1, IdleHolds DEF SendTask, Insert, Goto, Finish
    <3>3. Begins(p) /\ Waits(p) /\ Recalls(p)
      BY <2>0, <3>1, <3>2 DEF Begins, Waits, Recalls
    <3>4. Delivers(p)
      BY <3>1 DEF Delivers, Delivering, Pre
    <3> QED
      BY <3>1, <3>3, <3>4, OneGoes DEF Goes
  <2>5. CASE DeliverTask(p) /\ outbox[proc[p].key].state \notin {"sending", "accepted"}
    <3>1. proc' = [proc EXCEPT ![p] = [proc[p] EXCEPT !.pc = "lease", !.seen = outbox[proc[p].key].state]]
      BY <2>5 DEF DeliverTask
    <3>2. proc[p].pc = "lock" /\ p \notin Senders
      BY <2>0, <2>5, KindsDiffer DEF DeliverTask
    <3> QED
      BY <1>2, <2>0, <2>5, <3>1, <3>2
  <2> QED
    BY <1>7, <2>1, <2>2, <2>3, <2>4, <2>5 DEF SendTask, DeliverTask
<1>8. ASSUME FailRow(p) \/ BindReceipt(p) PROVE Going
  BY <1>8, GoesFinish DEF FailRow, BindReceipt
<1> QED
  BY <1>1, <1>3, <1>4, <1>5, <1>6, <1>7, <1>8

\* The steps of a delivery.
LEMMA DeliveriesGo ==
  ASSUME TypeInv, TypeInv', NEW p \in Procs,
         \/ AcquireLease(p) \/ MarkSending(p) \/ Decide(p) \/ SteerAccepted(p) \/ SteerStale(p)
         \/ StartAccepted(p) \/ CallRefused(p) \/ ThreadMissing(p) \/ RecordTurn(p) \/ Accept(p)
         \/ MarkRunning(p) \/ BindTask(p) \/ Refuse(p) \/ FailDelivery(p) \/ FailTaskDelivery(p)
  PROVE  Going
<1>0. proc \in [Procs -> Proc] /\ proc[p] \in Proc
  BY ProcType
<1>1. ASSUME NEW pc \in Delivering \ {"lease", "mark"}, Goto(p, pc), proc[p].pc \in Delivering,
             pc \in Pre => proc[p].pc \in Pre
      PROVE  Going
  <2>1. /\ proc'[p].pc = pc /\ proc'[p].key = proc[p].key /\ proc'[p].todo = proc[p].todo
        /\ \A q \in Procs \ {p} : proc'[q] = proc[q]
    BY <1>1, GotoMoves
  <2> QED
    BY <1>1, <2>1, GoesOn
<1>2. ASSUME NEW r, proc' = [proc EXCEPT ![p] = r], proc[p].pc \in Delivering, r.pc \in Delivering \ {"lease", "mark"},
             r.key = proc[p].key, r.todo = proc[p].todo, r.pc \in Pre => proc[p].pc \in Pre
      PROVE  Going
  <2>1. proc'[p] = r /\ \A q \in Procs \ {p} : proc'[q] = proc[q]
    BY <1>2, MovesTo
  <2> QED
    BY <1>2, <2>1, GoesOn
<1>3. ASSUME AcquireLease(p) PROVE Going
  <2>1. CASE Exit(p, FALSE)
    BY <1>3, <2>1, GoesExit DEF AcquireLease, Delivering
  <2>2. CASE Goto(p, "mark")
    <3>1. /\ proc'[p].pc = "mark" /\ proc'[p].key = proc[p].key /\ proc'[p].todo = proc[p].todo
          /\ proc'[p].seen = proc[p].seen /\ \A q \in Procs \ {p} : proc'[q] = proc[q]
      BY <2>2, GotoMoves
    <3>2. proc[p].pc = "lease"
      BY <1>3 DEF AcquireLease
    <3>3. Begins(p) /\ Waits(p) /\ Recalls(p)
      BY <3>1, <3>2 DEF Begins, Waits, Recalls, Listing, Delivering
    <3>4. Delivers(p)
      BY <3>1, <3>2 DEF Delivers, Delivering, Pre
    <3> QED
      BY <3>1, <3>3, <3>4, OneGoes DEF Goes
  <2> QED
    BY <1>3, <2>1, <2>2 DEF AcquireLease
<1>4. ASSUME MarkSending(p) PROVE Going
  <2> DEFINE r == [proc[p] EXCEPT !.pc = "decide", !.seen = "sending"]
             m == [proc[p] EXCEPT !.pc = "decide"]
  <2>0. mutex = p /\ proc[p].pc = "mark" /\ proc[p].pc \in Delivering /\ proc[p].key \in Keys
    BY <1>4, DeliveredKey DEF MarkSending, Delivering
  <2>1. CASE Exit(p, FALSE)
    BY <2>0, <2>1, GoesExit
  <2>2. ASSUME NEW s, proc' = [proc EXCEPT ![p] = s], s.pc = "decide", s.key = proc[p].key, s.todo = proc[p].todo,
               \/ /\ proc[p].seen \in {"pending", "queued"}
                  /\ outbox[proc[p].key].state = proc[p].seen /\ outbox'[proc[p].key].state = "sending"
               \/ proc[p].seen \notin {"pending", "queued"} /\ outbox' = outbox
        PROVE  Going
    <3>1. proc'[p] = s /\ \A q \in Procs \ {p} : proc'[q] = proc[q]
      BY <2>2, MovesTo
    <3>2. Begins(p) /\ Waits(p) /\ Recalls(p)
      BY <2>0, <2>2, <3>1 DEF Begins, Waits, Recalls, Listing
    <3>3. Delivers(p)
      BY <1>4, <2>0, <2>2, <3>1 DEF Delivers
    <3> QED
      BY <3>1, <3>2, <3>3, OneGoes DEF Goes
  <2>3. r.pc = "decide" /\ r.key = proc[p].key /\ r.todo = proc[p].todo
    BY <1>0 DEF Proc
  <2>4. m.pc = "decide" /\ m.key = proc[p].key /\ m.todo = proc[p].todo
    BY <1>0 DEF Proc
  <2>5. CASE /\ proc[p].seen \in {"pending", "queued"} /\ SetOutbox(proc[p].key, proc[p].seen, "sending", NoTurn)
             /\ proc' = [proc EXCEPT ![p] = r]
    <3>1. outbox[proc[p].key].state = proc[p].seen /\ outbox'[proc[p].key].state = "sending"
      BY <2>0, <2>5 DEF SetOutbox, TypeInv, TypeOK
    <3> HIDE DEF r
    <3> QED
      BY <2>2, <2>3, <2>5, <3>1
  <2>6. CASE proc[p].seen \notin {"pending", "queued"} /\ proc' = [proc EXCEPT ![p] = m] /\ outbox' = outbox
    <3> HIDE DEF m
    <3> QED
      BY <2>2, <2>4, <2>6
  <2> QED
    BY <1>4, <2>1, <2>5, <2>6 DEF MarkSending, Goto
<1>5. ASSUME Decide(p) PROVE Going
  <2> DEFINE r == [proc[p] EXCEPT !.pc = "steer", !.turn = ActiveTurn]
  <2>0. mutex = p /\ proc[p].pc \in Delivering /\ proc[p].pc \in Pre
    BY <1>5 DEF Decide, Delivering, Pre
  <2>1. CASE Exit(p, FALSE) \/ Exit(p, TRUE)
    BY <2>0, <2>1, GoesExit
  <2>2. CASE Goto(p, "refuse") \/ Goto(p, "start")
    BY <1>1, <2>0, <2>2 DEF Delivering
  <2>3. CASE proc' = [proc EXCEPT ![p] = r]
    <3>1. r.pc = "steer" /\ r.key = proc[p].key /\ r.todo = proc[p].todo
      BY <1>0 DEF Proc
    <3> HIDE DEF r
    <3> QED
      BY <1>2, <2>0, <2>3, <3>1 DEF Delivering
  <2> QED
    BY <1>5, <2>1, <2>2, <2>3 DEF Decide
<1>6. ASSUME SteerStale(p) PROVE Going
  <2> DEFINE r == [proc[p] EXCEPT !.pc = "resteer", !.turn = ActiveTurn]
  <2>0. proc[p].pc \in Delivering /\ proc[p].pc \in Pre
    BY <1>6 DEF SteerStale, Delivering, Pre
  <2>1. CASE Goto(p, "refuse") \/ Goto(p, "start")
    BY <1>1, <2>0, <2>1 DEF Delivering
  <2>2. CASE proc' = [proc EXCEPT ![p] = r]
    <3>1. r.pc = "resteer" /\ r.key = proc[p].key /\ r.todo = proc[p].todo
      BY <1>0 DEF Proc
    <3> HIDE DEF r
    <3> QED
      BY <1>2, <2>0, <2>2, <3>1 DEF Delivering
  <2> QED
    BY <1>6, <2>1, <2>2 DEF SteerStale
<1>7. ASSUME StartAccepted(p) PROVE Going
  <2> DEFINE r == [proc[p] EXCEPT !.pc = "record", !.turn = NextTurn]
  <2>1. proc' = [proc EXCEPT ![p] = r] /\ proc[p].pc \in Delivering
    BY <1>7 DEF StartAccepted, Delivering
  <2>2. r.pc = "record" /\ r.key = proc[p].key /\ r.todo = proc[p].todo
    BY <1>0 DEF Proc
  <2> HIDE DEF r
  <2> QED
    BY <1>2, <2>1, <2>2 DEF Delivering, Pre
<1>8. ASSUME SteerAccepted(p) \/ CallRefused(p) \/ ThreadMissing(p) \/ RecordTurn(p) PROVE Going
  <2>1. /\ \E pc \in {"accept", "refuse"} : Goto(p, pc)
        /\ proc[p].pc \in Delivering
    \/ /\ Goto(p, "restart") /\ proc[p].pc \in Delivering /\ proc[p].pc \in Pre
    BY <1>8 DEF SteerAccepted, CallRefused, ThreadMissing, RecordTurn, Delivering, Pre
  <2> QED
    BY <1>1, <2>1 DEF Delivering, Pre
<1>9. ASSUME Accept(p) \/ MarkRunning(p) \/ BindTask(p) \/ Refuse(p) PROVE Going
  <2>1. mutex = p /\ proc[p].pc \in Delivering
    BY <1>9 DEF Accept, MarkRunning, BindTask, Refuse, Delivering
  <2>2. CASE Exit(p, FALSE) \/ Exit(p, TRUE)
    BY <2>1, <2>2, GoesExit
  <2>3. CASE Goto(p, "status") \/ Goto(p, "bindTask")
    BY <1>1, <2>1, <2>3 DEF Delivering, Pre
  <2> QED
    BY <1>9, <2>2, <2>3 DEF Accept, MarkRunning, BindTask, Refuse
<1>10. ASSUME FailDelivery(p) \/ FailTaskDelivery(p) PROVE Going
  <2>1. proc[p].pc \in {"failOutbox", "failTask"}
    BY <1>10 DEF FailDelivery, FailTaskDelivery
  <2>2. Finish(p) \/ \E pc \in {"failTask", "after", "failRow", "recover"} : Goto(p, pc)
    <3>1. CASE FailDelivery(p)
      BY <3>1 DEF FailDelivery
    <3>2. CASE FailTaskDelivery(p)
      BY <3>2, FailTaskGoes
    <3> QED
      BY <1>10, <3>1, <3>2
  <2>3. CASE Finish(p)
    BY <2>1, <2>3, GoesFinish
  <2> QED
    BY <2>1, <2>2, <2>3, GoesGoto DEF Handling, Delivering, Listing
<1> QED
  BY <1>3, <1>4, <1>5, <1>6, <1>7, <1>8, <1>9, <1>10

\* The end of a turn.
LEMMA EndsGo ==
  ASSUME TypeInv, TypeInv', NEW p \in Procs
  PROVE  /\ \A x \in Turns : ServerEnds(x) \/ Notify(x) \/ RequeueStale(x) => Going
         /\ NotifyFailure \/ PersistCompletion => Going
         /\ \A w \in Workers, x \in Turns : Claim(w, x) => Going
         /\ Check(p) \/ CompleteTurn(p) \/ ResultRejected(p) \/ ResultAccepted(p) \/ WriteResult(p)
              \/ FailTurn(p) \/ RetryCompletion(p) \/ CloseTurn(p) \/ CloseStatus(p)
              \/ CompleteCompletion(p) => Going
<1>0. proc \in [Procs -> Proc] /\ proc[p] \in Proc /\ Notifier \in Procs
  BY ProcType, KindsDiffer
<1>1. ASSUME proc' = proc PROVE Going
  BY <1>1, NoGoing DEF Going
<1>2. ASSUME NEW x \in Turns, ServerEnds(x) \/ RequeueStale(x) PROVE Going
  BY <1>1, <1>2 DEF ServerEnds, RequeueStale
<1>3. ASSUME NEW x \in Turns, Notify(x) PROVE Going
  <2> DEFINE r == [Idle EXCEPT !.pc = IF server[x] = "error" THEN "fail" ELSE "inbox", !.turn = x]
  <2>1. r.pc \in {"fail", "inbox"} /\ r.todo = <<>>
    BY DEF Idle
  <2>2. proc' = proc \/ proc' = [proc EXCEPT ![Notifier] = r]
    BY <1>3 DEF Notify
  <2>3. Notifier # Recovery /\ Notifier \notin Senders \cup Requests \cup Retries
    BY KindsDiffer
  <2> HIDE DEF r
  <2>4. CASE proc' = [proc EXCEPT ![Notifier] = r]
    <3>1. r.pc \notin Handling
      BY <2>1 DEF Handling, Delivering
    <3> QED
      BY <1>0, <2>1, <2>3, <2>4, <3>1, GoesBegins
  <2> QED
    BY <1>1, <2>2, <2>4
<1>4. ASSUME NotifyFailure \/ PersistCompletion PROVE Going
  BY <1>0, <1>4, GoesGoto, GoesFinish, KindsDiffer DEF NotifyFailure, PersistCompletion, Handling, Delivering, Listing
<1>5. ASSUME NEW w \in Workers, NEW x \in Turns, Claim(w, x) PROVE Going
  <2> DEFINE z == <<"worker", w>>
             r == [Idle EXCEPT !.pc = "check", !.turn = x]
  <2>1. z \in Pool /\ z \in Procs /\ z # Recovery /\ z \notin Senders \cup Requests \cup Retries
    BY KindsDiffer DEF Pool
  <2>2. r.pc = "check" /\ r.todo = <<>>
    BY DEF Idle
  <2>3. proc' = [proc EXCEPT ![z] = r]
    BY <1>5 DEF Claim
  <2> HIDE DEF r
  <2> QED
    BY <2>1, <2>2, <2>3, GoesBegins DEF Handling, Delivering
<1>6. ASSUME NEW pc \in {"adopt", "complete", "close", "failTurn", "retry", "closeStatus", "done", "next", "result", "write"},
             Goto(p, pc), proc[p].pc # "idle"
      PROVE  Going
  BY <1>6, GoesGoto DEF Handling, Delivering, Listing
<1>7. ASSUME NEW r, proc' = [proc EXCEPT ![p] = r], r.todo = proc[p].todo, proc[p].pc # "idle",
             r.pc \in {"result", "write", "close", "failTurn"}
      PROVE  Going
  <2>1. proc'[p] = r /\ \A q \in Procs \ {p} : proc'[q] = proc[q]
    BY <1>7, MovesTo
  <2>2. Begins(p) /\ Recalls(p)
    BY <1>7, <2>1 DEF Begins, Recalls, Listing, Delivering
  <2> QED
    BY <1>7, <2>1, <2>2, GoesAway DEF Handling, Delivering
<1>8. ASSUME Check(p) PROVE Going
  <2>1. \E pc \in {"adopt", "complete", "close"} : Goto(p, pc)
    BY <1>8 DEF Check
  <2> QED
    BY <1>6, <1>8, <2>1 DEF Check
<1>9. ASSUME CompleteTurn(p) PROVE Going
  <2> DEFINE r == [proc[p] EXCEPT !.pc = "result", !.v = ValidationAttempt(rows[BoundTask(proc[p].turn)]),
                                  !.key = <<BoundTask(proc[p].turn), NoTurn>>]
  <2>1. (\E pc \in {"close", "failTurn", "retry"} : Goto(p, pc)) \/ proc' = [proc EXCEPT ![p] = r]
    BY <1>9 DEF CompleteTurn
  <2>2. r.pc = "result" /\ r.todo = proc[p].todo
    BY <1>0 DEF Proc
  <2>3. proc[p].pc # "idle"
    BY <1>9 DEF CompleteTurn
  <2> HIDE DEF r
  <2> QED
    BY <1>6, <1>7, <2>1, <2>2, <2>3
<1>10. ASSUME NEW ok \in BOOLEAN, AfterResult(p, ok), proc[p].pc # "idle" PROVE Going
  <2> DEFINE r == [proc[p] EXCEPT !.pc = IF ok THEN "close" ELSE "failTurn"]
  <2>1. Finish(p) \/ proc' = [proc EXCEPT ![p] = r]
    BY <1>10 DEF AfterResult, Finish
  <2>2. r.pc \in {"close", "failTurn"} /\ r.todo = proc[p].todo
    BY <1>0 DEF Proc
  <2> HIDE DEF r
  <2> QED
    BY <1>7, <1>10, <2>1, <2>2, GoesFinish
<1>11. ASSUME ResultRejected(p) \/ WriteResult(p) PROVE Going
  BY <1>10, <1>11 DEF ResultRejected, WriteResult
<1>12. ASSUME ResultAccepted(p) PROVE Going
  <2>1. CASE AfterResult(p, FALSE)
    BY <1>10, <1>12, <2>1 DEF ResultAccepted
  <2>2. ASSUME NEW end, proc' = [proc EXCEPT ![p].pc = "write", ![p].outcome = end] PROVE Going
    <3> DEFINE r == [proc[p] EXCEPT !.pc = "write", !.outcome = end]
    <3>1. r.pc = "write" /\ r.todo = proc[p].todo /\ proc' = [proc EXCEPT ![p] = r]
      BY <1>0, <2>2 DEF Proc
    <3>2. proc[p].pc # "idle"
      BY <1>12 DEF ResultAccepted
    <3> HIDE DEF r
    <3> QED
      BY <1>7, <3>1, <3>2
  <2> QED
    BY <1>12, <2>1, <2>2 DEF ResultAccepted
<1>13. ASSUME FailTurn(p) \/ CloseTurn(p) \/ CloseStatus(p) PROVE Going
  BY <1>6, <1>13 DEF FailTurn, CloseTurn, CloseStatus
<1>14. ASSUME RetryCompletion(p) \/ CompleteCompletion(p) PROVE Going
  BY <1>6, <1>14, GoesFinish DEF RetryCompletion, CompleteCompletion
<1> QED
  BY <1>2, <1>3, <1>4, <1>5, <1>8, <1>9, <1>11, <1>12, <1>13, <1>14

\* The rest of a list.
LEMMA TailRecalls ==
  ASSUME TypeInv, NEW p \in Procs, proc[p].todo # <<>>, proc'[p].todo = Tail(proc[p].todo),
         p \in Pool /\ proc'[p].pc \in Listing => proc[p].pc \in Listing
  PROVE  Recalls(p)
<1>1. proc[p].todo \in Seq(Keys \X OutboxStates)
  BY ProcType DEF Proc
<1>2. \A i \in DOMAIN Tail(proc[p].todo) :
        i + 1 \in DOMAIN proc[p].todo /\ Tail(proc[p].todo)[i] = proc[p].todo[i + 1]
  BY <1>1, TailType
<1> QED
  BY <1>2 DEF Recalls

\* A message of a list enters the critical section.
LEMMA ListEnters ==
  ASSUME TypeInv, NEW p \in Pool \cup {Recovery}, NEW r, proc' = [proc EXCEPT ![p] = r],
         proc[p].pc = IF p = Recovery THEN "recover" ELSE "after",
         proc[p].todo # <<>>, r.pc = "lease", r.todo = Tail(proc[p].todo),
         r.key = Head(proc[p].todo)[1], r.seen = Head(proc[p].todo)[2],
         r.seen \in {"pending", "queued"}, Deliverable(r.key)
  PROVE  Going
<1>0. p \in Procs /\ (p \in Pool => p # Recovery)
  BY KindsDiffer
<1>1. proc'[p] = r /\ \A q \in Procs \ {p} : proc'[q] = proc[q]
  BY <1>0, MovesTo
<1>2. Enters(p)
  BY <1>1 DEF Enters
<1>3. Recalls(p)
  <2>1. proc'[p].todo = Tail(proc[p].todo) /\ (p \in Pool => proc[p].pc \in Listing)
    BY <1>0, <1>1 DEF Listing
  <2> QED
    BY <1>0, <2>1, TailRecalls
<1>4. Begins(p) /\ Waits(p)
  BY <1>1 DEF Begins, Waits
<1>5. Delivers(p)
  BY <1>1, <1>2 DEF Delivers, Pre
<1> QED
  BY <1>0, <1>1, <1>3, <1>4, <1>5, OneGoes DEF Goes

\* A process goes on with the rest of its list.
LEMMA ListGoesOn ==
  ASSUME TypeInv, NEW p \in Procs, NEW r, proc' = [proc EXCEPT ![p] = r], proc[p].pc # "idle",
         r.pc \notin Handling, proc[p].todo # <<>>, r.todo = Tail(proc[p].todo),
         p \in Pool /\ r.pc \in Listing => proc[p].pc \in Listing
  PROVE  Going
<1>1. proc'[p] = r /\ \A q \in Procs \ {p} : proc'[q] = proc[q]
  BY MovesTo
<1>2. Begins(p) /\ Recalls(p)
  BY <1>1, TailRecalls DEF Begins
<1> QED
  BY <1>1, <1>2, GoesAway

\* A new list.
LEMMA ListBegins ==
  ASSUME TypeInv, NEW p \in Procs, NEW r, proc' = [proc EXCEPT ![p] = r], proc[p].pc # "idle",
         r.pc \notin Handling,
         \A i \in DOMAIN r.todo : /\ outbox[r.todo[i][1]].state # "absent"
                                  /\ p \in Pool /\ r.pc \in Listing => outbox[r.todo[i][1]].state = "queued"
  PROVE  Going
<1>1. proc'[p] = r /\ \A q \in Procs \ {p} : proc'[q] = proc[q]
  BY MovesTo
<1>2. Begins(p) /\ Recalls(p)
  BY <1>1 DEF Begins, Recalls
<1> QED
  BY <1>1, <1>2, GoesAway

\* The queue after a turn, and the recovery.
LEMMA QueueGo ==
  ASSUME TypeInv, TypeInv', NEW p \in Procs
  PROVE  /\ ListPending(p) \/ NextPending(p) \/ ListFailed(p) \/ SweepFailed(p) => Going
         /\ ExpireLease => Going
         /\ ResetProcessing \/ InterruptTurns \/ ListRecoverable \/ RecoverSending \/ RecoverUnsent
              \/ EndRecovery => Going
<1>0. /\ proc \in [Procs -> Proc] /\ proc[p] \in Proc /\ Recovery \in Procs /\ proc[Recovery] \in Proc
      /\ Recovery \notin Pool
  BY KindsDiffer DEF TypeInv, TypeOK
<1>1. ASSUME ListPending(p) PROVE Going
  <2> DEFINE a == [proc[p] EXCEPT !.pc = "after", !.turn = NoTurn, !.todo = Snapshot({"queued"})]
  <2>1. proc' = [proc EXCEPT ![p] = a] /\ proc[p].pc = "next"
    BY <1>1 DEF ListPending
  <2>2. a.pc = "after" /\ a.todo = Snapshot({"queued"})
    BY <1>0 DEF Proc
  <2>3. \A i \in DOMAIN Snapshot({"queued"}) : outbox[Snapshot({"queued"})[i][1]].state = "queued"
    BY SnapshotType DEF TypeInv, OutboxStates
  <2> HIDE DEF a
  <2> QED
    BY <2>1, <2>2, <2>3, ListBegins DEF Handling, Delivering
<1>2. ASSUME ListFailed(p) PROVE Going
  <2> DEFINE b == [proc[p] EXCEPT !.pc = "sweep", !.todo = Snapshot({"failed"})]
  <2>1. proc' = [proc EXCEPT ![p] = b] /\ proc[p].pc = "after"
    BY <1>2 DEF ListFailed
  <2>2. b.pc = "sweep" /\ b.todo = Snapshot({"failed"})
    BY <1>0 DEF Proc
  <2>3. \A i \in DOMAIN Snapshot({"failed"}) : outbox[Snapshot({"failed"})[i][1]].state = "failed"
    BY SnapshotType DEF TypeInv, OutboxStates
  <2> HIDE DEF b
  <2> QED
    BY <2>1, <2>2, <2>3, ListBegins DEF Handling, Delivering, Listing
<1>3. ASSUME NextPending(p) PROVE Going
  <2> DEFINE q == proc[p]
             k == Head(q.todo)[1]
             state == Head(q.todo)[2]
             a == [q EXCEPT !.pc = "lease", !.key = k, !.seen = state, !.turn = NoTurn, !.todo = Tail(q.todo)]
             b == [q EXCEPT !.todo = Tail(@)]
  <2>0. q.pc = "after" /\ q.todo # <<>> /\ p \in Pool /\ p # Recovery
    BY ZenonT(60), <1>3, ProcType, KindsDiffer DEF NextPending, Kinds, Delivering
  <2>1. (Deliverable(k) /\ proc' = [proc EXCEPT ![p] = a]) \/ proc' = [proc EXCEPT ![p] = b] \/ Finish(p)
    BY <1>3 DEF NextPending
  <2>2. /\ a.pc = "lease" /\ a.key = k /\ a.seen = state /\ a.todo = Tail(q.todo)
        /\ b.pc = "after" /\ b.todo = Tail(q.todo)
    BY <1>0, <2>0 DEF Proc
  <2>3. state = "queued"
    BY <2>0, HeadIn, ProcType DEF Carries
  <2>4. b.pc \notin Handling
    BY <2>2 DEF Handling, Delivering
  <2> HIDE DEF a, b, k, state
  <2>5. CASE Deliverable(k) /\ proc' = [proc EXCEPT ![p] = a]
    BY <2>0, <2>2, <2>3, <2>5, ListEnters DEF k, state
  <2>6. CASE proc' = [proc EXCEPT ![p] = b]
    BY <2>0, <2>2, <2>4, <2>6, ListGoesOn DEF Listing
  <2> QED
    BY <2>1, <2>5, <2>6, GoesFinish
<1>4. ASSUME SweepFailed(p) PROVE Going
  <2> DEFINE b == [proc[p] EXCEPT !.todo = Tail(@)]
  <2>1. (proc[p].todo # <<>> /\ proc' = [proc EXCEPT ![p] = b]) \/ Finish(p)
    BY <1>4 DEF SweepFailed
  <2>2. b.pc = "sweep" /\ b.todo = Tail(proc[p].todo) /\ proc[p].pc = "sweep"
    BY <1>0, <1>4 DEF SweepFailed, Proc
  <2> HIDE DEF b
  <2>3. CASE proc[p].todo # <<>> /\ proc' = [proc EXCEPT ![p] = b]
    BY <2>2, <2>3, ListGoesOn DEF Listing, Handling, Delivering
  <2> QED
    BY <2>1, <2>3, GoesFinish
<1>5. ASSUME ExpireLease PROVE Going
  BY <1>5, NoGoing DEF ExpireLease, Going
<1>6. ASSUME ResetProcessing \/ InterruptTurns PROVE Going
  <2>1. /\ proc[Recovery].pc # "idle" /\ \E pc \in {"interrupt", "snapshot"} : Goto(Recovery, pc)
    BY <1>6 DEF ResetProcessing, InterruptTurns
  <2> QED
    BY <1>0, <2>1, GoesGoto DEF Handling, Delivering
<1>7. ASSUME ListRecoverable PROVE Going
  <2> DEFINE list == Snapshot({"sending"}) \o (IF HasActive THEN <<>> ELSE Snapshot({"pending", "queued"}))
             r == [proc[Recovery] EXCEPT !.pc = "recover", !.todo = list]
  <2>1. proc' = [proc EXCEPT ![Recovery] = r] /\ proc[Recovery].pc = "snapshot"
    BY <1>7 DEF ListRecoverable
  <2>2. r.pc = "recover" /\ r.todo = list
    BY <1>0 DEF Proc
  <2>3. \A i \in DOMAIN list : outbox[list[i][1]].state # "absent"
    BY RecoverableList DEF TypeInv
  <2> HIDE DEF r, list
  <2> QED
    BY <1>0, <2>1, <2>2, <2>3, ListBegins DEF Handling, Delivering
<1>8. ASSUME RecoverSending PROVE Going
  <2> DEFINE q == proc[Recovery]
             k == Head(q.todo)[1]
             r == [q EXCEPT !.pc = IF outbox[k].state = "sending" /\ IsFormal(k) THEN "failTask" ELSE "recover",
                            !.key = k, !.todo = Tail(q.todo)]
  <2>1. proc' = [proc EXCEPT ![Recovery] = r] /\ q.todo # <<>> /\ q.pc = "recover"
    BY <1>8 DEF RecoverSending
  <2>2. r.pc \in {"failTask", "recover"} /\ r.todo = Tail(q.todo)
    BY <1>0 DEF Proc
  <2> HIDE DEF r
  <2> QED
    BY <1>0, <2>1, <2>2, ListGoesOn DEF Handling, Delivering
<1>9. ASSUME RecoverUnsent PROVE Going
  <2> DEFINE q == proc[Recovery]
             k == Head(q.todo)[1]
             state == Head(q.todo)[2]
             a == [q EXCEPT !.pc = "lease", !.key = k, !.seen = state, !.turn = NoTurn, !.todo = Tail(q.todo)]
             b == [q EXCEPT !.todo = Tail(@)]
  <2>0. q.pc = "recover" /\ q.todo # <<>> /\ state # "sending"
    BY <1>9 DEF RecoverUnsent
  <2>1. (Deliverable(k) /\ proc' = [proc EXCEPT ![Recovery] = a]) \/ proc' = [proc EXCEPT ![Recovery] = b]
          \/ Finish(Recovery)
    BY <1>9 DEF RecoverUnsent
  <2>2. /\ a.pc = "lease" /\ a.key = k /\ a.seen = state /\ a.todo = Tail(q.todo)
        /\ b.pc = "recover" /\ b.todo = Tail(q.todo)
    BY <1>0, <2>0 DEF Proc
  <2>3. state \in {"pending", "queued"}
    BY <1>0, <2>0, HeadIn, ProcType DEF Carries
  <2>4. b.pc \notin Handling
    BY <2>2 DEF Handling, Delivering
  <2> HIDE DEF a, b, k, state
  <2>5. CASE Deliverable(k) /\ proc' = [proc EXCEPT ![Recovery] = a]
    BY <2>0, <2>2, <2>3, <2>5, ListEnters DEF k, state
  <2>6. CASE proc' = [proc EXCEPT ![Recovery] = b]
    BY <1>0, <2>0, <2>2, <2>4, <2>6, ListGoesOn
  <2> QED
    BY <1>0, <2>1, <2>5, <2>6, GoesFinish
<1>10. ASSUME EndRecovery PROVE Going
  BY <1>0, <1>10, GoesFinish DEF EndRecovery
<1> QED
  BY <1>1, <1>2, <1>3, <1>4, <1>5, <1>6, <1>7, <1>8, <1>9, <1>10

\* Every step but a restart.
LEMMA NextGoes ==
  ASSUME TypeInv, TypeInv', [Next]_vars
  PROVE  Going \/ Restart
<1>0. Recovery \in Procs
  BY KindsDiffer
<1>1. CASE UNCHANGED vars
  BY <1>1, NoGoing DEF vars, Going
<1>2. CASE \E c \in Clients : Send(c) \/ Deliver(c)
  BY <1>0, <1>2, RequestsGo
<1>3. CASE \E t \in Tasks : Enqueue(t) \/ Resume(t) \/ Cancel(t) \/ RetryOutput(t)
  BY <1>0, <1>3, RequestsGo
<1>4. CASE \E p \in Procs : Step(p)
  <2>1. PICK p \in Procs : Step(p)
    BY <1>4
  <2>2. \/ SendTask(p) \/ DeliverTask(p) \/ FailRow(p) \/ BindReceipt(p)
        \/ AcquireLease(p) \/ MarkSending(p) \/ Decide(p) \/ SteerAccepted(p) \/ SteerStale(p)
        \/ StartAccepted(p) \/ CallRefused(p) \/ ThreadMissing(p) \/ RecordTurn(p) \/ Accept(p)
        \/ MarkRunning(p) \/ BindTask(p) \/ Refuse(p) \/ FailDelivery(p) \/ FailTaskDelivery(p)
        \/ Check(p) \/ CompleteTurn(p) \/ ResultRejected(p) \/ ResultAccepted(p) \/ WriteResult(p)
        \/ FailTurn(p) \/ RetryCompletion(p) \/ CloseTurn(p) \/ CloseStatus(p) \/ CompleteCompletion(p)
        \/ ListPending(p) \/ NextPending(p) \/ ListFailed(p) \/ SweepFailed(p)
    BY <2>1 DEF Step
  <2>3. CASE SendTask(p) \/ DeliverTask(p) \/ FailRow(p) \/ BindReceipt(p)
    BY <2>3, RequestsGo
  <2>4. CASE \/ AcquireLease(p) \/ MarkSending(p) \/ Decide(p) \/ SteerAccepted(p) \/ SteerStale(p)
             \/ StartAccepted(p) \/ CallRefused(p) \/ ThreadMissing(p) \/ RecordTurn(p) \/ Accept(p)
             \/ MarkRunning(p) \/ BindTask(p) \/ Refuse(p) \/ FailDelivery(p) \/ FailTaskDelivery(p)
    BY <2>4, DeliveriesGo
  <2>5. CASE \/ Check(p) \/ CompleteTurn(p) \/ ResultRejected(p) \/ ResultAccepted(p) \/ WriteResult(p)
             \/ FailTurn(p) \/ RetryCompletion(p) \/ CloseTurn(p) \/ CloseStatus(p) \/ CompleteCompletion(p)
    BY <2>5, EndsGo
  <2>6. CASE ListPending(p) \/ NextPending(p) \/ ListFailed(p) \/ SweepFailed(p)
    BY <2>6, QueueGo
  <2> QED
    BY <2>2, <2>3, <2>4, <2>5, <2>6
<1>5. CASE \E w \in Workers, x \in Turns : Claim(w, x)
  BY <1>0, <1>5, EndsGo
<1>6. CASE \E x \in Turns : ServerEnds(x) \/ RequeueStale(x)
  BY <1>0, <1>6, EndsGo
<1>7. CASE Notifying
  BY <1>0, <1>7, EndsGo DEF Notifying
<1>8. CASE Recovering \/ ExpireLease
  BY <1>0, <1>8, QueueGo DEF Recovering
<1> QED
  BY <1>1, <1>2, <1>3, <1>4, <1>5, <1>6, <1>7, <1>8 DEF Next

-----------------------------------------------------------------------------
(* The invariant of the messages                                           *)

\* The turn a task is bound to is a new one: it has no answer yet.
Answered(t) == rows[t].turn # NoTurn => outbox[<<t, rows[t].turn>>].state # "absent"

\* Nobody asks for anything before the recovery is over.
RequestsServe == \A p \in Senders \cup Requests \cup Retries : proc[p].pc # "idle" => Serving

\* On the way to the App Server.
Sending == {"send", "lock"} \cup Delivering

\* A message that waits was not sent, an accepted one was sent once.
CountedOf(k) ==
  /\ sent[k] \in {0, 1}
  /\ outbox[k].state \in {"absent", "pending", "queued"} => sent[k] = 0
  /\ outbox[k].state = "accepted" => sent[k] = 1 /\ (outbox[k].turn # NoTurn => turnRow[outbox[k].turn] # "none")
Counted == \A k \in Keys : CountedOf(k)

\* What a process that handles a message knows of it.
Knows(p) ==
  LET r == proc[p] IN
  /\ r.pc \in {"lock", "failOutbox"} \cup Delivering => outbox[r.key].state # "absent"
  /\ p \in Requests /\ p[1] = "resume" /\ r.pc = "send" => outbox[r.key].state # "absent"
  /\ \A i \in DOMAIN r.todo : outbox[r.todo[i][1]].state # "absent"
  /\ r.pc \in {"lease", "mark"} =>
       r.seen \in {"pending", "queued"} \/ (p \in Requests /\ outbox[r.key].state = "failed")
  /\ r.pc \in Pre => sent[r.key] = 0 /\ outbox[r.key].state \in {"sending", "failed"}
  /\ r.pc \in {"record", "accept"} => sent[r.key] = 1 /\ outbox[r.key].state \in {"sending", "failed"}
  /\ r.pc \in {"status", "bindTask"} => sent[r.key] = 1 /\ outbox[r.key].state \in {"accepted", "failed"}
  /\ r.pc \in {"accept", "status"} /\ r.turn # NoTurn => turnRow[r.turn] # "none"
  /\ p \in Requests /\ r.pc \in {"send", "lock", "lease", "mark"} => sent[r.key] = 0
Knowledge == \A p \in Procs : Knows(p)

\* A task that waits has no turn, no answer and no receipt.
Fresh ==
  \A t \in Tasks :
    /\ rows[t].status \in {"absent", "queued"} =>
         /\ rows[t].turn = NoTurn
         /\ \A y \in Turns : outbox[<<t, y>>].state = "absent"
         /\ \A p \in Requests : p[2] = t => proc[p].pc # "bind"
    /\ rows[t].status = "absent" => outbox[<<t, NoTurn>>].state = "absent" /\ rows[t].error = "none"

\* While a request sends the message of a task nobody else delivers it: the
\* task is not running, and a worker delivers for running tasks only.
EnqueueAlone ==
  \A t \in Tasks : proc[<<"enqueue", t>>].pc \in Sending =>
    /\ rows[t].status \in {"queued", "failed", "canceled", "interrupted"}
    /\ rows[t].error # "output_invalid"
    /\ \A q \in Pool \cup {Recovery} : proc[q].pc \in Delivering => proc[q].key # <<t, NoTurn>>
ResumeAlone ==
  \A t \in Tasks : proc[<<"resume", t>>].pc \in Sending =>
    /\ rows[t].status \notin {"running", "absent", "queued"}
    /\ Answered(t)
    /\ \A q \in Pool \cup {Recovery}, y \in Turns : proc[q].pc \in Delivering => proc[q].key # <<t, y>>

\* A worker that has an answer of the task at hand keeps the task from a turn
\* that could be answered next.
AnsweredOnce ==
  \A q \in Pool, t \in Tasks, y \in Turns :
    /\ proc[q].pc \in Delivering /\ proc[q].key = <<t, y>> => Answered(t)
    /\ proc[q].pc \in Listing /\ (\E i \in DOMAIN proc[q].todo : proc[q].todo[i][1] = <<t, y>>) => Answered(t)

\* A receipt that is still to be bound is that of the task's turn, or of one
\* that was answered.
BoundOnce ==
  \A p \in Requests : proc[p].pc = "bind" =>
    rows[p[2]].turn = proc[p].turn \/ outbox[<<p[2], proc[p].turn>>].state # "absent"

\* A task has one answer at a time that can still start its turn.
PendingKey(k) ==
  \/ outbox[k].state \in {"pending", "queued", "sending"}
  \/ \E q \in Procs : proc[q].pc \in {"status", "bindTask"} /\ proc[q].key = k
OneAnswer ==
  \A t \in Tasks, y \in Turns : PendingKey(<<t, y>>) =>
    /\ Answered(t)
    /\ \A z \in Turns : PendingKey(<<t, z>>) => z = y

Stage  == TypeInv /\ AppServerTasks /\ Locked /\ OnServer /\ OneOpen /\ StartedFor
MsgInv == /\ RequestsServe /\ Counted /\ Knowledge /\ Fresh
          /\ EnqueueAlone /\ ResumeAlone /\ AnsweredOnce /\ BoundOnce /\ OneAnswer

-----------------------------------------------------------------------------
(* What a step does to the messages                                        *)

\* The message a request sends.
LEMMA RequestOf ==
  ASSUME TypeInv, NEW p \in Requests, proc[p].pc # "idle"
  PROVE  /\ proc[p].key \in Keys /\ proc[p].key \in Tasks \X (Turns \cup {NoTurn}) /\ proc[p].key \notin Chats
         /\ \A t \in Tasks : proc[p].key = <<t, NoTurn>> => p = <<"enqueue", t>>
         /\ \A t \in Tasks, y \in Turns : proc[p].key = <<t, y>> => p = <<"resume", t>> /\ p[1] = "resume"
         /\ p[2] \in Tasks /\ TaskOf(proc[p].key) = p[2]
<1>1. p \in Procs
  BY KindsDiffer
<1>2. proc[p].key \in {p[2]} \X (IF p[1] = "enqueue" THEN {NoTurn} ELSE Turns)
  BY <1>1, ProcType DEF Carries
<1>3. p[2] \in Tasks /\ p[1] \in {"enqueue", "resume"} /\ p = <<p[1], p[2]>>
  BY DEF Requests
<1>4. proc[p].key \in Tasks \X (Turns \cup {NoTurn}) /\ TaskOf(proc[p].key) = p[2]
  BY <1>2, <1>3 DEF TaskOf
<1>5. ASSUME NEW t \in Tasks, proc[p].key = <<t, NoTurn>> PROVE p = <<"enqueue", t>>
  BY <1>2, <1>3, <1>5, NoTurnAssumption
<1>6. ASSUME NEW t \in Tasks, NEW y \in Turns, proc[p].key = <<t, y>> PROVE p = <<"resume", t>> /\ p[1] = "resume"
  BY <1>2, <1>3, <1>6, NoTurnAssumption
<1> QED
  BY <1>4, <1>5, <1>6, <1>3, KeysAssumption DEF Keys

\* The keys of the messages of a task.
LEMMA TaskKey ==
  ASSUME NEW t \in Tasks, NEW y \in Turns \cup {NoTurn}
  PROVE  <<t, y>> \in Keys /\ <<t, y>> \notin Chats /\ TaskOf(<<t, y>>) = t
  BY KeysAssumption DEF Keys, TaskOf

\* A message that was stored stays, and one that failed stays so.
LEMMA MessageStays ==
  ASSUME OutboxSteps, NEW k \in Keys
  PROVE  /\ outbox[k].state # "absent" => outbox'[k].state # "absent"
         /\ outbox[k].state = "failed" => outbox'[k].state = "failed"
<1>1. OutboxStep(k)
  BY DEF OutboxSteps
<1>2. \/ outbox'[k] = outbox[k]
      \/ outbox[k].state = "absent" /\ outbox'[k].state \in {"pending", "queued"}
      \/ outbox[k].state \in {"pending", "queued"} /\ outbox'[k].state = "sending"
      \/ outbox[k].state = "sending" /\ outbox'[k].state \in {"queued", "accepted"}
      \/ outbox'[k].state = "failed"
  BY <1>1 DEF OutboxStep
<1> QED
  BY <1>2

\* The App Server takes a message in one of two calls.
SentStep(k) ==
  \/ sent'[k] = sent[k]
  \/ \E p \in Procs :
       /\ SteerAccepted(p) \/ StartAccepted(p)
       /\ mutex = p /\ proc[p].key = k /\ proc[p].pc \in Pre /\ proc'[p].pc \in {"accept", "record"}
       /\ sent'[k] = sent[k] + 1 /\ outbox' = outbox

\* Every step.
LEMMA NextSent ==
  ASSUME TypeInv, TypeInv', [Next]_vars, NEW k \in Keys
  PROVE  SentStep(k)
<1>1. CASE sent' = sent
  BY <1>1 DEF SentStep
<1>2. ASSUME NEW p \in Procs, SteerAccepted(p) \/ StartAccepted(p) PROVE SentStep(k)
  <2>1. /\ proc[p].pc \in Pre /\ mutex = p /\ outbox' = outbox
        /\ sent' = [sent EXCEPT ![proc[p].key] = @ + 1]
    BY <1>2 DEF SteerAccepted, StartAccepted, Pre, store
  <2>2. proc'[p].pc \in {"accept", "record"}
    BY <1>2, CallSteps
  <2>3. sent \in [Keys -> Nat]
    BY DEF TypeInv, TypeOK
  <2>4. CASE proc[p].key = k
    <3>1. sent'[k] = sent[k] + 1
      BY <2>1, <2>3, <2>4
    <3> QED
      BY <1>2, <2>1, <2>2, <2>4, <3>1 DEF SentStep
  <2>5. CASE proc[p].key # k
    BY <2>1, <2>3, <2>5 DEF SentStep
  <2> QED
    BY <2>4, <2>5
<1>3. ASSUME NEW p \in Procs, Onstage(p) PROVE SentStep(k)
  <2>1. sent' = sent \/ SteerAccepted(p) \/ StartAccepted(p)
    BY <1>3 DEF Onstage, MarkSending, Decide, SteerStale, CallRefused, ThreadMissing, RecordTurn, Accept,
                MarkRunning, BindTask, CloseTurn, remote
  <2> QED
    BY <1>1, <1>2, <2>1
<1>4. Offstage => sent' = sent
  BY DEF Offstage
<1>5. /\ \A x \in Turns : ServerEnds(x) \/ Notify(x) => sent' = sent
      /\ InterruptTurns \/ Restart => sent' = sent
  BY DEF ServerEnds, Notify, InterruptTurns, Restart, remote
<1> QED
  BY <1>1, <1>3, <1>4, <1>5, NextStage

\* The steps of a delivery, on the message it delivers.
LEMMA Alone ==
  ASSUME TypeInv, Locked, NEW p \in Procs, NEW q \in Procs, proc[p].pc \in Delivering, proc[q].pc \in Delivering
  PROVE  p = q
  BY OneCall

\* What becomes of a message in the middle of its delivery.
LEMMA CallOutbox ==
  ASSUME TypeInv, TypeInv', Locked, OutboxSteps, NEW p \in Procs, proc[p].pc \in Calling
  PROVE  LET k == proc[p].key IN
         /\ proc'[p].pc \in Calling /\ outbox[k].state \in {"sending", "failed"} /\ proc'[p].pc # "status" =>
              outbox'[k].state \in {"sending", "failed"}
         /\ outbox[k].state \in {"accepted", "failed"} => outbox'[k].state \in {"accepted", "failed"}
         /\ outbox[k].state \in {"sending", "failed"} /\ proc'[p].pc = "status" =>
              outbox'[k].state \in {"sending", "accepted", "failed"}
<1> DEFINE k == proc[p].key
<1>1. k \in Keys /\ proc[p].pc \in Delivering
  BY DeliveredKey DEF Calling, Delivering
<1>2. OutboxStep(k)
  BY <1>1 DEF OutboxSteps
<1>3. ASSUME NEW q \in Procs, Decide(q) \/ Accept(q) PROVE q = p
  <2>1. proc[q].pc \in Delivering
    BY <1>3 DEF Decide, Accept, Delivering
  <2> QED
    BY <1>1, <2>1, OneCall
<1>4. \/ outbox'[k] = outbox[k]
      \/ outbox[k].state \in {"absent", "pending", "queued"}
      \/ outbox[k].state = "sending" /\ outbox'[k].state = "queued" /\ proc'[p].pc \notin Calling
      \/ outbox[k].state = "sending" /\ outbox'[k].state = "accepted" /\ proc'[p].pc = "status"
      \/ outbox'[k].state = "failed"
  <2> HIDE DEF k
  <2>1. CASE outbox'[k] = outbox[k] \/ outbox'[k].state = "failed" \/ outbox[k].state \in {"absent", "pending", "queued"}
    BY <2>1
  <2>2. ASSUME NEW q \in Procs, Decide(q), outbox[k].state = "sending", outbox'[k].state = "queued",
               proc'[q].pc \notin Calling
        PROVE  proc'[p].pc \notin Calling
    BY <1>3, <2>2
  <2>3. ASSUME NEW q \in Procs, Accept(q), proc'[q].pc = "status"
        PROVE  proc'[p].pc = "status"
    BY <1>3, <2>3
  <2> QED
    BY <1>2, <2>1, <2>2, <2>3 DEF OutboxStep
<1> HIDE DEF k
<1>5. /\ proc'[p].pc \in Calling /\ outbox[k].state \in {"sending", "failed"} /\ proc'[p].pc # "status" =>
           outbox'[k].state \in {"sending", "failed"}
      /\ outbox[k].state \in {"accepted", "failed"} => outbox'[k].state \in {"accepted", "failed"}
      /\ outbox[k].state \in {"sending", "failed"} /\ proc'[p].pc = "status" =>
           outbox'[k].state \in {"sending", "accepted", "failed"}
  BY <1>4 DEF Calling
<1> QED
  BY <1>5 DEF k

\* A step of a console that goes on.
GoesStep ==
  /\ Stage /\ Stage' /\ [Next]_vars
  /\ Going /\ Arrivals /\ OutboxSteps /\ TaskSteps /\ \A k \in Keys : SentStep(k)

\* Every step is one of these, or a restart.
LEMMA NextGoesStep ==
  ASSUME Stage, Stage', [Next]_vars
  PROVE  GoesStep \/ Restart
  BY NextGoes, NextArrivals, NextOutbox, NextRows, NextSent DEF Stage, GoesStep

-----------------------------------------------------------------------------
(* What is known of a message stays true                                   *)

\* The recovery starts with a restart, which ends all requests.
LEMMA RequestsServeStep ==
  ASSUME GoesStep, RequestsServe
  PROVE  RequestsServe'
<1>0. Recovery \in Procs /\ Going
  BY KindsDiffer DEF GoesStep
<1>1. ASSUME NEW p \in Senders \cup Requests \cup Retries, proc'[p].pc # "idle" PROVE Serving'
  <2>1. p \in Procs
    BY KindsDiffer
  <2>2. Serving
    <3>1. CASE proc[p].pc # "idle"
      BY <3>1 DEF RequestsServe
    <3>2. CASE proc[p].pc = "idle"
      BY <1>0, <1>1, <2>1, <3>2 DEF Going, Goes, Begins
    <3> QED
      BY <3>1, <3>2
  <2> QED
    BY <1>0, <2>2 DEF Going, Goes, Begins, Serving
<1> QED
  BY <1>1 DEF RequestsServe

\* A recorded turn stays recorded.
LEMMA RecordStays ==
  ASSUME GoesStep, NEW x \in Turns, turnRow[x] # "none"
  PROVE  turnRow'[x] # "none"
  BY TurnRowStep DEF GoesStep, Stage

\* What the outbox says of a message stays true of the calls made.
LEMMA CountedStep ==
  ASSUME GoesStep, Counted, Knowledge
  PROVE  Counted'
<1>0. /\ outbox \in [Keys -> [state : OutboxStates, turn : Turns \cup {NoTurn}]]
      /\ TypeInv /\ TypeInv' /\ OutboxSteps
  BY DEF GoesStep, Stage, TypeInv, TypeOK
<1>1. ASSUME NEW k \in Keys PROVE CountedOf(k)'
  <2>0. CountedOf(k) /\ OutboxStep(k) /\ SentStep(k) /\ outbox[k].turn \in Turns \cup {NoTurn}
    BY <1>0 DEF Counted, OutboxSteps, GoesStep
  <2>1. ASSUME NEW p \in Procs, mutex = p, proc[p].key = k, proc[p].pc \in Pre,
               sent'[k] = sent[k] + 1, outbox' = outbox
        PROVE  CountedOf(k)'
    <3>1. sent[k] = 0 /\ outbox[k].state \in {"sending", "failed"}
      BY <2>1 DEF Knowledge, Knows
    <3>2. sent'[k] = 1 /\ outbox'[k].state \in {"sending", "failed"}
      BY <2>1, <3>1
    <3> QED
      BY <3>2 DEF CountedOf
  <2>2. CASE sent'[k] = sent[k]
    <3>1. CASE outbox'[k] = outbox[k]
      BY <2>0, <2>2, <3>1, RecordStays DEF CountedOf
    <3>2. CASE outbox[k].state = "absent" /\ outbox'[k].state \in {"pending", "queued"}
      BY <2>0, <2>2, <3>2 DEF CountedOf
    <3>3. CASE outbox'[k].state \in {"sending", "failed"}
      BY <2>0, <2>2, <3>3 DEF CountedOf
    <3>4. ASSUME NEW p \in Procs, Decide(p), proc[p].key = k, outbox'[k].state = "queued" PROVE CountedOf(k)'
      <4>1. sent[k] = 0
        BY <3>4 DEF Decide, Pre, Knowledge, Knows
      <4> QED
        BY <2>2, <3>4, <4>1 DEF CountedOf
    <3>5. ASSUME NEW p \in Procs, Accept(p), proc[p].key = k, outbox'[k].state = "accepted",
                 outbox'[k].turn = proc[p].turn
          PROVE  CountedOf(k)'
      <4>1. sent[k] = 1 /\ (proc[p].turn # NoTurn => turnRow[proc[p].turn] # "none")
        BY <3>5 DEF Accept, Knowledge, Knows
      <4>2. proc[p].turn \in Turns \cup {NoTurn}
        BY <1>0, ProcType DEF Proc
      <4>3. outbox'[k].turn # NoTurn => turnRow'[outbox'[k].turn] # "none"
        BY <3>5, <4>1, <4>2, RecordStays
      <4> QED
        BY <2>2, <3>5, <4>1, <4>3 DEF CountedOf
    <3> QED
      BY <2>0, <3>1, <3>2, <3>3, <3>4, <3>5 DEF OutboxStep
  <2> QED
    BY <2>0, <2>1, <2>2 DEF SentStep
<1> QED
  BY <1>1 DEF Counted

\* A new turn is recorded after the App Server has opened it.
LEMMA RecordComes ==
  ASSUME TypeInv, TypeInv', [Next]_vars, NEW p \in Procs, proc'[p].pc = "record"
  PROVE  proc'[p] = proc[p] \/ (StartAccepted(p) /\ proc'[p].key = proc[p].key)
<1> DEFINE G == proc'[p] = proc[p] \/ (StartAccepted(p) /\ proc'[p].key = proc[p].key)
<1>0. proc'[p].pc \in Calling
  BY DEF Calling
<1>1. CASE Offstage
  BY <1>0, <1>1 DEF Offstage, OneMoves
<1>2. ASSUME NEW q \in Procs, Onstage(q) PROVE G
  <2>1. CASE q # p
    BY <1>2, <2>1, CallSteps DEF Onstage, OneMoves
  <2>2. CASE q = p
    <3>1. CASE StartAccepted(p)
      BY <3>1, CallSteps
    <3>2. CASE ~StartAccepted(p)
      BY <1>0, <1>2, <2>2, <3>2, CallSteps DEF Onstage
    <3> QED
      BY <3>1, <3>2
  <2> QED
    BY <2>1, <2>2
<1>3. CASE (\E x \in Turns : ServerEnds(x) \/ Notify(x)) \/ InterruptTurns
  BY <1>3, RestMoves, KindsDiffer DEF OneMoves
<1>4. CASE Restart
  BY <1>4 DEF Restart, Idle
<1> QED
  BY <1>1, <1>2, <1>3, <1>4, NextStage

\* What is known of a message in the middle of its delivery.
CallKnows(p) ==
  LET r == proc[p] IN
  /\ r.pc \in Pre => sent[r.key] = 0 /\ outbox[r.key].state \in {"sending", "failed"}
  /\ r.pc \in {"record", "accept"} => sent[r.key] = 1 /\ outbox[r.key].state \in {"sending", "failed"}
  /\ r.pc \in {"status", "bindTask"} => sent[r.key] = 1 /\ outbox[r.key].state \in {"accepted", "failed"}
  /\ r.pc \in {"accept", "status"} /\ r.turn # NoTurn => turnRow[r.turn] # "none"

\* ... while the delivery goes on without a call to the App Server.
LEMMA SameCall ==
  ASSUME GoesStep, NEW p \in Procs, CallKnows(p), proc[p].pc \in Calling,
         proc'[p].key = proc[p].key, proc'[p].turn = proc[p].turn \/ proc'[p].pc \in Pre,
         proc'[p].pc = proc[p].pc \/ (proc[p].pc \in Pre /\ proc'[p].pc \in Pre)
  PROVE  CallKnows(p)'
<1> DEFINE k == proc[p].key
<1>0. k \in Keys /\ TypeInv /\ TypeInv' /\ Locked /\ OutboxSteps /\ SentStep(k) /\ proc[p].pc \in Delivering
      /\ proc[p].turn \in Turns \cup {NoTurn}
  BY DeliveredKey DEF GoesStep, Stage, Calling, Delivering
<1>1. sent'[k] = sent[k]
  <2>1. ASSUME NEW q \in Procs, mutex = q, proc[q].pc \in Pre, proc'[q].pc \in {"accept", "record"} PROVE FALSE
    <3>1. q = p
      BY <1>0, <2>1, OneCall DEF Pre, Delivering
    <3> QED
      BY <2>1, <3>1 DEF Pre
  <2> QED
    BY <1>0, <2>1 DEF SentStep
<1>2. /\ proc[p].pc # "status" /\ outbox[k].state \in {"sending", "failed"} => outbox'[k].state \in {"sending", "failed"}
      /\ outbox[k].state \in {"accepted", "failed"} => outbox'[k].state \in {"accepted", "failed"}
  BY <1>0, CallOutbox DEF Pre, Calling
<1>3. proc[p].turn # NoTurn /\ turnRow[proc[p].turn] # "none" => turnRow'[proc[p].turn] # "none"
  BY <1>0, RecordStays
<1> QED
  BY <1>1, <1>2, <1>3 DEF CallKnows, Pre

\* ... and when it makes one.
LEMMA CallKnowsStep ==
  ASSUME GoesStep, Counted, Knowledge, NEW p \in Procs
  PROVE  CallKnows(p)'
<1>0. /\ TypeInv /\ TypeInv' /\ Locked /\ OneOpen /\ OutboxSteps /\ [Next]_vars /\ Goes(p)
      /\ outbox \in [Keys -> [state : OutboxStates, turn : Turns \cup {NoTurn}]]
      /\ turnRow \in [Turns -> {"none", "running", "completed", "failed"}] /\ sent \in [Keys -> Nat]
  BY DEF GoesStep, Stage, Going, TypeInv, TypeOK
<1>1. CallKnows(p)
  BY DEF Knowledge, Knows, CallKnows
<1>2. CASE proc'[p] = proc[p]
  <2>1. CASE proc[p].pc \in Calling
    BY <1>1, <1>2, <2>1, SameCall
  <2>2. CASE proc[p].pc \notin Calling
    BY <1>2, <2>2 DEF CallKnows, Calling, Pre
  <2> QED
    BY <2>1, <2>2
<1>3. CASE proc'[p].pc \in Pre /\ proc'[p] # proc[p]
  <2>1. CASE proc[p].pc \in Pre
    <3>1. proc'[p].key = proc[p].key /\ proc[p].pc \in Calling
      BY <1>0, <1>3, <2>1 DEF Goes, Delivers, Pre, Delivering, Calling
    <3> QED
      BY <1>1, <1>3, <2>1, <3>1, SameCall
  <2>2. CASE MarkSending(p) /\ mutex = p /\ proc[p].pc \notin Pre
    <3> DEFINE k == proc[p].key
    <3>1. proc[p].pc = "mark" /\ k \in Keys /\ proc'[p].key = k /\ sent' = sent
      BY <1>0, <1>3, <2>2, DeliveredKey DEF MarkSending, Delivering, Goes, Delivers, Pre, remote
    <3>2. sent[k] = 0 /\ outbox'[k].state \in {"sending", "failed"}
      <4>1. CASE proc[p].seen \in {"pending", "queued"} /\ outbox[k].state = proc[p].seen /\ outbox'[k].state = "sending"
        BY <3>1, <4>1 DEF Counted, CountedOf
      <4>2. CASE proc[p].seen \notin {"pending", "queued"} /\ outbox' = outbox
        BY <3>1, <4>2 DEF Knowledge, Knows
      <4> QED
        BY <1>0, <1>3, <2>2, <4>1, <4>2 DEF Goes, Delivers
    <3> QED
      BY <1>3, <3>1, <3>2 DEF CallKnows, Pre
  <2> QED
    BY <1>0, <1>3, <2>1, <2>2 DEF Goes, Delivers
<1>4. CASE proc'[p].pc = "record" /\ proc'[p] # proc[p]
  <2> DEFINE k == proc[p].key
  <2>1. StartAccepted(p) /\ proc'[p].key = k
    BY <1>0, <1>4, RecordComes
  <2>2. k \in Keys /\ proc[p].pc \in Pre /\ outbox' = outbox /\ sent' = [sent EXCEPT ![k] = @ + 1]
    BY <1>0, <2>1, DeliveredKey DEF StartAccepted, Delivering, Pre, store
  <2>3. sent[k] = 0 /\ outbox[k].state \in {"sending", "failed"}
    BY <1>1, <2>2 DEF CallKnows
  <2>4. sent'[k] = 1
    BY <1>0, <2>2, <2>3
  <2> QED
    BY <1>4, <2>1, <2>2, <2>3, <2>4 DEF CallKnows, Pre
<1>5. CASE proc'[p].pc \in {"accept", "status", "bindTask"} /\ proc'[p] # proc[p]
  <2> DEFINE k == proc[p].key
             x == proc[p].turn
  <2>1. /\ proc'[p].key = k /\ proc'[p].turn = x
        /\ \/ RecordTurn(p) /\ proc'[p].pc = "accept"
           \/ SteerAccepted(p) /\ proc'[p].pc = "accept"
           \/ Accept(p) /\ proc'[p].pc = "status"
           \/ MarkRunning(p) /\ proc'[p].pc = "bindTask"
    BY <1>0, <1>5, AcceptStep DEF KeepsCall
  <2>2. CASE RecordTurn(p) /\ proc'[p].pc = "accept"
    <3>1. /\ proc[p].pc = "record" /\ sent' = sent /\ outbox' = outbox /\ x \in Turns
          /\ turnRow' = [turnRow EXCEPT ![x] = "running"]
      BY <1>0, <2>2, ProcType DEF RecordTurn, remote, Carries, AtTurn
    <3>2. turnRow'[x] # "none" /\ sent'[k] = 1 /\ outbox'[k].state \in {"sending", "failed"}
      BY <1>0, <1>1, <3>1 DEF CallKnows
    <3> QED
      BY <2>1, <2>2, <3>2 DEF CallKnows, Pre
  <2>3. CASE SteerAccepted(p) /\ proc'[p].pc = "accept"
    <3>1. /\ proc[p].pc \in Pre /\ proc[p].pc \in Delivering /\ k \in Keys /\ x \in Turns /\ server[x] = "live"
          /\ sent' = [sent EXCEPT ![k] = @ + 1] /\ outbox' = outbox /\ turnRow' = turnRow
          /\ proc[p].pc # "record"
      BY <1>0, <2>3, DeliveredKey DEF SteerAccepted, Delivering, Pre, AtTurn, store
    <3>2. sent[k] = 0 /\ outbox[k].state \in {"sending", "failed"}
      BY <1>1, <3>1 DEF CallKnows
    <3>3. sent'[k] = 1
      BY <1>0, <3>1, <3>2
    <3>4. turnRow[x] = "running"
      <4>1. ASSUME NEW q \in Procs, proc[q].pc = "record" PROVE FALSE
        BY <1>0, <3>1, <4>1, OneCall DEF Delivering
      <4> QED
        BY <1>0, <3>1, <4>1 DEF OneOpen
    <3> QED
      BY <2>1, <2>3, <3>1, <3>2, <3>3, <3>4 DEF CallKnows, Pre
  <2>4. CASE Accept(p) /\ proc'[p].pc = "status"
    <3>1. /\ proc[p].pc = "accept" /\ proc[p].pc \in Delivering /\ mutex = p /\ k \in Keys /\ sent' = sent
          /\ turnRow' = turnRow
      BY <1>0, <2>4, DeliveredKey DEF Accept, Delivering, remote
    <3>2. outbox'[k].state = "accepted"
      <4>1. CASE Exit(p, FALSE)
        BY <1>0, <2>4, <3>1, <4>1, ExitLeaves DEF Calling
      <4>2. CASE SetOutbox(k, "sending", "accepted", x)
        BY <1>0, <3>1, <4>2, SetsOne
      <4> QED
        BY <2>4, <4>1, <4>2 DEF Accept
    <3> QED
      BY <1>1, <2>1, <2>4, <3>1, <3>2 DEF CallKnows, Pre
  <2>5. CASE MarkRunning(p) /\ proc'[p].pc = "bindTask"
    <3>1. proc[p].pc = "status" /\ sent' = sent /\ outbox' = outbox
      BY <2>5 DEF MarkRunning, remote
    <3> QED
      BY <1>1, <2>1, <2>5, <3>1 DEF CallKnows, Pre
  <2> QED
    BY <2>1, <2>2, <2>3, <2>4, <2>5
<1>6. CASE proc'[p].pc \notin Pre \cup {"record", "accept", "status", "bindTask"}
  BY <1>6 DEF CallKnows
<1> QED
  BY <1>2, <1>3, <1>4, <1>5, <1>6

\* Nobody else delivers the message of a request that is sending it.
LEMMA NobodyElse ==
  ASSUME TypeInv, EnqueueAlone, ResumeAlone, NEW p \in Requests, proc[p].pc \in Sending,
         NEW q \in Procs, proc[q].pc \in Delivering, proc[q].key = proc[p].key
  PROVE  q = p
<1>1. proc[p].pc # "idle" /\ p \in Procs /\ proc[q].pc # "idle"
  BY KindsDiffer DEF Sending, Delivering
<1>2. PICK t \in Tasks, y \in Turns \cup {NoTurn} : proc[p].key = <<t, y>>
  BY <1>1, RequestOf
<1>3. CASE q \in Senders
  BY <1>1, <1>3, RequestOf, ProcType DEF Carries
<1>4. CASE q \in Requests
  BY <1>1, <1>2, <1>4, RequestOf
<1>5. CASE q \in Retries \cup {Notifier}
  BY <1>5, ProcType DEF Kinds, Delivering
<1>6. CASE q \in Pool \cup {Recovery}
  <2>1. CASE y = NoTurn
    <3>1. p = <<"enqueue", t>>
      BY <1>1, <1>2, <2>1, RequestOf
    <3> QED
      BY <1>2, <1>6, <2>1, <3>1 DEF EnqueueAlone
  <2>2. CASE y \in Turns
    <3>1. p = <<"resume", t>>
      BY <1>1, <1>2, <2>2, RequestOf
    <3> QED
      BY <1>2, <1>6, <2>2, <3>1 DEF ResumeAlone
  <2> QED
    BY <2>1, <2>2
<1> QED
  BY <1>3, <1>4, <1>5, <1>6 DEF Procs

\* ... so that nobody sends it before that.
LEMMA SentLater ==
  ASSUME GoesStep, EnqueueAlone, ResumeAlone, NEW p \in Requests,
         proc[p].pc \in {"send", "lock", "lease", "mark"}
  PROVE  sent'[proc[p].key] = sent[proc[p].key]
<1> DEFINE k == proc[p].key
<1>1. TypeInv /\ proc[p].pc \in Sending /\ proc[p].pc # "idle"
  BY DEF GoesStep, Stage, Sending, Delivering
<1>2. k \in Keys /\ SentStep(k)
  BY <1>1, RequestOf DEF GoesStep
<1>3. ASSUME NEW q \in Procs, proc[q].key = k, proc[q].pc \in Pre PROVE FALSE
  <2>1. proc[q].pc \in Delivering
    BY <1>3 DEF Pre, Delivering
  <2>2. q = p
    BY <1>1, <1>3, <2>1, NobodyElse
  <2> QED
    BY <1>3, <2>2 DEF Pre
<1> QED
  BY <1>2, <1>3 DEF SentStep

\* What a request has not sent is not sent.
LEMMA NotSentYet ==
  ASSUME GoesStep, Counted, Knowledge, Fresh, EnqueueAlone, ResumeAlone, NEW p \in Requests,
         proc'[p].pc \in {"send", "lock", "lease", "mark"}
  PROVE  sent'[proc'[p].key] = 0
<1>0. /\ TypeInv /\ TypeInv' /\ Goes(p) /\ p \in Procs /\ p \notin Senders /\ p \notin Pool \cup {Recovery}
  BY KindsDiffer DEF GoesStep, Stage, Going
<1>1. CASE proc[p].pc \in {"send", "lock", "lease", "mark"} /\ proc'[p].key = proc[p].key
  BY <1>0, <1>1, SentLater DEF Knowledge, Knows
<1>2. CASE proc'[p].pc = "send"
  <2>1. ASSUME NEW t \in Tasks, Enqueue(t), p = <<"enqueue", t>> PROVE sent'[proc'[p].key] = 0
    <3> DEFINE k == <<t, NoTurn>>
    <3>1. proc' = [proc EXCEPT ![p] = [Idle EXCEPT !.pc = "send", !.key = k]] /\ sent' = sent
          /\ rows[t].status = "absent"
      BY <2>1 DEF Enqueue, remote
    <3>2. [Idle EXCEPT !.pc = "send", !.key = k].key = k
      BY DEF Idle
    <3>3. proc'[p].key = k
      BY ZenonT(60), <1>0, <3>1, <3>2, MovesTo
    <3>4. sent[k] = 0
      BY <3>1, TaskKey DEF Fresh, Counted, CountedOf
    <3> QED
      BY <3>1, <3>3, <3>4
  <2>2. ASSUME NEW t \in Tasks, Resume(t), proc'[p].key = <<t, rows[t].turn>> PROVE sent'[proc'[p].key] = 0
    <3>1. outbox[<<t, rows[t].turn>>].state = "absent" /\ sent' = sent /\ <<t, rows[t].turn>> \in Keys
      BY <1>0, <2>2, RowIn, TaskKey DEF Resume, Insert, remote
    <3> QED
      BY <2>2, <3>1 DEF Counted, CountedOf
  <2>3. CASE proc'[p] = proc[p]
    BY <1>1, <1>2, <2>3
  <2> QED
    BY <1>0, <1>2, <2>1, <2>2, <2>3 DEF Goes, Waits
<1>3. CASE proc'[p].pc \in {"lock", "lease", "mark"}
  <2>1. proc[p].pc \in {"send", "lock", "lease", "mark"} /\ proc'[p].key = proc[p].key
    BY <1>0, <1>3 DEF Goes, Waits, Delivers, Enters
  <2> QED
    BY <1>1, <2>1
<1> QED
  BY <1>2, <1>3

\* What is known of a message before the calls.
LEMMA WaitKnows ==
  ASSUME GoesStep, Knowledge, NEW p \in Procs
  PROVE  LET r == proc'[p] IN
         /\ r.pc \in {"lock", "failOutbox"} \cup Delivering => outbox'[r.key].state # "absent"
         /\ p \in Requests /\ p[1] = "resume" /\ r.pc = "send" => outbox'[r.key].state # "absent"
         /\ \A i \in DOMAIN r.todo : outbox'[r.todo[i][1]].state # "absent"
         /\ r.pc \in {"lease", "mark"} =>
              r.seen \in {"pending", "queued"} \/ (p \in Requests /\ outbox'[r.key].state = "failed")
<1> DEFINE r == proc'[p]
           q == proc[p]
<1>0. /\ TypeInv /\ TypeInv' /\ Goes(p) /\ OutboxSteps /\ Knows(p)
      /\ outbox \in [Keys -> [state : OutboxStates, turn : Turns \cup {NoTurn}]]
  BY DEF GoesStep, Stage, Going, TypeInv, TypeOK, Knowledge
<1>1. ASSUME NEW k \in Keys, outbox[k].state # "absent" PROVE outbox'[k].state # "absent"
  BY <1>0, <1>1, MessageStays
<1>2. \A i \in DOMAIN q.todo : q.todo[i][1] \in Keys
  <2>1. q.todo \in Seq(Keys \X OutboxStates)
    BY <1>0, ProcType DEF Proc
  <2> QED
    BY <2>1
<1>3. \A i \in DOMAIN r.todo : r.todo[i][1] \in Keys
  <2>1. r.todo \in Seq(Keys \X OutboxStates)
    BY <1>0 DEF TypeInv, TypeOK, Proc
  <2> QED
    BY <2>1
<1>4. q.pc \in {"lock", "failOutbox"} \cup Delivering => q.key \in Keys /\ outbox'[q.key].state # "absent"
  <2>1. q.pc = "lock" => p \in Senders \cup Requests
    BY <1>0, ProcType, KindsDiffer DEF Kinds, Delivering
  <2>2. q.pc \in {"lock", "failOutbox"} \cup Delivering => q.key \in Keys
    BY <1>0, <2>1, ProcType, RequestOf, DeliveredKey DEF Carries, Keys
  <2> QED
    BY <1>0, <1>1, <2>2 DEF Knows
<1>5. ASSUME Enters(p) PROVE /\ r.key \in Keys /\ outbox'[r.key].state # "absent"
                             /\ r.seen \in {"pending", "queued"} \/ (p \in Requests /\ outbox'[r.key].state = "failed")
  <2>1. CASE p \in Senders \cup Requests /\ q.pc = "lock" /\ r.key = q.key /\ r.seen = outbox[q.key].state
             /\ r.seen \notin {"accepted", "sending"} /\ (p \in Senders => r.seen # "failed")
    <3>1. q.key \in Keys /\ outbox'[q.key].state # "absent" /\ outbox[q.key].state # "absent"
      BY <1>0, <1>4, <2>1 DEF Knows
    <3>2. outbox[q.key].state \in {"pending", "queued", "failed"}
      BY <1>0, <2>1, <3>1 DEF OutboxStates
    <3> QED
      BY <1>0, <2>1, <3>1, <3>2, MessageStays
  <2>2. CASE q.todo # <<>> /\ r.key = Head(q.todo)[1] /\ r.seen \in {"pending", "queued"}
    <3>1. 1 \in DOMAIN q.todo /\ Head(q.todo) = q.todo[1] /\ Head(q.todo)[1] \in Keys
      BY <1>0, <2>2, HeadIn
    <3>2. outbox[r.key].state # "absent" /\ r.key \in Keys
      BY <1>0, <2>2, <3>1 DEF Knows
    <3> QED
      BY <1>1, <2>2, <3>2
  <2> QED
    BY <1>5, <2>1, <2>2 DEF Enters
<1>6. r.pc \in {"lock", "failOutbox"} \cup Delivering => outbox'[r.key].state # "absent"
  <2>1. CASE r.pc = "lock"
    BY <1>0, <1>4, <2>1 DEF Goes, Waits
  <2>2. CASE r.pc \in Delivering
    BY <1>0, <1>4, <1>5, <2>2 DEF Goes, Delivers
  <2>3. CASE r.pc = "failOutbox"
    <3>1. r.key = q.key
      BY <1>0, <2>3 DEF Goes, Delivers
    <3>2. CASE q.pc \in Delivering \cup {"failOutbox"}
      BY <1>4, <3>1, <3>2
    <3>3. CASE q.pc = "send" /\ outbox[q.key].state # "absent"
      <4>1. p \in Requests
        BY <1>0, <3>3, ProcType, KindsDiffer DEF Kinds, Delivering
      <4> QED
        BY <1>0, <1>1, <3>1, <3>3, <4>1, RequestOf
    <3> QED
      BY <1>0, <2>3, <3>2, <3>3 DEF Goes, Delivers
  <2> QED
    BY <2>1, <2>2, <2>3
<1>7. ASSUME p \in Requests, p[1] = "resume", r.pc = "send" PROVE outbox'[r.key].state # "absent"
  <2>1. CASE r = q
    BY <1>0, <1>1, <1>7, <2>1, RequestOf DEF Knows
  <2>2. ASSUME NEW t \in Tasks, Resume(t), r.key = <<t, rows[t].turn>> PROVE outbox'[r.key].state # "absent"
    <3>1. r.key \in Keys /\ Insert(r.key, "queued")
      BY <1>0, <2>2, RowIn, TaskKey DEF Resume
    <3> QED
      BY <1>0, <3>1 DEF Insert
  <2>3. ASSUME NEW t \in Tasks, p = <<"enqueue", t>> PROVE FALSE
    BY <1>7, <2>3
  <2> QED
    BY <1>0, <1>7, <2>1, <2>2, <2>3 DEF Goes, Waits
<1>8. ASSUME NEW i \in DOMAIN r.todo PROVE outbox'[r.todo[i][1]].state # "absent"
  <2>1. CASE outbox[r.todo[i][1]].state # "absent"
    BY <1>1, <1>3, <1>8, <2>1
  <2>2. ASSUME NEW j \in DOMAIN q.todo, r.todo[i] = q.todo[j] PROVE outbox'[r.todo[i][1]].state # "absent"
    BY <1>0, <1>1, <1>2, <2>2 DEF Knows
  <2> QED
    BY <1>0, <1>8, <2>1, <2>2 DEF Goes, Recalls
<1>9. ASSUME r.pc \in {"lease", "mark"}
      PROVE  r.seen \in {"pending", "queued"} \/ (p \in Requests /\ outbox'[r.key].state = "failed")
  <2>1. CASE q.pc \in {"lease", "mark"} /\ r.key = q.key /\ r.seen = q.seen
    BY <1>0, <1>4, <2>1, MessageStays DEF Knows, Delivering
  <2>2. (q.pc \in {"lease", "mark"} /\ r.key = q.key /\ r.seen = q.seen) \/ Enters(p)
    BY <1>0, <1>9 DEF Goes, Delivers
  <2> QED
    BY <1>5, <2>1, <2>2
<1> QED
  BY <1>6, <1>7, <1>8, <1>9

\* What is known of a message, before and in the calls, stays true.
LEMMA KnowledgeStep ==
  ASSUME GoesStep, Counted, Knowledge, Fresh, EnqueueAlone, ResumeAlone
  PROVE  Knowledge'
<1>1. ASSUME NEW p \in Procs PROVE Knows(p)'
  BY WaitKnows, CallKnowsStep, NotSentYet DEF Knows, CallKnows
<1> QED
  BY <1>1 DEF Knowledge

-----------------------------------------------------------------------------
(* A task and its messages                                                 *)

\* A message of a task is stored by its answer, or by the request that sends
\* its first message.
LEMMA TaskMessage ==
  ASSUME GoesStep, Knowledge, NEW t \in Tasks, NEW y \in Turns \cup {NoTurn},
         outbox[<<t, y>>].state = "absent", outbox'[<<t, y>>].state # "absent"
  PROVE  /\ y \in Turns => Resume(t) /\ y = rows[t].turn
         /\ y \notin Turns => proc[<<"enqueue", t>>].pc = "send"
<1> DEFINE k == <<t, y>>
<1>0. k \in Keys /\ k \notin Chats /\ OutboxStep(k) /\ TypeInv
  BY TaskKey DEF GoesStep, OutboxSteps, Stage
<1>1. ASSUME Fails(k) PROVE FALSE
  <2>1. ASSUME NEW p \in Procs, FailDelivery(p), proc[p].key = k PROVE FALSE
    BY <2>1 DEF FailDelivery, Knowledge, Knows
  <2> QED
    BY <1>1, <2>1 DEF Fails
<1>2. Stores(k)
  BY <1>0, <1>1 DEF OutboxStep
<1>3. ASSUME NEW c \in Clients, ChatOf[c] = k PROVE FALSE
  BY <1>0, <1>3, ChatAssumption
<1>4. ASSUME NEW u \in Tasks, Resume(u), k = <<u, rows[u].turn>>
      PROVE  Resume(t) /\ y = rows[t].turn /\ y \in Turns
  <2>1. t = u /\ y = rows[u].turn
    BY <1>4
  <2> QED
    BY <1>4, <2>1 DEF Resume
<1>5. ASSUME NEW p \in Requests, SendTask(p), proc[p].key = k
      PROVE  y \notin Turns /\ proc[<<"enqueue", t>>].pc = "send"
  <2>1. proc[p].pc = "send" /\ p \in Procs
    BY <1>5, KindsDiffer DEF SendTask
  <2>2. y \notin Turns
    <3>1. ASSUME y \in Turns PROVE FALSE
      <4>1. p[1] = "resume"
        BY <1>0, <1>5, <2>1, <3>1, RequestOf
      <4> QED
        BY <1>5, <2>1, <4>1 DEF Knowledge, Knows
    <3> QED
      BY <3>1
  <2>3. p = <<"enqueue", t>>
    <3>1. y = NoTurn
      BY <2>2
    <3> QED
      BY <1>0, <1>5, <2>1, <3>1, RequestOf
  <2> QED
    BY <2>1, <2>2, <2>3
<1> QED
  BY <1>2, <1>3, <1>4, <1>5 DEF Stores

\* A turn is bound to the task: the last step of a delivery.
Binds(p, t) ==
  /\ BindTask(p) /\ TaskOf(proc[p].key) = t /\ proc[p].turn \in Turns
  /\ rows[t].status = (IF IsResume(proc[p].key) THEN "resuming" ELSE "queued")
  /\ Becomes(t, "running", proc[p].turn, rows[t].error)

\* Who binds a turn, with which message, and how it leaves.
LEMMA BindsOf ==
  ASSUME GoesStep, NEW t \in Tasks, NEW p \in Procs, Binds(p, t)
  PROVE  /\ proc[p].pc = "bindTask" /\ proc[p].key \in Keys \ Chats /\ outbox' = outbox
         /\ mutex' = None /\ proc'[p].pc \in {"idle", "bind"}
         /\ \A q \in Procs : proc'[q].pc \notin Delivering /\ (q \in Pool => proc'[q].pc \notin Listing)
         /\ \/ rows[t].status = "queued" /\ proc[p].key = <<t, NoTurn>>
            \/ rows[t].status = "resuming" /\ \E y \in Turns : proc[p].key = <<t, y>>
         /\ p \in Pool \cup {Recovery} \/ p = <<"enqueue", t>> \/ p = <<"resume", t>>
<1>0. /\ TypeInv /\ TypeInv' /\ Locked' /\ rows \in [Tasks -> Row] /\ rows[t] \in Row
      /\ proc[p].pc = "bindTask" /\ mutex = p /\ outbox' = outbox /\ BindTask(p)
  BY DEF GoesStep, Stage, TypeInv, TypeOK, Binds, BindTask
<1>1. proc[p].pc \in Delivering /\ proc[p].key \in Keys \ Chats /\ Kinds(p, proc[p].pc)
  BY <1>0, ProcType DEF Delivering, Carries
<1>2. Exit(p, TRUE)
  <2> DEFINE q == proc[p]
  <2>1. TaskOf(q.key) = t /\ rows'[t].status = "running" /\ rows[t].status \in {"queued", "resuming"}
    BY DEF Binds, Becomes
  <2>2. ~FailIfLive(t)
    BY <1>0, <2>1, EndWrites DEF FailIfLive, Written
  <2>3. ~(rows[t].status = "resuming" /\ ~IsResume(q.key)) /\ ~(rows[t].status = "queued" /\ IsResume(q.key))
    BY DEF Binds
  <2> QED
    BY <1>0, <2>1, <2>2, <2>3 DEF BindTask
<1>3. proc'[p].pc \in {"idle", "bind"} /\ mutex' = None
  BY <1>0, <1>1, <1>2, ExitMoves, IdleHolds
<1>4. ASSUME NEW q \in Procs PROVE proc'[q].pc \notin Delivering /\ (q \in Pool => proc'[q].pc \notin Listing)
  <2>1. ~Holds(q, proc'[q])
    BY <1>0, <1>3, NoneAssumption DEF Locked
  <2> QED
    BY <2>1 DEF Holds, Listing
<1>5. PICK y \in Turns \cup {NoTurn} : proc[p].key = <<t, y>>
  BY <1>1, TaskOfKey DEF Binds
<1>6. \/ rows[t].status = "queued" /\ proc[p].key = <<t, NoTurn>>
      \/ rows[t].status = "resuming" /\ \E z \in Turns : proc[p].key = <<t, z>>
  BY <1>5, NoTurnAssumption DEF Binds, IsResume
<1>7. p \in Pool \cup {Recovery} \/ p = <<"enqueue", t>> \/ p = <<"resume", t>>
  <2>1. p \in Requests \cup Pool \cup {Recovery}
    BY <1>0, <1>1, KindsDiffer DEF Kinds, Delivering
  <2>2. ASSUME p \in Requests PROVE p = <<"enqueue", t>> \/ p = <<"resume", t>>
    BY <1>0, <1>5, <2>2, RequestOf
  <2> QED
    BY <2>1, <2>2
<1> QED
  BY <1>0, <1>1, <1>3, <1>4, <1>6, <1>7

\* A receipt that a request is to bind.
LEMMA BindComes ==
  ASSUME GoesStep, Counted, Knowledge, NEW p \in Requests, proc'[p].pc = "bind"
  PROVE  \/ proc[p].pc = "bind" /\ proc'[p].turn = proc[p].turn
         \/ /\ rows'[p[2]].turn = proc'[p].turn /\ proc'[p].turn \in Turns
            /\ proc'[p].turn # NoTurn /\ outbox' = outbox
<1>0. /\ TypeInv /\ TypeInv' /\ p \in Procs /\ Arrives(p) /\ rows \in [Tasks -> Row]
  BY KindsDiffer DEF GoesStep, Stage, Arrivals, TypeInv, TypeOK
<1>1. ASSUME proc[p].pc \in {"send", "lock"}, outbox[proc[p].key].state = "accepted" PROVE FALSE
  <2>1. proc[p].key \in Keys /\ sent[proc[p].key] = 0
    BY <1>0, <1>1, RequestOf DEF Knowledge, Knows
  <2> QED
    BY <1>1, <2>1 DEF Counted, CountedOf
<1>2. ASSUME BindTask(p), proc'[p].turn = proc[p].turn
      PROVE  rows'[p[2]].turn = proc'[p].turn /\ proc'[p].turn \in Turns /\ outbox' = outbox
  <2> DEFINE q == proc[p]
             t == p[2]
             x == proc[p].turn
  <2>1. q.pc = "bindTask" /\ q.pc \in Delivering /\ mutex = p /\ x \in Turns /\ outbox' = outbox
    BY <1>0, <1>2, ProcType DEF BindTask, Carries, AtTurn, Delivering
  <2>2. t \in Tasks /\ TaskOf(q.key) = t
    BY <1>0, <2>1, RequestOf
  <2>3. ~Exit(p, FALSE)
    BY <1>0, <2>1, ExitMoves, IdleHolds
  <2>4. CanStartAppServerTurn(rows[t], x) /\ rows' = [rows EXCEPT ![t] = StartAppServerTurn(@, x)]
    BY <1>2, <2>2, <2>3 DEF BindTask
  <2>5. rows'[t] = StartAppServerTurn(rows[t], x) /\ rows[t] \in Row
    BY <1>0, <2>2, <2>4
  <2>6. rows'[t].turn = x
    <3>1. CASE TurnAlreadyStarted(rows[t], x)
      BY <2>1, <2>5, <3>1, ProgressWrites DEF TurnAlreadyStarted
    <3>2. CASE ~TurnAlreadyStarted(rows[t], x)
      BY <2>1, <2>5, <3>2, ProgressWrites DEF Written
    <3> QED
      BY <3>1, <3>2
  <2> QED
    BY <1>2, <2>1, <2>6
<1> QED
  BY <1>0, <1>1, <1>2, NoTurnAssumption DEF Arrives

\* A request that sends has sent before, or has just begun.
LEMMA SendingComes ==
  ASSUME GoesStep, NEW p \in Requests, proc'[p].pc \in Sending
  PROVE  \/ proc[p].pc \in Sending /\ proc'[p].key = proc[p].key
         \/ \E t \in Tasks : Enqueue(t) /\ p = <<"enqueue", t>>
         \/ \E t \in Tasks : Resume(t) /\ p = <<"resume", t>>
<1>0. Goes(p) /\ p \notin Senders /\ p \notin Pool \cup {Recovery}
  BY KindsDiffer DEF GoesStep, Going
<1>1. CASE proc'[p].pc = "send"
  BY <1>0, <1>1 DEF Goes, Waits, Sending
<1>2. CASE proc'[p].pc = "lock"
  BY <1>0, <1>2 DEF Goes, Waits, Sending
<1>3. CASE proc'[p].pc \in Delivering
  BY <1>0, <1>3 DEF Goes, Delivers, Enters, Sending
<1> QED
  BY <1>1, <1>2, <1>3 DEF Sending

\* The turn of a task is a new one until the task is answered, or gets the next.
LEMMA AnsweredStep ==
  ASSUME GoesStep, BoundOnce, NEW t \in Tasks, Answered(t)
  PROVE  Answered(t)' \/ \E p \in Procs : Binds(p, t)
<1>0. /\ TypeInv /\ TypeInv' /\ OutboxSteps /\ TaskStep(t) /\ rows[t].turn \in Turns \cup {NoTurn}
      /\ rows[t] \in Row
  BY RowIn DEF GoesStep, Stage, TaskSteps
<1>1. ASSUME NEW x \in Turns \cup {NoTurn}, outbox[<<t, x>>].state # "absent" PROVE outbox'[<<t, x>>].state # "absent"
  BY <1>0, <1>1, TaskKey, MessageStays
<1>2. CASE rows'[t].turn = rows[t].turn
  BY <1>0, <1>1, <1>2 DEF Answered
<1>3. CASE rows'[t].turn = NoTurn
  BY <1>3 DEF Answered
<1>4. ASSUME NEW p \in Requests, BindReceipt(p), p[2] = t, rows[t].turn = NoTurn, rows'[t].turn = proc[p].turn
      PROVE  Answered(t)'
  <2>1. rows[t].turn = proc[p].turn \/ outbox[<<t, proc[p].turn>>].state # "absent"
    BY <1>4 DEF BindReceipt, BoundOnce
  <2>2. proc[p].turn \in Turns \cup {NoTurn}
    BY <1>0, <1>4, ProcType, KindsDiffer DEF Proc
  <2>3. CASE rows[t].turn = proc[p].turn
    BY <1>4, <2>3 DEF Answered
  <2>4. CASE outbox[<<t, proc[p].turn>>].state # "absent"
    <3>1. outbox'[<<t, proc[p].turn>>].state # "absent"
      BY <1>1, <2>2, <2>4
    <3> QED
      BY <1>4, <3>1 DEF Answered
  <2> QED
    BY <2>1, <2>3, <2>4
<1> HIDE DEF Answered
<1> QED
  BY <1>0, <1>2, <1>3, <1>4 DEF TaskStep, Becomes, Binds

\* A waiting task starts to run with its first turn.
LEMMA FreshStep ==
  ASSUME GoesStep, Counted, Knowledge, Fresh, EnqueueAlone
  PROVE  Fresh'
<1>1. ASSUME NEW t \in Tasks, rows'[t].status \in {"absent", "queued"}
      PROVE  /\ rows'[t].turn = NoTurn
             /\ \A y \in Turns : outbox'[<<t, y>>].state = "absent"
             /\ \A p \in Requests : p[2] = t => proc'[p].pc # "bind"
             /\ rows'[t].status = "absent" => outbox'[<<t, NoTurn>>].state = "absent" /\ rows'[t].error = "none"
  <2>0. TaskStep(t) /\ TypeInv
    BY DEF GoesStep, Stage, TaskSteps
  <2>1. /\ rows[t].status \in {"absent", "queued"} /\ rows'[t].turn = rows[t].turn
        /\ rows'[t].status = "absent" => rows[t].status = "absent" /\ rows'[t].error = rows[t].error
    <3>1. ASSUME NEW p \in Requests, BindReceipt(p), p[2] = t, Becomes(t, rows[t].status, proc[p].turn, rows[t].error)
          PROVE  FALSE
      BY <1>1, <3>1 DEF BindReceipt, Becomes, Fresh
    <3> QED
      BY <1>1, <2>0, <3>1 DEF TaskStep, Becomes
  <2>2. rows'[t].turn = NoTurn
    BY <2>1 DEF Fresh
  <2>3. ASSUME NEW y \in Turns, outbox'[<<t, y>>].state # "absent" PROVE FALSE
    <3>1. outbox[<<t, y>>].state = "absent"
      BY <2>1 DEF Fresh
    <3>2. Resume(t)
      BY <2>3, <3>1, TaskMessage
    <3> QED
      BY <2>1, <3>2 DEF Resume, CanBeginAppServerResume
  <2>4. ASSUME NEW p \in Requests, p[2] = t, proc'[p].pc = "bind" PROVE FALSE
    BY <2>1, <2>2, <2>4, BindComes DEF Fresh
  <2>5. ASSUME rows'[t].status = "absent" PROVE outbox'[<<t, NoTurn>>].state = "absent" /\ rows'[t].error = "none"
    <3>1. outbox[<<t, NoTurn>>].state = "absent" /\ rows[t].status = "absent" /\ rows'[t].error = "none"
      BY <2>1, <2>5 DEF Fresh
    <3>2. ASSUME outbox'[<<t, NoTurn>>].state # "absent" PROVE FALSE
      <4>1. proc[<<"enqueue", t>>].pc = "send"
        BY <3>1, <3>2, NoTurnAssumption, TaskMessage
      <4> QED
        BY <3>1, <4>1 DEF EnqueueAlone, Sending
    <3> QED
      BY <3>1, <3>2
  <2> QED
    BY <2>2, <2>3, <2>4, <2>5
<1> QED
  BY <1>1 DEF Fresh

\* A message that a worker or the recovery delivers was delivered by it
\* before, or is that of a running task.
LEMMA PoolDelivers ==
  ASSUME GoesStep, NEW q \in Pool \cup {Recovery}, NEW t \in Tasks, NEW y \in Turns \cup {NoTurn},
         proc'[q].pc \in Delivering, proc'[q].key = <<t, y>>
  PROVE  (proc[q].pc \in Delivering /\ proc[q].key = <<t, y>>) \/ rows[t].status = "running"
<1>1. Delivers(q) /\ q \notin Senders \cup Requests
  BY KindsDiffer DEF GoesStep, Going, Goes
<1>2. CASE Enters(q)
  <2>1. Deliverable(<<t, y>>)
    BY <1>1, <1>2 DEF Enters
  <2> QED
    BY <2>1, TaskKey DEF Deliverable, IsFormal
<1> QED
  BY <1>1, <1>2 DEF Delivers

\* A worker delivers for running tasks; a queued task gets no turn but from
\* the request that sends its message.
LEMMA EnqueueAloneStep ==
  ASSUME GoesStep, Knowledge, Fresh, EnqueueAlone
  PROVE  EnqueueAlone'
<1> SUFFICES ASSUME NEW t \in Tasks, proc'[<<"enqueue", t>>].pc \in Sending
             PROVE  /\ rows'[t].status \in {"queued", "failed", "canceled", "interrupted"}
                    /\ rows'[t].error # "output_invalid"
                    /\ \A q \in Pool \cup {Recovery} :
                         proc'[q].pc \in Delivering => proc'[q].key # <<t, NoTurn>>
  BY DEF EnqueueAlone
<1> DEFINE e == <<"enqueue", t>>
<1>0. /\ TypeInv /\ TaskStep(t) /\ e \in Requests /\ e \in Procs /\ e \notin Pool \cup {Recovery}
      /\ rows \in [Tasks -> Row] /\ \A u \in Tasks : e = <<"enqueue", u>> => u = t
      /\ \A u \in Tasks : e # <<"resume", u>>
  BY KindsDiffer DEF GoesStep, Stage, TaskSteps, Requests, TypeInv, TypeOK
<1>1. CASE Enqueue(t)
  <2>1. /\ rows[t].status = "absent" /\ rows' = [rows EXCEPT ![t] = AdmitQueuedTask(@)]
        /\ \E r \in {[Idle EXCEPT !.pc = "send", !.key = <<t, NoTurn>>]} : proc' = [proc EXCEPT ![e] = r]
    BY <1>1 DEF Enqueue
  <2>2. rows'[t].status = "queued" /\ rows'[t].error = "none"
    <3>1. rows'[t] = AdmitQueuedTask(rows[t]) /\ rows[t] \in Row /\ rows[t].error = "none"
      BY <1>0, <2>1 DEF Fresh
    <3> QED
      BY <3>1, ProgressWrites DEF Written
  <2>3. ASSUME NEW q \in Pool \cup {Recovery}, proc'[q].pc \in Delivering, proc'[q].key = <<t, NoTurn>> PROVE FALSE
    <3>1. q \in Procs /\ q # e
      BY <1>0, KindsDiffer
    <3>2. proc'[q] = proc[q]
      BY <1>0, <2>1, <3>1, MovesTo
    <3> QED
      BY <2>1, <2>3, <3>1, <3>2 DEF Fresh, Knowledge, Knows
  <2> QED
    BY <2>2, <2>3
<1>2. CASE proc[e].pc \in Sending
  <2>1. /\ rows[t].status \in {"queued", "failed", "canceled", "interrupted"} /\ rows[t].error # "output_invalid"
        /\ \A q \in Pool \cup {Recovery} : proc[q].pc \in Delivering => proc[q].key # <<t, NoTurn>>
    BY <1>2 DEF EnqueueAlone
  <2>2. ASSUME NEW p \in Procs, Binds(p, t) PROVE FALSE
    <3>1. proc[p].pc \in Delivering /\ proc[p].key = <<t, NoTurn>> /\ (p \in Pool \cup {Recovery} \/ p = e)
      <4>1. p # <<"resume", t>>
        <5>1. ASSUME p = <<"resume", t>> PROVE FALSE
          <6>1. p \in Requests /\ proc[p].pc # "idle"
            BY <2>2, <5>1, BindsOf DEF Requests
          <6>2. p = <<"enqueue", t>>
            BY <1>0, <2>1, <2>2, <6>1, BindsOf, RequestOf
          <6> QED
            BY <5>1, <6>2
        <5> QED
          BY <5>1
      <4> QED
        BY <2>1, <2>2, <4>1, BindsOf DEF Delivering
    <3>2. proc'[p].pc \notin Sending
      BY <2>2, BindsOf DEF Sending, Delivering
    <3> QED
      BY <2>1, <3>1, <3>2
  <2>3. rows'[t].status \in {"queued", "failed", "canceled", "interrupted"} /\ rows'[t].error # "output_invalid"
    BY <1>0, <2>1, <2>2 DEF TaskStep, Becomes, Binds
  <2>4. ASSUME NEW q \in Pool \cup {Recovery}, proc'[q].pc \in Delivering, proc'[q].key = <<t, NoTurn>> PROVE FALSE
    BY <2>1, <2>4, PoolDelivers
  <2> QED
    BY <2>3, <2>4
<1> QED
  BY <1>0, <1>1, <1>2, SendingComes

\* ... and an answered task none but from the request that sends the answer.
LEMMA ResumeAloneStep ==
  ASSUME GoesStep, Knowledge, ResumeAlone, AnsweredOnce, BoundOnce
  PROVE  ResumeAlone'
<1> SUFFICES ASSUME NEW t \in Tasks, proc'[<<"resume", t>>].pc \in Sending
             PROVE  /\ rows'[t].status \notin {"running", "absent", "queued"}
                    /\ Answered(t)'
                    /\ \A q \in Pool \cup {Recovery}, y \in Turns :
                         proc'[q].pc \in Delivering => proc'[q].key # <<t, y>>
  BY DEF ResumeAlone
<1> DEFINE e == <<"resume", t>>
<1>0. /\ TypeInv /\ TaskStep(t) /\ e \in Requests /\ e \in Procs /\ e \notin Pool \cup {Recovery}
      /\ rows \in [Tasks -> Row] /\ \A u \in Tasks : e = <<"resume", u>> => u = t
      /\ \A u \in Tasks : e # <<"enqueue", u>>
  BY KindsDiffer DEF GoesStep, Stage, TaskSteps, Requests, TypeInv, TypeOK
<1>1. CASE Resume(t)
  <2>1. /\ rows[t].turn # NoTurn /\ rows' = [rows EXCEPT ![t] = BeginAppServerResume(@)] /\ Serving
        /\ outbox[<<t, rows[t].turn>>].state = "absent"
        /\ \E r \in {[Idle EXCEPT !.pc = "send", !.key = <<t, rows[t].turn>>]} : proc' = [proc EXCEPT ![e] = r]
    BY <1>1 DEF Resume, Insert
  <2>2. rows'[t].status = "resuming" /\ rows'[t].turn = NoTurn
    BY <1>0, <2>1, ProgressWrites DEF Written
  <2>3. Answered(t)'
    BY <2>2 DEF Answered
  <2>4. ASSUME NEW q \in Pool \cup {Recovery}, NEW y \in Turns, proc'[q].pc \in Delivering, proc'[q].key = <<t, y>>
        PROVE  FALSE
    <3>1. q \in Procs /\ q # e
      BY <1>0, KindsDiffer
    <3>2. proc'[q] = proc[q]
      BY <1>0, <2>1, <3>1, MovesTo
    <3>3. CASE q = Recovery
      BY <2>1, <2>4, <3>2, <3>3 DEF Serving, Delivering
    <3>4. CASE q \in Pool
      BY ZenonT(60), <2>1, <2>4, <3>2, <3>4 DEF AnsweredOnce, Answered
    <3> QED
      BY <3>3, <3>4
  <2> QED
    BY <2>2, <2>3, <2>4
<1>2. CASE proc[e].pc \in Sending
  <2>1. /\ rows[t].status \notin {"running", "absent", "queued"} /\ Answered(t)
        /\ \A q \in Pool \cup {Recovery}, y \in Turns : proc[q].pc \in Delivering => proc[q].key # <<t, y>>
    BY <1>2 DEF ResumeAlone
  <2>2. ASSUME NEW p \in Procs, Binds(p, t) PROVE FALSE
    <3>1. PICK y \in Turns : proc[p].key = <<t, y>>
      BY <2>1, <2>2, BindsOf
    <3>2. proc[p].pc \in Delivering /\ (p \in Pool \cup {Recovery} \/ p = e)
      <4>1. p # <<"enqueue", t>>
        <5>1. ASSUME p = <<"enqueue", t>> PROVE FALSE
          <6>1. p \in Requests /\ proc[p].pc # "idle"
            BY <2>2, <5>1, BindsOf DEF Requests
          <6>2. p = <<"resume", t>>
            BY <1>0, <3>1, <6>1, RequestOf
          <6> QED
            BY <5>1, <6>2
        <5> QED
          BY <5>1
      <4> QED
        BY <2>2, <4>1, BindsOf DEF Delivering
    <3>3. proc'[p].pc \notin Sending
      BY <2>2, BindsOf DEF Sending, Delivering
    <3> QED
      BY <2>1, <3>1, <3>2, <3>3
  <2>3. ~Restart
    <3>1. Restart => proc'[e] = Idle
      BY <1>0 DEF Restart
    <3> QED
      BY <3>1 DEF Idle, Sending, Delivering
  <2>4. rows'[t].status \notin {"running", "absent", "queued"}
    BY <1>0, <2>1, <2>2, <2>3 DEF TaskStep, Becomes, Binds
  <2>5. Answered(t)'
    BY <2>1, <2>2, AnsweredStep
  <2>6. ASSUME NEW q \in Pool \cup {Recovery}, NEW y \in Turns, proc'[q].pc \in Delivering, proc'[q].key = <<t, y>>
        PROVE  FALSE
    BY <2>1, <2>6, PoolDelivers
  <2> QED
    BY <2>4, <2>5, <2>6
<1> QED
  BY <1>0, <1>1, <1>2, SendingComes

\* A worker that handles an answer is in the critical section, and a turn is
\* bound there.
LEMMA AnsweredOnceStep ==
  ASSUME GoesStep, AnsweredOnce, BoundOnce, OneAnswer
  PROVE  AnsweredOnce'
<1> SUFFICES ASSUME NEW q \in Pool, NEW t \in Tasks, NEW y \in Turns,
                    \/ proc'[q].pc \in Delivering /\ proc'[q].key = <<t, y>>
                    \/ proc'[q].pc \in Listing /\ \E i \in DOMAIN proc'[q].todo : proc'[q].todo[i][1] = <<t, y>>
             PROVE  Answered(t)'
  BY DEF AnsweredOnce
<1>0. /\ Delivers(q) /\ Recalls(q) /\ TypeInv /\ q \in Procs /\ q \notin Senders \cup Requests /\ q # Recovery
  BY KindsDiffer DEF GoesStep, Stage, Going, Goes
<1>1. Answered(t)
  <2>1. CASE proc'[q].pc \in Delivering /\ proc'[q].key = <<t, y>>
    <3>1. CASE Enters(q)
      <4>1. proc[q].pc = "after" /\ proc[q].todo # <<>> /\ Head(proc[q].todo)[1] = <<t, y>>
        BY <1>0, <2>1, <3>1 DEF Enters
      <4>2. 1 \in DOMAIN proc[q].todo /\ proc[q].todo[1][1] = <<t, y>>
        BY <1>0, <4>1, HeadIn
      <4> QED
        BY <4>1, <4>2 DEF AnsweredOnce, Listing
    <3> QED
      BY <1>0, <2>1, <3>1 DEF Delivers, AnsweredOnce
  <2>2. ASSUME NEW i \in DOMAIN proc'[q].todo, proc'[q].todo[i][1] = <<t, y>>, proc'[q].pc \in Listing
        PROVE  Answered(t)
    <3>1. ASSUME NEW j \in DOMAIN proc[q].todo, proc'[q].todo[i] = proc[q].todo[j], proc[q].pc \in Listing
          PROVE  Answered(t)
      BY <2>2, <3>1 DEF AnsweredOnce
    <3>2. CASE outbox[<<t, y>>].state = "queued"
      BY <3>2 DEF OneAnswer, PendingKey
    <3> QED
      BY <1>0, <2>2, <3>1, <3>2 DEF Recalls
  <2> QED
    BY <2>1, <2>2
<1>2. ASSUME NEW p \in Procs, Binds(p, t) PROVE FALSE
  BY <1>0, <1>2, BindsOf
<1> QED
  BY <1>1, <1>2, AnsweredStep

\* The turn of a receipt is left only by its answer.
LEMMA BoundOnceStep ==
  ASSUME GoesStep, Counted, Knowledge, Fresh, BoundOnce, OneAnswer
  PROVE  BoundOnce'
<1> SUFFICES ASSUME NEW p \in Requests, proc'[p].pc = "bind"
             PROVE  rows'[p[2]].turn = proc'[p].turn \/ outbox'[<<p[2], proc'[p].turn>>].state # "absent"
  BY DEF BoundOnce
<1> DEFINE t == p[2]
           x == proc[p].turn
<1>0. /\ TypeInv /\ t \in Tasks /\ p \in Procs /\ OutboxSteps /\ TaskStep(t)
      /\ outbox \in [Keys -> [state : OutboxStates, turn : Turns \cup {NoTurn}]]
  BY KindsDiffer DEF GoesStep, Stage, TaskSteps, Requests, TypeInv, TypeOK
<1>1. CASE proc[p].pc = "bind" /\ proc'[p].turn = x
  <2>1. x \in Turns /\ <<t, x>> \in Keys
    BY <1>0, <1>1, TaskKey DEF GoesStep, Stage, StartedFor
  <2>2. CASE outbox[<<t, x>>].state # "absent"
    BY <1>0, <1>1, <2>1, <2>2, MessageStays
  <2>3. CASE rows[t].turn = x /\ outbox[<<t, x>>].state = "absent"
    <3>1. CASE Resume(t)
      <4>1. Insert(<<t, x>>, "queued")
        BY <2>3, <3>1 DEF Resume
      <4>2. outbox'[<<t, x>>].state = "queued"
        BY <1>0, <2>1, <4>1 DEF Insert
      <4> QED
        BY <1>1, <4>2
    <3>2. ASSUME NEW q \in Procs, Binds(q, t) PROVE FALSE
      <4>1. PICK y \in Turns : proc[q].key = <<t, y>>
        BY <1>0, <1>1, <3>2, BindsOf DEF Fresh
      <4>2. PendingKey(<<t, y>>)
        <5>1. proc[q].pc = "bindTask"
          BY <3>2 DEF Binds, BindTask
        <5> QED
          BY <4>1, <5>1 DEF PendingKey
      <4>3. Answered(t)
        BY <1>0, <4>1, <4>2 DEF OneAnswer
      <4> QED
        BY <2>1, <2>3, <4>3, NoTurnAssumption DEF Answered
    <3>3. ~Resume(t) => rows'[t].turn = x
      BY <1>0, <2>1, <2>3, <3>2, NoTurnAssumption DEF TaskStep, Becomes, Binds
    <3> QED
      BY <1>1, <3>1, <3>3
  <2>4. rows[t].turn = x \/ outbox[<<t, x>>].state # "absent"
    BY <1>1 DEF BoundOnce
  <2> QED
    BY <2>2, <2>3, <2>4
<1>2. CASE rows'[t].turn = proc'[p].turn
  BY <1>2
<1> QED
  BY <1>1, <1>2, BindComes

\* An answer that can still start its turn could do so before, or is new.
LEMMA PendingComes ==
  ASSUME GoesStep, Knowledge, NEW t \in Tasks, NEW y \in Turns, PendingKey(<<t, y>>)'
  PROVE  PendingKey(<<t, y>>) \/ (Resume(t) /\ y = rows[t].turn /\ outbox[<<t, y>>].state = "absent")
<1> DEFINE k == <<t, y>>
<1>0. k \in Keys /\ OutboxStep(k) /\ TypeInv /\ TypeInv' /\ [Next]_vars
  BY TaskKey DEF GoesStep, OutboxSteps, Stage
<1>1. CASE outbox'[k].state \in {"pending", "queued", "sending"}
  <2>1. CASE outbox[k].state = "absent"
    <3>1. outbox'[k].state # "absent"
      BY <1>1
    <3> QED
      BY <2>1, <3>1, TaskMessage
  <2>2. CASE outbox[k].state # "absent"
    <3>1. outbox[k].state \in {"pending", "queued", "sending"}
      BY <1>0, <1>1, <2>2 DEF OutboxStep
    <3> QED
      BY <3>1 DEF PendingKey
  <2> QED
    BY <2>1, <2>2
<1>2. ASSUME NEW q \in Procs, proc'[q].pc \in {"status", "bindTask"}, proc'[q].key = k
      PROVE  PendingKey(k)
  <2>1. CASE proc'[q] = proc[q]
    BY <1>2, <2>1 DEF PendingKey
  <2>2. CASE Accept(q) /\ proc'[q].pc = "status" /\ KeepsCall(q)
    <3>1. proc[q].key = k /\ proc[q].pc \in Delivering /\ mutex = q
      BY <1>2, <2>2 DEF KeepsCall, Accept, Delivering
    <3>2. ~Exit(q, FALSE)
      BY <1>0, <2>2, <3>1, ExitLeaves DEF Calling
    <3> QED
      BY <2>2, <3>1, <3>2 DEF Accept, PendingKey
  <2>3. CASE MarkRunning(q) /\ KeepsCall(q)
    BY <1>2, <2>3 DEF MarkRunning, KeepsCall, PendingKey
  <2> QED
    BY <1>0, <1>2, <2>1, <2>2, <2>3, AcceptStep
<1> QED
  BY <1>1, <1>2 DEF PendingKey

\* A task is answered again after its answer has been delivered.
LEMMA OneAnswerStep ==
  ASSUME GoesStep, Knowledge, Fresh, BoundOnce, OneAnswer
  PROVE  OneAnswer'
<1> SUFFICES ASSUME NEW t \in Tasks, NEW y \in Turns, PendingKey(<<t, y>>)'
             PROVE  Answered(t)' /\ \A z \in Turns : PendingKey(<<t, z>>)' => z = y
  BY DEF OneAnswer
<1>0. /\ TypeInv /\ rows \in [Tasks -> Row] /\ <<t, y>> \in Keys
  BY TaskKey DEF GoesStep, Stage, TypeInv, TypeOK
<1>1. Answered(t)'
  <2>1. CASE PendingKey(<<t, y>>)
    <3>1. Answered(t)
      BY <2>1 DEF OneAnswer
    <3>2. ASSUME NEW p \in Procs, Binds(p, t) PROVE FALSE
      <4>1. /\ proc[p].pc = "bindTask" /\ outbox' = outbox
            /\ \A q \in Procs : proc'[q].pc \notin Delivering
        BY <3>2, BindsOf
      <4>2. outbox[<<t, y>>].state \in {"pending", "queued", "sending"}
        BY <4>1 DEF PendingKey, Delivering
      <4>3. PICK z \in Turns : proc[p].key = <<t, z>>
        BY <3>2, <4>2, BindsOf DEF Fresh
      <4>4. z = y
        BY <2>1, <4>1, <4>3 DEF OneAnswer, PendingKey
      <4> QED
        BY <4>1, <4>2, <4>3, <4>4 DEF Knowledge, Knows
    <3> QED
      BY <3>1, <3>2, AnsweredStep
  <2>2. CASE Resume(t)
    <3>1. rows'[t] = BeginAppServerResume(rows[t]) /\ rows[t] \in Row
      BY <1>0, <2>2 DEF Resume
    <3>2. rows'[t].turn = NoTurn
      BY <3>1, ProgressWrites DEF Written
    <3> QED
      BY <3>2 DEF Answered
  <2> QED
    BY <2>1, <2>2, PendingComes
<1>2. ASSUME NEW z \in Turns, PendingKey(<<t, z>>)' PROVE z = y
  <2>1. ASSUME NEW u \in Turns, PendingKey(<<t, u>>), Resume(t), outbox[<<t, rows[t].turn>>].state = "absent" PROVE FALSE
    <3>1. Answered(t)
      BY <2>1 DEF OneAnswer
    <3> QED
      BY <2>1, <3>1 DEF Answered, Resume
  <2>2. CASE PendingKey(<<t, y>>) /\ PendingKey(<<t, z>>)
    BY <2>2 DEF OneAnswer
  <2>3. \/ PendingKey(<<t, y>>)
        \/ Resume(t) /\ y = rows[t].turn /\ outbox[<<t, rows[t].turn>>].state = "absent"
    BY PendingComes
  <2>4. \/ PendingKey(<<t, z>>)
        \/ Resume(t) /\ z = rows[t].turn /\ outbox[<<t, rows[t].turn>>].state = "absent"
    BY <1>2, PendingComes
  <2> QED
    BY <2>1, <2>2, <2>3, <2>4
<1> QED
  BY <1>1, <1>2

-----------------------------------------------------------------------------
(* The invariant                                                           *)

\* After a restart nobody has a message at hand; what is stored stays.
LEMMA RestartMessages ==
  ASSUME Stage, MsgInv, Restart
  PROVE  MsgInv'
<1>0. /\ rows \in [Tasks -> Row] /\ outbox' = outbox /\ sent' = sent /\ turnRow' = turnRow
      /\ \A p \in Procs : /\ proc'[p].pc = (IF p = Recovery THEN "reset" ELSE "idle")
                          /\ DOMAIN proc'[p].todo = {}
  <2>1. Idle.pc = "idle" /\ Idle.todo = <<>> /\ [Idle EXCEPT !.pc = "reset"].pc = "reset"
        /\ [Idle EXCEPT !.pc = "reset"].todo = <<>>
    BY DEF Idle
  <2>2. \A p \in Procs : proc'[p] = IF p = Recovery THEN [Idle EXCEPT !.pc = "reset"] ELSE Idle
    BY DEF Restart
  <2> QED
    BY <2>1, <2>2, EmptyList DEF Restart, Stage, TypeInv, TypeOK
<1>1. ASSUME NEW t \in Tasks
      PROVE  /\ rows'[t].turn = rows[t].turn
             /\ rows'[t].status \in {"absent", "queued"} =>
                  rows'[t].status = rows[t].status /\ rows'[t].error = rows[t].error
  <2> DEFINE inbox_ == HasOpenInbox(rows[t].turn)
             outbox_ == HasUnsent(t)
  <2>1. rows'[t] = InterruptInFlight(rows[t], inbox_, outbox_) /\ rows[t] \in Row
    BY <1>0 DEF Restart
  <2>2. inbox_ \in BOOLEAN /\ outbox_ \in BOOLEAN
    BY DEF HasOpenInbox, HasUnsent
  <2> HIDE DEF inbox_, outbox_
  <2> QED
    BY <2>1, <2>2, RestartWrites
<1>2. \A p \in Senders \cup Requests \cup Retries \cup Pool : p \in Procs /\ p # Recovery
  BY KindsDiffer
<1>3. RequestsServe' /\ Counted'
  BY <1>0, <1>2 DEF RequestsServe, MsgInv, Counted, CountedOf
<1>4. Knowledge'
  BY <1>0 DEF Knowledge, Knows, Delivering, Pre
<1>5. Fresh'
  BY <1>0, <1>1, <1>2 DEF MsgInv, Fresh
<1>6. EnqueueAlone' /\ ResumeAlone' /\ BoundOnce'
  <2>1. \A t \in Tasks : <<"enqueue", t>> \in Requests /\ <<"resume", t>> \in Requests
    BY DEF Requests
  <2> QED
    BY ZenonT(60), <1>0, <1>2, <2>1 DEF EnqueueAlone, ResumeAlone, BoundOnce, Sending, Delivering
<1>7. AnsweredOnce'
  BY <1>0, <1>2 DEF AnsweredOnce, Delivering, Listing
<1>8. OneAnswer'
  <2>1. \A t \in Tasks, y \in Turns : PendingKey(<<t, y>>)' => PendingKey(<<t, y>>)
    BY <1>0 DEF PendingKey
  <2>2. \A t \in Tasks : Answered(t) => Answered(t)'
    BY <1>0, <1>1 DEF Answered
  <2> QED
    BY <2>1, <2>2 DEF MsgInv, OneAnswer
<1> QED
  BY <1>3, <1>4, <1>5, <1>6, <1>7, <1>8 DEF MsgInv

\* The invariant holds before anything is sent.
LEMMA InitMessages ==
  ASSUME Init
  PROVE  MsgInv
<1>0. /\ \A k \in Keys : outbox[k].state = "absent" /\ sent[k] = 0
      /\ \A p \in Procs : proc[p].pc = "idle" /\ DOMAIN proc[p].todo = {}
      /\ \A t \in Tasks : rows[t].turn = NoTurn /\ rows[t].error = "none" /\ rows[t].status = "absent"
  BY EmptyList DEF Init, Idle, AbsentRow
<1>1. /\ \A p \in Senders \cup Requests \cup Retries \cup Pool \cup {Recovery} : p \in Procs
      /\ \A t \in Tasks : <<"enqueue", t>> \in Requests /\ <<"resume", t>> \in Requests
      /\ \A t \in Tasks, y \in Turns \cup {NoTurn} : <<t, y>> \in Keys
  BY KindsDiffer, TaskKey DEF Requests
<1>2. RequestsServe /\ Counted
  BY <1>0, <1>1 DEF RequestsServe, Counted, CountedOf
<1>3. Knowledge
  BY <1>0 DEF Knowledge, Knows, Delivering, Pre
<1>4. Fresh
  BY <1>0, <1>1 DEF Fresh
<1>5. EnqueueAlone /\ ResumeAlone /\ BoundOnce
  BY <1>0, <1>1 DEF EnqueueAlone, ResumeAlone, BoundOnce, Sending, Delivering
<1>6. AnsweredOnce
  BY <1>0, <1>1 DEF AnsweredOnce, Delivering, Listing
<1>7. OneAnswer
  BY <1>0, <1>1 DEF OneAnswer, PendingKey
<1> QED
  BY <1>2, <1>3, <1>4, <1>5, <1>6, <1>7 DEF MsgInv

\* Every step keeps the invariant.
LEMMA MessagesStep ==
  ASSUME Stage, Stage', MsgInv, [Next]_vars
  PROVE  MsgInv'
<1>1. CASE Restart
  BY <1>1, RestartMessages
<1>2. CASE GoesStep
  <2>1. /\ RequestsServe /\ Counted /\ Knowledge /\ Fresh
        /\ EnqueueAlone /\ ResumeAlone /\ AnsweredOnce /\ BoundOnce /\ OneAnswer
    BY DEF MsgInv
  <2> QED
    BY <1>2, <2>1, RequestsServeStep, CountedStep, KnowledgeStep, FreshStep, EnqueueAloneStep, ResumeAloneStep,
       AnsweredOnceStep, BoundOnceStep, OneAnswerStep DEF MsgInv
<1> QED
  BY <1>1, <1>2, NextGoesStep

\* The invariant holds in every reachable state.
LEMMA MessagesInvariant == Spec => []MsgInv
<1>1. Init => MsgInv
  BY InitMessages
<1>2. Stage /\ Stage' /\ MsgInv /\ [Next]_vars => MsgInv'
  BY MessagesStep
<1>3. TypeInv /\ AppServerTasks /\ Locked /\ OnServer /\ OneOpen /\ StartedFor => Stage
  BY DEF Stage
<1>4. Spec => []Stage
  BY <1>3, StageInvariant, StartedForInvariant, PTL
<1> QED
  BY <1>1, <1>2, <1>4, PTL DEF Spec

\* The App Server accepts a message at most once (SentAtMostOnce), whatever
\* requests, workers, retries and restarts do with it.
THEOREM SentOnce == Spec => []SentAtMostOnce
<1>1. MsgInv => SentAtMostOnce
  BY DEF MsgInv, Counted, CountedOf, SentAtMostOnce
<1> QED
  BY <1>1, MessagesInvariant, PTL

\* A message the console calls accepted was accepted by the App Server, once,
\* and the turn of its receipt was recorded (AcceptedWasSent).
THEOREM AcceptedSent == Spec => []AcceptedWasSent
<1>1. MsgInv => AcceptedWasSent
  BY DEF MsgInv, Counted, CountedOf, AcceptedWasSent
<1> QED
  BY <1>1, MessagesInvariant, PTL

-----------------------------------------------------------------------------
(* The status of the conversation                                          *)

\* A completion follows the row of its turn; a turn is recorded once, and while
\* the message that started or joined it is accepted, it is open and of this process.
Recorded ==
  /\ \A x \in Turns : inbox[x] # "none" => turnRow[x] # "none"
  /\ \A p \in Procs \ Retries : proc[p].pc \in AtEnd => turnRow[proc[p].turn] # "none"
  /\ \A p \in Pool : proc[p].pc \in AtEnd => inbox[proc[p].turn] # "none"
  /\ \A p \in Procs : proc[p].pc = "record" => turnRow[proc[p].turn] = "none" /\ proc[p].turn \notin epoch
  /\ \A p \in Procs : proc[p].pc \in {"accept", "status"} =>
       proc[p].turn \in ActiveTurns /\ proc[p].turn \notin epoch

\* Whoever is past closing a turn left it closed, and so is a turn whose completion is done.
TurnsClosed ==
  /\ \A p \in Pool : proc[p].pc \in {"closeStatus", "done"} => turnRow[proc[p].turn] # "running"
  /\ \A x \in Turns : inbox[x] = "done" => turnRow[x] # "running"

\* A running conversation has an open turn, or a completion that nobody has used to make it idle.
RunningHasCause ==
  status = "running" =>
    HasActive \/ \E x \in Turns : HasOpenInbox(x) /\ \A p \in Pool : ~(proc[p].pc = "done" /\ proc[p].turn = x)

StatusInv == Recorded /\ TurnsClosed /\ RunningHasCause

\* Who closes an open turn.
LEMMA ClosesTurn ==
  ASSUME TypeInv, TypeInv', [Next]_vars, NEW x \in Turns, turnRow[x] = "running", turnRow'[x] # "running"
  PROVE  \/ \E p \in Procs : CloseTurn(p) /\ proc[p].turn = x
         \/ InterruptTurns /\ x \in Unreconciled
<1>0. turnRow \in [Turns -> {"none", "running", "completed", "failed"}]
  BY DEF TypeInv, TypeOK
<1>1. ASSUME NEW p \in Procs, Onstage(p), ~CloseTurn(p), ~RecordTurn(p) PROVE FALSE
  BY <1>1 DEF Onstage, MarkSending, Decide, SteerAccepted, SteerStale, StartAccepted, CallRefused, ThreadMissing,
     Accept, MarkRunning, BindTask, store
<1>2. ASSUME NEW p \in Procs, RecordTurn(p) PROVE FALSE
  BY <1>0, <1>2 DEF RecordTurn
<1>3. ASSUME NEW p \in Procs, CloseTurn(p) PROVE proc[p].turn = x
  BY <1>0, <1>3 DEF CloseTurn
<1>4. CASE InterruptTurns
  BY <1>0, <1>4 DEF InterruptTurns
<1>5. CASE (\E y \in Turns : ServerEnds(y) \/ Notify(y)) \/ Restart
  BY <1>5 DEF ServerEnds, Notify, Restart, store
<1>6. CASE Offstage
  BY <1>6 DEF Offstage
<1> QED
  BY <1>1, <1>2, <1>3, <1>4, <1>5, <1>6, NextStage

\* The turns that existed at the last restart.
LEMMA EpochStep ==
  ASSUME TypeInv, TypeInv', [Next]_vars
  PROVE  epoch' = epoch \/ Restart
<1>1. ASSUME NEW p \in Procs, Onstage(p) PROVE epoch' = epoch
  BY <1>1 DEF Onstage, MarkSending, Decide, SteerAccepted, SteerStale, StartAccepted, CallRefused, ThreadMissing,
     RecordTurn, Accept, MarkRunning, BindTask, CloseTurn
<1>2. CASE (\E y \in Turns : ServerEnds(y) \/ Notify(y)) \/ InterruptTurns
  BY <1>2 DEF ServerEnds, Notify, InterruptTurns
<1>3. CASE Offstage
  BY <1>3 DEF Offstage
<1> QED
  BY <1>1, <1>2, <1>3, NextStage

\* The completions: none is lost, and a worker that has closed the turn ends one.
LEMMA InboxMoves ==
  ASSUME TypeInv, [Next]_vars, NEW x \in Turns
  PROVE  \/ inbox'[x] = inbox[x]
         \/ inbox'[x] \in {"pending", "processing"}
         \/ \E p \in Procs : CompleteCompletion(p) /\ proc[p].turn = x
<1> DEFINE Moves == \/ inbox'[x] = inbox[x]
                    \/ inbox'[x] \in {"pending", "processing"}
                    \/ \E p \in Procs : CompleteCompletion(p) /\ proc[p].turn = x
<1>0. inbox \in [Turns -> {"none", "pending", "processing", "done"}]
  BY DEF TypeInv, TypeOK
<1>1. CASE inbox' = inbox
  BY <1>1
<1>2. ASSUME NEW p \in Procs, RetryCompletion(p) \/ CompleteCompletion(p) PROVE Moves
  BY <1>0, <1>2 DEF RetryCompletion, CompleteCompletion
<1>3. CASE PersistCompletion
  BY <1>0, <1>3 DEF PersistCompletion
<1>4. ASSUME NEW w \in Workers, NEW y \in Turns, Claim(w, y) PROVE Moves
  BY <1>0, <1>4 DEF Claim
<1>5. ASSUME NEW y \in Turns, RequeueStale(y) PROVE Moves
  BY <1>0, <1>5 DEF RequeueStale
<1>6. CASE ResetProcessing
  BY <1>0, <1>6 DEF ResetProcessing
<1>7. ASSUME NEW p \in Procs, Step(p), ~RetryCompletion(p), ~CompleteCompletion(p) PROVE inbox' = inbox
  <2>1. CASE \/ SendTask(p) \/ DeliverTask(p) \/ AcquireLease(p) \/ MarkSending(p) \/ Decide(p)
             \/ SteerAccepted(p) \/ SteerStale(p) \/ StartAccepted(p) \/ CallRefused(p) \/ ThreadMissing(p)
             \/ RecordTurn(p) \/ Accept(p) \/ MarkRunning(p) \/ BindTask(p) \/ Refuse(p)
    BY <2>1 DEF store, SendTask, DeliverTask, AcquireLease, MarkSending, Decide, SteerAccepted, SteerStale,
       StartAccepted, CallRefused, ThreadMissing, RecordTurn, Accept, MarkRunning, BindTask, Refuse
  <2>2. CASE \/ FailDelivery(p) \/ FailTaskDelivery(p) \/ FailRow(p) \/ BindReceipt(p)
             \/ Check(p) \/ CompleteTurn(p) \/ ResultRejected(p) \/ ResultAccepted(p) \/ WriteResult(p)
             \/ FailTurn(p) \/ CloseTurn(p) \/ CloseStatus(p)
             \/ ListPending(p) \/ NextPending(p) \/ ListFailed(p) \/ SweepFailed(p)
    BY <2>2 DEF store, FailDelivery, FailTaskDelivery, FailRow, BindReceipt, Check, CompleteTurn,
       ResultRejected, ResultAccepted, WriteResult, FailTurn, CloseTurn, CloseStatus, ListPending,
       NextPending, ListFailed, SweepFailed
  <2> QED
    BY <1>7, <2>1, <2>2 DEF Step
<1>8. ASSUME NEW c \in Clients, Send(c) \/ Deliver(c) PROVE inbox' = inbox
  BY <1>8 DEF Send, Deliver, store
<1>9. ASSUME NEW t \in Tasks, Enqueue(t) \/ Resume(t) \/ Cancel(t) \/ RetryOutput(t) PROVE inbox' = inbox
  BY <1>9 DEF Enqueue, Resume, Cancel, RetryOutput
<1>10. ASSUME NEW y \in Turns, ServerEnds(y) \/ Notify(y) PROVE inbox' = inbox
  BY <1>10 DEF ServerEnds, Notify, store
<1>11. CASE \/ UNCHANGED vars \/ NotifyFailure \/ ExpireLease \/ Restart \/ InterruptTurns \/ ListRecoverable
            \/ RecoverSending \/ RecoverUnsent \/ EndRecovery
  BY <1>1, <1>11 DEF vars, store, NotifyFailure, ExpireLease, Restart, InterruptTurns, ListRecoverable,
     RecoverSending, RecoverUnsent, EndRecovery
<1> QED
  BY <1>1, <1>2, <1>3, <1>4, <1>5, <1>6, <1>7, <1>8, <1>9, <1>10, <1>11 DEF Next, Notifying, Recovering

\* Only a delivery makes the conversation running.
LEMMA StatusStep ==
  ASSUME [Next]_vars, status' = "running"
  PROVE  status = "running" \/ \E p \in Procs : MarkRunning(p)
<1>1. ASSUME NEW p \in Procs, Step(p), ~MarkRunning(p) PROVE status' = status \/ status' = "idle"
  <2>1. CASE \/ SendTask(p) \/ DeliverTask(p) \/ AcquireLease(p) \/ MarkSending(p) \/ Decide(p)
             \/ SteerAccepted(p) \/ SteerStale(p) \/ StartAccepted(p) \/ CallRefused(p) \/ ThreadMissing(p)
             \/ RecordTurn(p) \/ Accept(p) \/ BindTask(p) \/ Refuse(p)
    BY <2>1 DEF store, SendTask, DeliverTask, AcquireLease, MarkSending, Decide, SteerAccepted, SteerStale,
       StartAccepted, CallRefused, ThreadMissing, RecordTurn, Accept, BindTask, Refuse
  <2>2. CASE \/ FailDelivery(p) \/ FailTaskDelivery(p) \/ FailRow(p) \/ BindReceipt(p)
             \/ Check(p) \/ CompleteTurn(p) \/ ResultRejected(p) \/ ResultAccepted(p) \/ WriteResult(p)
             \/ FailTurn(p) \/ RetryCompletion(p) \/ CloseTurn(p) \/ CloseStatus(p) \/ CompleteCompletion(p)
             \/ ListPending(p) \/ NextPending(p) \/ ListFailed(p) \/ SweepFailed(p)
    BY <2>2 DEF store, FailDelivery, FailTaskDelivery, FailRow, BindReceipt, Check, CompleteTurn,
       ResultRejected, ResultAccepted, WriteResult, FailTurn, RetryCompletion, CloseTurn, CloseStatus,
       CompleteCompletion, ListPending, NextPending, ListFailed, SweepFailed
  <2> QED
    BY <1>1, <2>1, <2>2 DEF Step
<1>2. ASSUME NEW c \in Clients, Send(c) \/ Deliver(c) PROVE status' = status
  BY <1>2 DEF Send, Deliver, store
<1>3. ASSUME NEW t \in Tasks, Enqueue(t) \/ Resume(t) \/ Cancel(t) \/ RetryOutput(t) PROVE status' = status
  BY <1>3 DEF Enqueue, Resume, Cancel, RetryOutput
<1>4. ASSUME NEW w \in Workers, NEW x \in Turns, Claim(w, x) PROVE status' = status
  BY <1>4 DEF Claim
<1>5. ASSUME NEW x \in Turns, ServerEnds(x) \/ RequeueStale(x) \/ Notify(x) PROVE status' = status
  BY <1>5 DEF ServerEnds, RequeueStale, Notify, store
<1>6. CASE NotifyFailure \/ PersistCompletion \/ ExpireLease \/ Restart \/ UNCHANGED vars
  BY <1>6 DEF NotifyFailure, PersistCompletion, ExpireLease, Restart, vars, store
<1>7. CASE ResetProcessing \/ InterruptTurns \/ ListRecoverable \/ RecoverSending \/ RecoverUnsent \/ EndRecovery
  BY <1>7 DEF ResetProcessing, InterruptTurns, ListRecoverable, RecoverSending, RecoverUnsent, EndRecovery, store
<1> QED
  BY <1>1, <1>2, <1>3, <1>4, <1>5, <1>6, <1>7 DEF Next, Notifying, Recovering

\* A message is about to be accepted after its turn was recorded or joined.
LEMMA AcceptComes ==
  ASSUME TypeInv, TypeInv', [Next]_vars, NEW p \in Procs, proc'[p].pc \in {"accept", "status"}
  PROVE  \/ proc'[p] = proc[p]
         \/ SteerAccepted(p) \/ RecordTurn(p) \/ Accept(p)
<1>0. {"accept", "status"} \subseteq Calling
  BY DEF Calling
<1>1. CASE Offstage
  BY <1>0, <1>1 DEF Offstage, OneMoves
<1>2. ASSUME NEW q \in Procs, Onstage(q)
      PROVE  proc'[p] = proc[p] \/ SteerAccepted(p) \/ RecordTurn(p) \/ Accept(p)
  <2>1. CASE q # p
    BY <1>2, <2>1, CallSteps DEF Onstage, OneMoves
  <2>2. CASE q = p
    BY <1>0, <1>2, <2>2, CallSteps DEF Onstage, Calling
  <2> QED
    BY <2>1, <2>2
<1>3. CASE (\E x \in Turns : ServerEnds(x) \/ Notify(x)) \/ InterruptTurns
  <2>1. Notifier \in Procs /\ Recovery \in Procs
    BY KindsDiffer
  <2> QED
    BY <1>3, <2>1, RestMoves DEF OneMoves
<1>4. CASE Restart
  BY <1>4 DEF Restart, Idle
<1> QED
  BY <1>1, <1>2, <1>3, <1>4, NextStage

\* A step of one process leaves the others.
LEMMA OthersStay ==
  ASSUME TypeInv, NEW p \in Procs, Step(p), NEW q \in Procs \ {p}
  PROVE  proc'[q] = proc[q]
<1>0. proc \in [Procs -> Proc]
  BY ProcType
<1>1. CASE SendTask(p) \/ DeliverTask(p) \/ FailDelivery(p) \/ FailTaskDelivery(p) \/ FailRow(p) \/ BindReceipt(p)
  BY <1>0, <1>1 DEF SendTask, DeliverTask, FailDelivery, FailTaskDelivery, FailRow, BindReceipt, Goto, Finish
<1>2. CASE AcquireLease(p) \/ MarkSending(p) \/ Decide(p) \/ SteerAccepted(p) \/ SteerStale(p)
  BY <1>0, <1>2 DEF AcquireLease, MarkSending, Decide, SteerAccepted, SteerStale, Goto, Exit
<1>3. CASE StartAccepted(p) \/ CallRefused(p) \/ ThreadMissing(p) \/ RecordTurn(p) \/ Accept(p) \/ MarkRunning(p)
             \/ BindTask(p) \/ Refuse(p)
  BY <1>0, <1>3 DEF StartAccepted, CallRefused, ThreadMissing, RecordTurn, Accept, MarkRunning, BindTask, Refuse,
     Goto, Exit
<1>4. CASE Check(p) \/ CompleteTurn(p) \/ ResultRejected(p) \/ ResultAccepted(p) \/ WriteResult(p) \/ FailTurn(p)
  BY <1>0, <1>4 DEF Check, CompleteTurn, ResultRejected, ResultAccepted, WriteResult, FailTurn, AfterResult, Goto
<1>5. CASE RetryCompletion(p) \/ CloseTurn(p) \/ CloseStatus(p) \/ CompleteCompletion(p)
  BY <1>0, <1>5 DEF RetryCompletion, CloseTurn, CloseStatus, CompleteCompletion, Goto, Finish
<1>6. CASE ListPending(p) \/ NextPending(p) \/ ListFailed(p) \/ SweepFailed(p)
  BY <1>0, <1>6 DEF ListPending, NextPending, ListFailed, SweepFailed, Finish
<1> QED
  BY <1>1, <1>2, <1>3, <1>4, <1>5, <1>6 DEF Step

\* A worker gets to the end of a completion by closing the turn.
LEMMA ClosingComes ==
  ASSUME TypeInv, TypeInv', [Next]_vars, NEW p \in Pool, proc'[p].pc \in {"closeStatus", "done"}
  PROVE  proc'[p] = proc[p] \/ CloseTurn(p) \/ CloseStatus(p)
<1>0. /\ p \in Procs /\ p \notin Senders \cup Requests \cup Retries \cup {Notifier, Recovery}
      /\ proc \in [Procs -> Proc] /\ proc[p] \in Proc
  BY KindsDiffer, ProcType
<1>1. ASSUME NEW q \in Procs, Step(q) PROVE proc'[p] = proc[p] \/ CloseTurn(p) \/ CloseStatus(p)
  <2>1. CASE q # p
    BY <1>0, <1>1, <2>1, OthersStay
  <2>2. ASSUME q = p, \/ AcquireLease(p) \/ MarkSending(p) \/ Decide(p) \/ SteerAccepted(p) \/ SteerStale(p)
                      \/ StartAccepted(p) \/ CallRefused(p) \/ ThreadMissing(p) \/ RecordTurn(p) \/ Accept(p)
                      \/ MarkRunning(p) \/ BindTask(p) \/ Refuse(p)
        PROVE  FALSE
    <3>1. proc[p].pc \in Delivering /\ mutex = p
      BY <2>2 DEF AcquireLease, MarkSending, Decide, SteerAccepted, SteerStale, StartAccepted, CallRefused,
         ThreadMissing, RecordTurn, Accept, MarkRunning, BindTask, Refuse, Delivering
    <3>2. ASSUME NEW ok \in BOOLEAN, Exit(p, ok) PROVE FALSE
      BY <1>0, <3>1, <3>2, ExitMoves, IdleHolds
    <3>3. ASSUME NEW pc, Goto(p, pc), pc \in Delivering PROVE FALSE
      BY <1>0, <3>3, GotoMoves DEF Delivering
    <3>4. CASE AcquireLease(p) \/ Refuse(p)
      BY <3>2, <3>3, <3>4 DEF AcquireLease, Refuse, Delivering
    <3>5. CASE Accept(p) \/ MarkRunning(p) \/ BindTask(p)
      BY <3>2, <3>3, <3>5 DEF Accept, MarkRunning, BindTask, Delivering
    <3>6. CASE CallRefused(p) \/ ThreadMissing(p) \/ RecordTurn(p) \/ SteerAccepted(p)
      BY <3>3, <3>6 DEF CallRefused, ThreadMissing, RecordTurn, SteerAccepted, Delivering
    <3>7. CASE MarkSending(p) \/ Decide(p)
      <4>1. CASE \E ok \in BOOLEAN : Exit(p, ok)
        BY <3>2, <4>1
      <4>2. CASE proc'[p].pc \in Delivering
        BY <1>0, <4>2 DEF Delivering
      <4>3. CASE ~\E ok \in BOOLEAN : Exit(p, ok)
        <5>1. CASE \E pc \in Delivering : Goto(p, pc)
          BY <3>3, <5>1
        <5>2. CASE proc' = [proc EXCEPT ![p].pc = "decide", ![p].seen = "sending"]
          BY <1>0, <4>2, <5>2 DEF Proc, Delivering
        <5>3. CASE proc' = [proc EXCEPT ![p].pc = "steer", ![p].turn = ActiveTurn]
          BY <1>0, <4>2, <5>3 DEF Proc, Delivering
        <5>4. {"decide", "refuse", "start"} \subseteq Delivering /\ TRUE \in BOOLEAN /\ FALSE \in BOOLEAN
          BY DEF Delivering
        <5>5. CASE MarkSending(p)
          BY <4>3, <5>1, <5>2, <5>4, <5>5 DEF MarkSending
        <5>6. CASE Decide(p)
          BY <4>3, <5>1, <5>3, <5>4, <5>6 DEF Decide
        <5> QED
          BY <3>7, <5>5, <5>6
      <4> QED
        BY <4>1, <4>3
    <3>8. CASE SteerStale(p) \/ StartAccepted(p)
      <4>1. proc'[p].pc \in {"resteer", "refuse", "start", "record"}
        BY <1>0, <3>8 DEF SteerStale, StartAccepted, Goto, Proc
      <4> QED
        BY <4>1
    <3> QED
      BY <2>2, <3>4, <3>5, <3>6, <3>7, <3>8
  <2>3. ASSUME q = p, ListPending(p) \/ NextPending(p) \/ ListFailed(p) \/ SweepFailed(p)
               \/ FailDelivery(p) \/ FailTaskDelivery(p) \/ RetryCompletion(p) \/ CompleteCompletion(p)
        PROVE  FALSE
    <3>1. CASE ListPending(p) \/ ListFailed(p)
      BY <1>0, <2>3, <3>1 DEF ListPending, ListFailed, Proc
    <3>2. CASE NextPending(p) \/ SweepFailed(p)
      <4>0. proc[p].pc \in {"after", "sweep"}
        BY <3>2 DEF NextPending, SweepFailed
      <4>1. CASE Finish(p)
        BY <1>0, <4>1, FinishMoves, IdleHolds
      <4>2. ASSUME NEW rest, proc' = [proc EXCEPT ![p].todo = rest] PROVE FALSE
        BY <1>0, <4>0, <4>2 DEF Proc
      <4>3. ASSUME NEW k, NEW state, NEW rest,
                   proc' = [proc EXCEPT ![p] = [proc[p] EXCEPT !.pc = "lease", !.key = k, !.seen = state,
                                                               !.turn = NoTurn, !.todo = rest]]
            PROVE  FALSE
        <5>1. proc'[p] = [proc[p] EXCEPT !.pc = "lease", !.key = k, !.seen = state, !.turn = NoTurn, !.todo = rest]
          BY <1>0, <4>3
        <5>2. proc'[p].pc = "lease"
          BY <1>0, <5>1 DEF Proc
        <5> QED
          BY <5>2
      <4>4. CASE NextPending(p)
        <5>1. \/ proc' = [proc EXCEPT ![p] = [proc[p] EXCEPT !.pc = "lease", !.key = Head(proc[p].todo)[1],
                                                !.seen = Head(proc[p].todo)[2], !.turn = NoTurn,
                                                !.todo = Tail(proc[p].todo)]]
              \/ proc' = [proc EXCEPT ![p].todo = Tail(proc[p].todo)]
              \/ Finish(p)
          BY <4>4 DEF NextPending
        <5> QED
          BY ZenonT(60), <4>1, <4>2, <4>3, <5>1
      <4>5. CASE SweepFailed(p)
        BY <4>1, <4>2, <4>5 DEF SweepFailed
      <4> QED
        BY <3>2, <4>4, <4>5
    <3>3. CASE FailDelivery(p) \/ FailTaskDelivery(p)
      <4>1. CASE FailTaskDelivery(p)
        <5>1. Finish(p) \/ \E pc \in {"failRow", "after", "recover"} : Goto(p, pc)
          BY <1>0, <4>1, FailTaskGoes
        <5>3. ASSUME NEW pc \in {"failRow", "after", "recover"}, Goto(p, pc) PROVE proc'[p].pc = pc
          BY <1>0, <5>3, GotoMoves
        <5>4. Finish(p) => proc'[p].pc = "idle"
          BY <1>0, FinishMoves, IdleHolds
        <5>2. proc'[p].pc \in {"failRow", "after", "recover", "idle"}
          BY <5>1, <5>3, <5>4
        <5> QED
          BY <1>0, <2>3, <5>2
      <4> QED
        BY <1>0, <2>3, <3>3, <4>1 DEF FailDelivery, Goto, Proc
    <3>4. CASE RetryCompletion(p) \/ CompleteCompletion(p)
      BY <1>0, <2>3, <3>4 DEF RetryCompletion, CompleteCompletion, Goto, Finish, Idle, Proc
    <3> QED
      BY <2>3, <3>1, <3>2, <3>3, <3>4
  <2>4. ASSUME q = p, Check(p) \/ CompleteTurn(p) \/ ResultRejected(p) \/ ResultAccepted(p) \/ WriteResult(p)
               \/ FailTurn(p)
        PROVE  FALSE
    BY <1>0, <2>4 DEF Check, CompleteTurn, ResultRejected, ResultAccepted, WriteResult, FailTurn, AfterResult, Goto,
       Proc
  <2>5. ASSUME q = p, SendTask(p) \/ DeliverTask(p) \/ FailRow(p) \/ BindReceipt(p) PROVE FALSE
    BY <1>0, <2>5, ProcType DEF SendTask, DeliverTask, FailRow, BindReceipt, Kinds, Delivering
  <2> QED
    BY <1>1, <2>1, <2>2, <2>3, <2>4, <2>5 DEF Step
<1>2. ASSUME NEW c \in Clients, Send(c) \/ Deliver(c) PROVE proc'[p] = proc[p]
  <2>1. <<"client", c>> \in Senders
    BY DEF Senders
  <2> QED
    BY <1>0, <1>2, <2>1 DEF Send, Deliver, Finish
<1>3. ASSUME NEW t \in Tasks, Enqueue(t) \/ Resume(t) \/ Cancel(t) \/ RetryOutput(t) PROVE proc'[p] = proc[p]
  <2>1. <<"enqueue", t>> \in Requests /\ <<"resume", t>> \in Requests /\ <<"retry", t>> \in Retries
    BY DEF Requests, Retries
  <2> QED
    BY <1>0, <1>3, <2>1 DEF Enqueue, Resume, Cancel, RetryOutput
<1>4. ASSUME NEW w \in Workers, NEW x \in Turns, Claim(w, x) PROVE proc'[p] = proc[p]
  BY <1>0, <1>4 DEF Claim, Idle
<1>5. ASSUME NEW x \in Turns, ServerEnds(x) \/ RequeueStale(x) \/ Notify(x) PROVE proc'[p] = proc[p]
  BY <1>0, <1>5 DEF ServerEnds, RequeueStale, Notify
<1>6. CASE NotifyFailure \/ PersistCompletion \/ ExpireLease \/ Restart \/ UNCHANGED vars
  BY <1>0, <1>6 DEF NotifyFailure, PersistCompletion, ExpireLease, Restart, vars, Goto, Finish, Idle
<1>7. CASE ResetProcessing \/ InterruptTurns \/ ListRecoverable \/ RecoverSending \/ RecoverUnsent \/ EndRecovery
  BY <1>0, <1>7 DEF ResetProcessing, InterruptTurns, ListRecoverable, RecoverSending, RecoverUnsent, EndRecovery,
     Goto, Finish
<1> QED
  BY <1>1, <1>2, <1>3, <1>4, <1>5, <1>6, <1>7 DEF Next, Notifying, Recovering

\* What a process carries after a step.
LEMMA ProcessNow ==
  ASSUME TypeInv', NEW p \in Procs
  PROVE  proc' \in [Procs -> Proc] /\ Carries(p, proc'[p])
BY DEF TypeInv, TypeOK, Processes, Local

\* Completions, records and open calls go together.
LEMMA RecordedStep ==
  ASSUME TypeInv, TypeInv', Locked, Locked', OnServer, OneOpen, Recorded, [Next]_vars
  PROVE  Recorded'
<1>0. turnRow \in [Turns -> {"none", "running", "completed", "failed"}]
  BY DEF TypeInv, TypeOK
<1>1. ASSUME NEW x \in Turns, turnRow[x] # "none" PROVE turnRow'[x] # "none"
  BY <1>1, TurnRowStep
<1>2. ASSUME NEW x \in Turns, inbox'[x] # "none" PROVE turnRow'[x] # "none"
  <2>1. CASE inbox[x] # "none"
    BY <1>1, <2>1 DEF Recorded
  <2>2. CASE proc[Notifier].pc = "inbox" /\ proc[Notifier].turn = x
    <3>1. Notifier \in Procs \ Retries /\ "inbox" \in AtEnd
      BY KindsDiffer DEF AtEnd
    <3> QED
      BY <1>1, <2>2, <3>1 DEF Recorded
  <2> QED
    BY <1>2, <2>1, <2>2, InboxStep
<1>3. ASSUME NEW p \in Procs \ Retries, proc'[p].pc \in AtEnd
      PROVE  turnRow'[proc'[p].turn] # "none" /\ (p \in Pool => inbox'[proc'[p].turn] # "none")
  <2>1. proc'[p].turn \in Turns
    BY <1>3, ProcessNow DEF Carries, AtTurn
  <2>2. ASSUME NEW x \in Turns, inbox[x] # "none" PROVE inbox'[x] # "none" /\ turnRow'[x] # "none"
    <3>1. inbox'[x] # "none"
      <4>1. ASSUME NEW q \in Procs, CompleteCompletion(q) PROVE inbox'[x] # "none"
        BY <2>2, <4>1 DEF CompleteCompletion, TypeInv, TypeOK
      <4> QED
        BY <2>2, <4>1, InboxMoves
    <3> QED
      BY <1>2, <3>1
  <2>3. CASE proc[p].pc \in AtEnd /\ proc'[p].turn = proc[p].turn
    BY <1>1, <2>1, <2>2, <2>3 DEF Recorded
  <2>4. CASE inbox[proc'[p].turn] # "none"
    BY <2>1, <2>2, <2>4
  <2>5. CASE Notify(proc'[p].turn)
    <3>1. (p = Notifier /\ turnRow[proc'[p].turn] # "none") \/ proc'[p] = proc[p]
      BY <2>5, KindsDiffer DEF Notify, TypeInv, TypeOK
    <3>2. CASE proc'[p] = proc[p]
      BY <1>3, <2>3, <3>2
    <3>3. CASE p = Notifier /\ turnRow[proc'[p].turn] # "none"
      BY <1>1, <2>1, <3>3, KindsDiffer
    <3> QED
      BY <3>1, <3>2, <3>3
  <2> QED
    BY <1>3, <2>3, <2>4, <2>5, NextArrivals DEF Arrivals, Arrives
<1>4. ASSUME NEW p \in Procs, proc'[p].pc = "record" PROVE turnRow'[proc'[p].turn] = "none" /\ proc'[p].turn \notin epoch'
  <2>1. ~Restart
    BY <1>4 DEF Restart, Idle
  <2>2. proc'[p].turn \in Turns
    BY <1>4, ProcessNow DEF Carries, AtTurn
  <2>3. CASE proc'[p] = proc[p]
    <3>1. ASSUME NEW q \in Procs, RecordTurn(q) PROVE FALSE
      <4>1. q = p
        BY <1>4, <2>3, <3>1, OneCall DEF RecordTurn, Delivering
      <4> QED
        BY <1>4, <3>1, <4>1, CallSteps
    <3> QED
      BY <1>4, <2>1, <2>2, <2>3, <3>1, TurnRowStep, EpochStep DEF Recorded
  <2>4. CASE StartAccepted(p) /\ proc'[p].turn = NextTurn
    <3>1. NextTurn \in Turns /\ server[NextTurn] = "none" /\ UNCHANGED <<turnRow, epoch>>
      BY <2>4, LowestUnused DEF StartAccepted, store
    <3> QED
      BY <2>4, <3>1 DEF OnServer
  <2> QED
    BY <1>4, <2>3, <2>4, RecordStep
<1>5. ASSUME NEW p \in Procs, proc'[p].pc \in {"accept", "status"}
      PROVE  proc'[p].turn \in ActiveTurns' /\ proc'[p].turn \notin epoch'
  <2>1. epoch' = epoch
    BY <1>5, EpochStep DEF Restart, Idle
  <2>2. CASE proc'[p] = proc[p]
    <3>1. proc[p].turn \in ActiveTurns /\ proc[p].turn \notin epoch
      BY <1>5, <2>2 DEF Recorded
    <3>2. ASSUME turnRow'[proc[p].turn] # "running" PROVE FALSE
      <4>1. mutex = p /\ p # None
        BY <1>5, <2>2, NoneAssumption DEF Locked, Holds, Delivering
      <4> QED
        BY <3>1, <3>2, <4>1, ClosesTurn DEF ActiveTurns, CloseTurn, Unreconciled
    <3> QED
      BY <2>1, <2>2, <3>1, <3>2 DEF ActiveTurns
  <2>3. CASE SteerAccepted(p)
    <3>1. /\ proc[p].pc \in {"steer", "resteer"} /\ server[proc[p].turn] = "live" /\ turnRow' = turnRow
          /\ proc'[p].turn = proc[p].turn
      BY <2>3, CallSteps DEF SteerAccepted, KeepsCall, store
    <3>2. proc[p].turn \in Turns
      BY <3>1, ProcType DEF Carries, AtTurn
    <3>3. ASSUME NEW q \in Procs, proc[q].pc = "record" PROVE FALSE
      <4>1. q = p
        BY <3>1, <3>3, OneCall DEF Delivering
      <4> QED
        BY <3>1, <3>3, <4>1
    <3>4. turnRow[proc[p].turn] = "running" /\ proc[p].turn \notin epoch
      BY <3>1, <3>2, <3>3 DEF OneOpen, OnServer
    <3> QED
      BY <2>1, <3>1, <3>2, <3>4 DEF ActiveTurns
  <2>4. CASE RecordTurn(p)
    <3>1. proc[p].pc = "record" /\ proc'[p].turn = proc[p].turn
      BY <2>4, CallSteps DEF RecordTurn, KeepsCall
    <3>2. proc[p].turn \in Turns /\ proc[p].turn \notin epoch
      BY <3>1, ProcType DEF Carries, AtTurn, Recorded
    <3> QED
      BY <1>0, <2>1, <2>4, <3>1, <3>2 DEF RecordTurn, ActiveTurns
  <2>5. CASE Accept(p)
    <3>1. proc[p].pc = "accept" /\ proc'[p].turn = proc[p].turn /\ turnRow' = turnRow
      BY <1>5, <2>5, CallSteps DEF Accept, KeepsCall, Calling
    <3> QED
      BY <2>1, <3>1 DEF Recorded, ActiveTurns
  <2> QED
    BY <1>5, <2>2, <2>3, <2>4, <2>5, AcceptComes
<1>6. Pool \subseteq Procs \ Retries
  BY KindsDiffer
<1> QED
  BY <1>2, <1>3, <1>4, <1>5, <1>6 DEF Recorded

\* What is closed stays closed.
LEMMA TurnsClosedStep ==
  ASSUME TypeInv, TypeInv', OneOpen, Recorded, TurnsClosed, [Next]_vars
  PROVE  TurnsClosed'
<1>0. turnRow \in [Turns -> {"none", "running", "completed", "failed"}]
  BY DEF TypeInv, TypeOK
<1>1. ASSUME NEW x \in Turns, turnRow[x] \notin {"none", "running"} PROVE turnRow'[x] # "running"
  BY <1>1, TurnRowStep DEF Recorded, RecordTurn
<1>2. ASSUME NEW p \in Pool, proc[p].pc \in AtEnd PROVE proc[p].turn \in Turns /\ turnRow[proc[p].turn] # "none"
  BY <1>2, ProcType, KindsDiffer DEF Carries, AtTurn, Recorded
<1>3. ASSUME NEW p \in Pool, proc'[p].pc \in {"closeStatus", "done"} PROVE turnRow'[proc'[p].turn] # "running"
  <2>1. CASE proc'[p] = proc[p] \/ CloseStatus(p)
    <3>1. proc[p].pc \in {"closeStatus", "done"} /\ proc'[p].turn = proc[p].turn
      BY <1>3, <2>1, KindsDiffer, GotoMoves DEF CloseStatus
    <3> QED
      BY <1>0, <1>1, <1>2, <3>1 DEF TurnsClosed, AtEnd
  <2>2. CASE CloseTurn(p)
    <3>1. proc'[p].turn = proc[p].turn /\ proc[p].turn \in Turns
      BY <1>2, <2>2, KindsDiffer, GotoMoves DEF CloseTurn, AtEnd
    <3>2. CASE HasActive /\ ActiveTurn = proc[p].turn
      BY <1>0, <2>2, <3>1, <3>2 DEF CloseTurn
    <3>3. CASE ~(HasActive /\ ActiveTurn = proc[p].turn)
      <4>1. turnRow[proc[p].turn] # "running"
        BY <3>1, <3>3, ActiveTurnType DEF OneOpen, HasActive, ActiveTurns
      <4> QED
        BY <2>2, <3>1, <3>3, <4>1 DEF CloseTurn
    <3> QED
      BY <3>2, <3>3
  <2> QED
    BY <1>3, <2>1, <2>2, ClosingComes
<1>4. ASSUME NEW x \in Turns, inbox'[x] = "done" PROVE turnRow'[x] # "running"
  <2>1. CASE inbox[x] = "done"
    BY <1>0, <1>1, <2>1 DEF TurnsClosed, Recorded
  <2>2. ASSUME NEW p \in Procs, CompleteCompletion(p), proc[p].turn = x PROVE turnRow'[x] # "running"
    <3>1. p \in Pool /\ proc[p].pc = "done"
      BY <2>2, ProcType, KindsDiffer DEF CompleteCompletion, Kinds, Delivering
    <3> QED
      BY <1>0, <1>1, <1>2, <2>2, <3>1 DEF TurnsClosed, AtEnd
  <2> QED
    BY <1>4, <2>1, <2>2, InboxMoves
<1> QED
  BY <1>3, <1>4 DEF TurnsClosed

\* The status is written after the turn, by whoever opens the turn or closes it.
LEMMA RunningHasCauseStep ==
  ASSUME TypeInv, TypeInv', OneOpen, Recorded, TurnsClosed, RunningHasCause, [Next]_vars
  PROVE  RunningHasCause'
<1> SUFFICES ASSUME status' = "running", ~HasActive'
             PROVE  \E x \in Turns : HasOpenInbox(x)' /\ \A p \in Pool : ~(proc'[p].pc = "done" /\ proc'[p].turn = x)
  BY DEF RunningHasCause
<1>0. /\ inbox \in [Turns -> {"none", "pending", "processing", "done"}] /\ NoTurn \notin Turns
  BY NoTurnAssumption DEF TypeInv, TypeOK
<1>1. ASSUME NEW p \in Procs, MarkRunning(p) PROVE FALSE
  BY <1>1 DEF MarkRunning, Recorded, HasActive, ActiveTurns
<1>2. status = "running"
  BY <1>1, StatusStep
<1>3. ASSUME NEW p \in Pool, NEW x \in Turns, proc'[p].pc = "done", proc'[p].turn = x
      PROVE  proc[p].pc = "done" /\ proc[p].turn = x
  <2>1. ~CloseTurn(p)
    BY <1>3, KindsDiffer, CallSteps
  <2>2. ~CloseStatus(p)
    BY DEF CloseStatus
  <2> QED
    BY <1>3, <2>1, <2>2, ClosingComes
<1>4. ASSUME NEW x \in Turns, turnRow[x] = "running"
      PROVE  \E y \in Turns : HasOpenInbox(y)' /\ \A p \in Pool : ~(proc'[p].pc = "done" /\ proc'[p].turn = y)
  <2>1. turnRow'[x] # "running"
    BY <1>4 DEF HasActive, ActiveTurns
  <2>2. ~(InterruptTurns /\ x \in Unreconciled)
    BY DEF InterruptTurns
  <2>3. PICK q \in Procs : CloseTurn(q) /\ proc[q].turn = x
    BY <1>4, <2>1, <2>2, ClosesTurn
  <2>4. q \in Pool /\ proc[q].pc = "close"
    BY <2>3, ProcType, KindsDiffer DEF CloseTurn, Kinds, Delivering
  <2>5. inbox[x] \in {"pending", "processing"} /\ inbox' = inbox
    BY <1>0, <1>4, <2>3, <2>4 DEF Recorded, TurnsClosed, AtEnd, CloseTurn
  <2>6. ASSUME NEW p \in Pool PROVE ~(proc'[p].pc = "done" /\ proc'[p].turn = x)
    BY <1>3, <1>4, <2>6 DEF TurnsClosed
  <2> QED
    BY <1>0, <2>5, <2>6 DEF HasOpenInbox
<1>5. ASSUME NEW x \in Turns, HasOpenInbox(x), \A p \in Pool : ~(proc[p].pc = "done" /\ proc[p].turn = x)
      PROVE  HasOpenInbox(x)' /\ \A p \in Pool : ~(proc'[p].pc = "done" /\ proc'[p].turn = x)
  <2>1. ASSUME NEW p \in Procs, CompleteCompletion(p), proc[p].turn = x PROVE FALSE
    <3>1. p \in Pool /\ proc[p].pc = "done"
      BY <2>1, ProcType, KindsDiffer DEF CompleteCompletion, Kinds, Delivering
    <3> QED
      BY <1>5, <2>1, <3>1
  <2> QED
    BY <1>3, <1>5, <2>1, InboxMoves DEF HasOpenInbox
<1> QED
  BY <1>2, <1>4, <1>5 DEF RunningHasCause, HasActive, ActiveTurns

LEMMA InitStatus == Init => StatusInv
<1> SUFFICES ASSUME Init PROVE StatusInv
  OBVIOUS
<1>1. /\ \A p \in Procs : proc[p] = Idle
      /\ \A x \in Turns : turnRow[x] = "none" /\ inbox[x] = "none"
      /\ status = "idle"
  BY DEF Init
<1>2. Idle.pc = "idle"
  BY DEF Idle
<1>3. Pool \subseteq Procs
  BY KindsDiffer
<1> QED
  BY <1>1, <1>2, <1>3 DEF StatusInv, Recorded, TurnsClosed, RunningHasCause, AtEnd

\* The invariant of the status, for every state.
LEMMA StatusInvariant == Spec => []StatusInv
<1>1. TypeInv /\ TypeInv' /\ Locked /\ Locked' /\ OnServer /\ OneOpen /\ StatusInv /\ [Next]_vars => StatusInv'
  BY RecordedStep, TurnsClosedStep, RunningHasCauseStep DEF StatusInv
<1> QED
  BY <1>1, InitStatus, StageInvariant, PTL DEF Spec

\* A conversation shown as running has an open turn, or a completion that will make it
\* idle, although status and turns are written in separate steps by requests, workers
\* and the recovery, and a crash may come between (RunningHasTurn, MarkRunning,
\* closeTurnCompleted, InterruptUnreconciledActiveTurns).
THEOREM RunningHasATurn == Spec => []RunningHasTurn
<1>1. StatusInv => RunningHasTurn
  BY DEF StatusInv, RunningHasCause, RunningHasTurn
<1> QED
  BY <1>1, StatusInvariant, PTL

-----------------------------------------------------------------------------
(* One validation at a time, and tasks that wait                           *)

\* Every key of a task.
Answers == Turns \cup {NoTurn}

\* The task has got a turn for the last message that it was sent.
Turned(t) ==
  \/ rows[t].status \in {"running", "awaiting_input", "completed"}
  \/ rows[t].status = "failed" /\ rows[t].error = "output_invalid"
  \/ /\ rows[t].status = "resuming" /\ rows[t].turn \in Turns
     /\ outbox[<<t, rows[t].turn>>].state = "absent"

\* The message waits to be sent, or somebody handles it.
Underway(k) ==
  \/ outbox[k].state \in {"pending", "queued", "sending"}
  \/ \E p \in Procs : proc[p].pc \in Handling /\ proc[p].key = k

\* While a task has its turn, the turn is not answered and no message of the task is on its way.
TurnIsLast ==
  \A t \in Tasks : Turned(t) =>
    /\ rows[t].turn \in Turns /\ outbox[<<t, rows[t].turn>>].state = "absent"
    /\ \A y \in Answers : ~Underway(<<t, y>>) /\ outbox[<<t, y>>].state # "failed"

\* A task has one message on its way at a time, and none after one that failed.
OneUnderway ==
  \A t \in Tasks, y, z \in Answers :
    Underway(<<t, z>>) /\ (Underway(<<t, y>>) \/ outbox[<<t, y>>].state = "failed") => y = z

\* Only requests deliver the messages of tasks: a list has none of a task that has its turn.
ChatsOnly ==
  \A p \in Pool \cup {Recovery} : proc[p].pc \in Delivering \cup {"failOutbox"} => proc[p].key \in Chats
Unlisted ==
  \A t \in Tasks, p \in Pool \cup {Recovery} :
    Turned(t) /\ proc[p].pc # "idle" /\ (p \in Pool => proc[p].pc \in Listing) =>
      \A i \in DOMAIN proc[p].todo, y \in Answers : proc[p].todo[i][1] # <<t, y>>

\* A request that binds a turn has had its message accepted.
AcceptedKept ==
  \A p \in Requests : proc[p].pc \in {"status", "bindTask"} => outbox[proc[p].key].state = "accepted"

\* Whoever fails a task for a message has failed the message.
GivenUp ==
  /\ \A p \in Procs : proc[p].pc \in {"failTask", "failRow"} => outbox[proc[p].key].state = "failed"
  /\ \A p \in Pool : proc[p].pc = "sweep" =>
       \A i \in DOMAIN proc[p].todo : outbox[proc[p].todo[i][1]].state = "failed"

\* Nobody has heard of a turn before it is bound.
New(x) ==
  \/ server[x] = "none"
  \/ \E p \in Procs :
       proc[p].pc \in {"record", "accept", "status", "bindTask"} /\ IsFormal(proc[p].key) /\ proc[p].turn = x
Untouched ==
  \A x \in Turns : New(x) =>
    /\ \A t \in Tasks : outbox[<<t, x>>].state = "absent" /\ rows[t].turn # x
    /\ \A q \in Requests : proc[q].pc = "bind" => proc[q].turn # x

\* The receipt of an answer is that of the turn its task is bound to.
ReceiptFits ==
  \A t \in Tasks : proc[<<"resume", t>>].pc = "bind" =>
    /\ rows[t].status \notin {"absent", "queued"}
    /\ rows[t].turn = proc[<<"resume", t>>].turn /\ outbox[<<t, rows[t].turn>>].state = "absent"

\* A result is validated for the turn the task still has, or for a task that is over.
Validating == {"result", "write"}
Validated ==
  \A p \in Procs : proc[p].pc \in Validating =>
    LET row == rows[TaskOf(proc[p].key)] IN
      \/ row.status = "resuming" /\ row.turn = proc[p].turn /\ outbox[<<TaskOf(proc[p].key), row.turn>>].state = "absent"
      \/ row.status \in {"failed", "canceled", "interrupted"} /\ row.error # "output_invalid"
ValidatedOnce ==
  \A p, q \in Procs :
    proc[p].pc \in Validating /\ proc[q].pc \in Validating /\ TaskOf(proc[p].key) = TaskOf(proc[q].key) => p = q

TurnInv ==
  /\ TurnIsLast /\ OneUnderway /\ ChatsOnly /\ Unlisted /\ AcceptedKept /\ GivenUp /\ Untouched /\ ReceiptFits
  /\ Validated /\ ValidatedOnce

-----------------------------------------------------------------------------
(* Who does what                                                           *)

\* A delivery leads on, back to its caller, or to the failure of its message.
LEMMA DeliveryLeads ==
  ASSUME TypeInv, NEW p \in Procs,
         \/ AcquireLease(p) \/ MarkSending(p) \/ Decide(p) \/ SteerAccepted(p) \/ SteerStale(p)
         \/ StartAccepted(p) \/ CallRefused(p) \/ ThreadMissing(p) \/ RecordTurn(p) \/ Accept(p)
         \/ MarkRunning(p) \/ BindTask(p) \/ Refuse(p)
  PROVE  /\ proc'[p].pc \in Delivering \cup {"idle", "bind", "failOutbox"}
         /\ proc'[p].todo = proc[p].todo \/ proc'[p].todo = <<>>
<1>0. proc \in [Procs -> Proc] /\ proc[p] \in Proc
  BY ProcType
<1>1. proc[p].pc \in Delivering /\ mutex = p
  BY DEF AcquireLease, MarkSending, Decide, SteerAccepted, SteerStale, StartAccepted, CallRefused,
     ThreadMissing, RecordTurn, Accept, MarkRunning, BindTask, Refuse, Delivering
<1> DEFINE G == /\ proc'[p].pc \in Delivering \cup {"idle", "bind", "failOutbox"}
                /\ proc'[p].todo = proc[p].todo \/ proc'[p].todo = <<>>
<1> SUFFICES G
  OBVIOUS
<1>2. ASSUME NEW ok \in BOOLEAN, Exit(p, ok) PROVE G
  BY <1>1, <1>2, ExitMoves, IdleHolds, IdleLocal
<1>3. ASSUME NEW pc \in Delivering, Goto(p, pc) PROVE G
  BY <1>3, GotoMoves
<1>4. {"decide", "steer", "resteer", "start", "restart", "record", "accept", "status", "bindTask", "refuse", "mark"}
        \subseteq Delivering /\ TRUE \in BOOLEAN /\ FALSE \in BOOLEAN
  BY DEF Delivering
<1>5. ASSUME NEW pc \in Delivering, NEW seen, proc' = [proc EXCEPT ![p].pc = pc, ![p].seen = seen] PROVE G
  BY <1>0, <1>5 DEF Proc
<1>6. ASSUME NEW pc \in Delivering, NEW x, proc' = [proc EXCEPT ![p].pc = pc, ![p].turn = x] PROVE G
  BY <1>0, <1>6 DEF Proc
<1> HIDE DEF G
<1>7. CASE AcquireLease(p) \/ Refuse(p) \/ Accept(p) \/ MarkRunning(p)
  BY <1>2, <1>3, <1>4, <1>7 DEF AcquireLease, Refuse, Accept, MarkRunning
<1>8. CASE BindTask(p) \/ CallRefused(p) \/ RecordTurn(p) \/ SteerAccepted(p)
  BY <1>2, <1>3, <1>4, <1>8 DEF BindTask, CallRefused, RecordTurn, SteerAccepted
<1>9. CASE MarkSending(p)
  BY <1>2, <1>3, <1>4, <1>5, <1>9 DEF MarkSending
<1>10. CASE Decide(p)
  BY <1>2, <1>3, <1>4, <1>6, <1>10 DEF Decide
<1>11. CASE StartAccepted(p)
  BY <1>4, <1>6, <1>11 DEF StartAccepted
<1>12. CASE SteerStale(p)
  <2>1. ("start" \in Delivering /\ "refuse" \in Delivering) => (IF Mode(proc[p].key) = "steer" THEN "refuse" ELSE "start") \in Delivering
    OBVIOUS
  <2> QED
    BY <1>3, <1>4, <1>6, <1>12, <2>1 DEF SteerStale
<1>13. CASE ThreadMissing(p)
  <2>1. ("restart" \in Delivering /\ "refuse" \in Delivering) => (IF proc[p].pc = "start" THEN "restart" ELSE "refuse") \in Delivering
    OBVIOUS
  <2> QED
    BY <1>3, <1>4, <1>13, <2>1 DEF ThreadMissing
<1> QED
  BY <1>7, <1>8, <1>9, <1>10, <1>11, <1>12, <1>13

\* The next message of a list is delivered, or the list goes on or is dropped.
LEMMA ListLeads ==
  ASSUME TypeInv, NEW p \in Procs, NextPending(p) \/ (p = Recovery /\ RecoverUnsent)
  PROVE  proc'[p].pc \in {"idle", "lease", proc[p].pc}
<1>0. proc \in [Procs -> Proc] /\ proc[p] \in Proc
  BY ProcType
<1> DEFINE k == Head(proc[p].todo)[1]
           state == Head(proc[p].todo)[2]
           rest == Tail(proc[p].todo)
           r == [proc[p] EXCEPT !.pc = "lease", !.key = k, !.seen = state, !.turn = NoTurn, !.todo = rest]
<1>1. \/ Finish(p)
      \/ proc' = [proc EXCEPT ![p].todo = rest]
      \/ proc' = [proc EXCEPT ![p] = r]
  BY DEF NextPending, RecoverUnsent
<1> HIDE DEF k, state, rest
<1>2. r.pc = "lease"
  BY <1>0 DEF Proc
<1> HIDE DEF r
<1>3. CASE Finish(p)
  BY <1>3, FinishMoves, IdleHolds
<1>4. CASE proc' = [proc EXCEPT ![p].todo = rest]
  BY <1>0, <1>4 DEF Proc
<1>5. CASE proc' = [proc EXCEPT ![p] = r]
  BY <1>0, <1>2, <1>5
<1> QED
  BY <1>1, <1>3, <1>4, <1>5

\* Where a message is given up, or a result is validated.
Late == {"failTask", "failRow", "sweep", "result", "write"}

\* Who gets there.
LEMMA LateComes ==
  ASSUME TypeInv, TypeInv', [Next]_vars, NEW p \in Procs, proc'[p].pc \in Late
  PROVE  \/ proc'[p] = proc[p]
         \/ FailDelivery(p) \/ FailTaskDelivery(p) \/ (p = Recovery /\ RecoverSending)
         \/ ListFailed(p) \/ SweepFailed(p) \/ CompleteTurn(p) \/ ResultAccepted(p)
         \/ \E t \in Tasks : RetryOutput(t) /\ p = <<"retry", t>>
<1> DEFINE G == \/ proc'[p] = proc[p]
                \/ FailDelivery(p) \/ FailTaskDelivery(p) \/ (p = Recovery /\ RecoverSending)
                \/ ListFailed(p) \/ SweepFailed(p) \/ CompleteTurn(p) \/ ResultAccepted(p)
                \/ \E t \in Tasks : RetryOutput(t) /\ p = <<"retry", t>>
<1> SUFFICES G
  OBVIOUS
<1>0. proc \in [Procs -> Proc] /\ proc[p] \in Proc
  BY ProcType
<1>a. proc'[p] = proc[p] => G
  OBVIOUS
<1>b. FailDelivery(p) \/ FailTaskDelivery(p) \/ ListFailed(p) \/ SweepFailed(p) \/ CompleteTurn(p) \/ ResultAccepted(p) => G
  OBVIOUS
<1>c. (p = Recovery /\ RecoverSending) \/ (\E t \in Tasks : RetryOutput(t) /\ p = <<"retry", t>>) => G
  OBVIOUS
<1> HIDE DEF G
<1>1. ASSUME NEW q \in Procs, Step(q) PROVE G
  <2>1. CASE q # p
    BY <1>a, <1>1, <2>1, OthersStay
  <2>2. ASSUME q = p, \/ AcquireLease(p) \/ MarkSending(p) \/ Decide(p) \/ SteerAccepted(p) \/ SteerStale(p)
                      \/ StartAccepted(p) \/ CallRefused(p) \/ ThreadMissing(p) \/ RecordTurn(p) \/ Accept(p)
                      \/ MarkRunning(p) \/ BindTask(p) \/ Refuse(p)
        PROVE  FALSE
    <3>1. proc'[p].pc \in Delivering \cup {"idle", "bind", "failOutbox"}
      BY <2>2, DeliveryLeads
    <3> QED
      BY <3>1 DEF Late, Delivering
  <2>3. ASSUME q = p, SendTask(p) \/ DeliverTask(p) \/ FailRow(p) \/ BindReceipt(p) PROVE FALSE
    <3>1. CASE FailRow(p) \/ BindReceipt(p)
      BY <3>1, FinishMoves, IdleHolds DEF FailRow, BindReceipt, Late
    <3>2. CASE SendTask(p)
      BY <1>0, <3>2, FinishMoves, IdleHolds DEF SendTask, Goto, Proc, Late
    <3>3. CASE DeliverTask(p)
      BY <1>0, <3>3, FinishMoves, IdleHolds DEF DeliverTask, Proc, Late
    <3> QED
      BY <2>3, <3>1, <3>2, <3>3
  <2>4. ASSUME q = p, ListPending(p) \/ NextPending(p) \/ RetryCompletion(p) \/ CompleteCompletion(p) PROVE FALSE
    <3>1. CASE ListPending(p)
      BY <1>0, <3>1 DEF ListPending, Proc, Late
    <3>2. CASE RetryCompletion(p) \/ CompleteCompletion(p)
      BY <1>0, <3>2, FinishMoves, IdleHolds DEF RetryCompletion, CompleteCompletion, Goto, Proc, Late
    <3>3. CASE NextPending(p)
      BY <1>0, <3>3, ListLeads DEF NextPending, Late
    <3> QED
      BY <2>4, <3>1, <3>2, <3>3
  <2>5. ASSUME q = p, Check(p) \/ FailTurn(p) \/ CloseTurn(p) \/ CloseStatus(p) PROVE FALSE
    BY <1>0, <2>5 DEF Check, FailTurn, CloseTurn, CloseStatus, Goto, Proc, Late
  <2>6. ASSUME q = p, ResultRejected(p) \/ WriteResult(p) PROVE FALSE
    <3>1. AfterResult(p, TRUE) \/ AfterResult(p, FALSE)
      BY <2>6 DEF ResultRejected, WriteResult
    <3>2. proc'[p] = Idle \/ proc'[p].pc \in {"close", "failTurn"}
      BY <1>0, <3>1 DEF AfterResult, Proc
    <3> QED
      BY <3>2, IdleHolds DEF Late
  <2> QED
    BY <1>1, <1>b, <2>1, <2>2, <2>3, <2>4, <2>5, <2>6 DEF Step
<1>2. ASSUME NEW c \in Clients, Send(c) \/ Deliver(c) PROVE proc'[p] = proc[p]
  <2>1. p # <<"client", c>> => proc'[p] = proc[p]
    BY <1>0, <1>2 DEF Send, Deliver, Finish
  <2>2. ASSUME p = <<"client", c>> PROVE FALSE
    BY <2>2, ProcessNow, KindsDiffer DEF Senders, TypeInv, Processes, Local, Kinds, Late, Delivering
  <2> QED
    BY <2>1, <2>2
<1>3. ASSUME NEW t \in Tasks, Enqueue(t) \/ Resume(t) \/ Cancel(t) \/ RetryOutput(t) PROVE G
  <2>1. CASE Cancel(t)
    BY <1>a, <2>1 DEF Cancel
  <2>2. CASE RetryOutput(t)
    BY <1>0, <1>a, <1>c, <2>2 DEF RetryOutput
  <2>3. CASE Enqueue(t) \/ Resume(t)
    <3>1. \A k : [Idle EXCEPT !.pc = "send", !.key = k].pc = "send"
      BY DEF Idle
    <3> QED
      BY ZenonT(60), <1>0, <1>a, <2>3, <3>1 DEF Enqueue, Resume, Late
  <2> QED
    BY <1>3, <2>1, <2>2, <2>3
<1>4. ASSUME NEW w \in Workers, NEW x \in Turns, Claim(w, x) PROVE proc'[p] = proc[p]
  BY <1>0, <1>4 DEF Claim, Idle, Late
<1>5. ASSUME NEW x \in Turns, ServerEnds(x) \/ RequeueStale(x) \/ Notify(x) PROVE proc'[p] = proc[p]
  BY ZenonT(60), <1>0, <1>5 DEF ServerEnds, RequeueStale, Notify, Idle, Late
<1>6. CASE NotifyFailure \/ PersistCompletion \/ ExpireLease \/ UNCHANGED vars
  BY <1>0, <1>a, <1>6 DEF NotifyFailure, PersistCompletion, ExpireLease, vars, Goto, Finish, Idle, Proc, Late
<1>7. CASE Restart
  BY <1>7 DEF Restart, Idle, Late
<1>8. CASE ResetProcessing \/ InterruptTurns \/ ListRecoverable \/ EndRecovery
  BY <1>0, <1>a, <1>8 DEF ResetProcessing, InterruptTurns, ListRecoverable, EndRecovery, Goto, Finish, Idle, Proc, Late
<1>9. CASE RecoverSending
  BY <1>0, <1>a, <1>c, <1>9 DEF RecoverSending
<1>10. CASE RecoverUnsent
  <2>1. p # Recovery => proc'[p] = proc[p]
    BY <1>0, <1>10 DEF RecoverUnsent, Finish
  <2>2. ASSUME p = Recovery PROVE FALSE
    <3> QED
      BY <1>10, <2>2, ListLeads DEF RecoverUnsent, Late
  <2> QED
    BY <1>a, <2>1, <2>2
<1> QED
  BY <1>a, <1>1, <1>2, <1>3, <1>4, <1>5, <1>6, <1>7, <1>8, <1>9, <1>10 DEF Next, Notifying, Recovering

-----------------------------------------------------------------------------
(* Who ends the wait or the validation of a task                           *)

\* Neither a result of the task nor the failure of one that waits.
Plain(row, r) ==
  /\ row.status = "resuming" =>
       r.status \notin {"awaiting_input", "completed"} /\ ~(r.status = "failed" /\ r.error = "output_invalid")
  /\ row.status = "awaiting_input" => r.status # "failed"

\* The result of the task is written.
Returns(t) ==
  \E p \in Procs : (ResultRejected(p) \/ WriteResult(p)) /\ TaskOf(proc[p].key) = t

\* The task is failed with one of its messages, or for another receipt.
GivesUp(t) ==
  \E p \in Procs :
    \/ (FailTaskDelivery(p) \/ FailRow(p)) /\ TaskOf(proc[p].key) = t
    \/ /\ SweepFailed(p) /\ proc[p].todo # <<>>
       /\ IsFormal(Head(proc[p].todo)[1]) /\ TaskOf(Head(proc[p].todo)[1]) = t
    \/ BindReceipt(p) /\ TaskOf(proc[p].key) = t /\ rows[t].turn \notin {proc[p].turn, NoTurn}

LEMMA SamePlain ==
  ASSUME NEW t, rows'[t] = rows[t]
  PROVE  Plain(rows[t], rows'[t])
  BY DEF Plain

LEMMA WritePlain ==
  ASSUME TypeInv, NEW t \in Tasks, NEW u, NEW r, rows' = [rows EXCEPT ![u] = r],
         u = t => Plain(rows[t], r)
  PROVE  Plain(rows[t], rows'[t])
<1>1. CASE u = t
  BY <1>1, RowIn
<1>2. CASE u # t
  BY <1>2, RowIn, SamePlain
<1> QED
  BY <1>1, <1>2

\* A failure that is not that of a message.
LEMMA LivePlain ==
  ASSUME TypeInv, NEW t \in Tasks, NEW u \in Tasks, NEW x,
         (\/ rows' = rows
          \/ OwnsLiveTurn(rows[u], x) /\ rows' = [rows EXCEPT ![u] = FailAppServerTurn(rows[u])])
  PROVE  Plain(rows[t], rows'[t])
<1>1. CASE rows' = rows
  BY <1>1, SamePlain
<1>2. CASE OwnsLiveTurn(rows[u], x) /\ rows' = [rows EXCEPT ![u] = FailAppServerTurn(rows[u])]
  <2>1. Written(FailAppServerTurn(rows[u]), rows[u], "failed", rows[u].turn, "other")
    BY RowIn, EndWrites
  <2>2. rows[u].status # "awaiting_input"
    BY <1>2 DEF OwnsLiveTurn
  <2>3. u = t => Plain(rows[t], FailAppServerTurn(rows[u]))
    BY <2>1, <2>2 DEF Plain, Written
  <2> QED
    BY <1>2, <2>3, WritePlain
<1> QED
  BY <1>1, <1>2

\* A task that is failed otherwise does not wait.
LEMMA BoundPlain ==
  ASSUME TypeInv, NEW t \in Tasks, NEW x, FailBoundTurn(x)
  PROVE  Plain(rows[t], rows'[t])
<1>1. CASE BoundTo(x) # {} /\ OwnsLiveTurn(rows[BoundTask(x)], x)
  BY <1>1, BoundTaskIn, LivePlain DEF FailBoundTurn
<1>2. CASE ~(BoundTo(x) # {} /\ OwnsLiveTurn(rows[BoundTask(x)], x))
  BY <1>2, SamePlain DEF FailBoundTurn
<1> QED
  BY <1>1, <1>2

\* The failure of another task, or of one that does not wait.
LEMMA FailPlain ==
  ASSUME TypeInv, NEW t \in Tasks, NEW u, FailIfLive(u), u = t => rows[t].status # "awaiting_input"
  PROVE  Plain(rows[t], rows'[t])
<1>1. CASE rows' = rows
  BY <1>1, SamePlain
<1>2. CASE rows' = [rows EXCEPT ![u] = FailTask(rows[u])]
  <2>1. Written(FailTask(rows[t]), rows[t], "failed", rows[t].turn, "other")
    BY RowIn, EndWrites
  <2>2. u = t => Plain(rows[t], FailTask(rows[u]))
    BY <2>1 DEF Plain, Written
  <2> QED
    BY <1>2, <2>2, WritePlain
<1> QED
  BY <1>1, <1>2 DEF FailIfLive

\* Every step.
LEMMA RowOutcome ==
  ASSUME TypeInv, AppServerTasks, [Next]_vars, NEW t \in Tasks
  PROVE  Plain(rows[t], rows'[t]) \/ Returns(t) \/ GivesUp(t)
<1> DEFINE G == Plain(rows[t], rows'[t]) \/ Returns(t) \/ GivesUp(t)
<1> SUFFICES G
  OBVIOUS
<1>0. rows \in [Tasks -> Row] /\ rows[t] \in Row
  BY RowIn
<1>a. Plain(rows[t], rows'[t]) => G
  OBVIOUS
<1>b. Returns(t) \/ GivesUp(t) => G
  OBVIOUS
<1> HIDE DEF G
<1>c. rows' = rows => G
  BY <1>a, SamePlain
<1>1. ASSUME NEW p \in Procs, Step(p) PROVE G
  <2>1. CASE \/ SendTask(p) \/ DeliverTask(p) \/ AcquireLease(p) \/ MarkSending(p) \/ Decide(p)
             \/ SteerAccepted(p) \/ SteerStale(p) \/ StartAccepted(p)
    BY <1>c, <2>1 DEF SendTask, DeliverTask, AcquireLease, MarkSending, Decide, SteerAccepted, SteerStale,
       StartAccepted, store
  <2>2. CASE \/ CallRefused(p) \/ ThreadMissing(p) \/ RecordTurn(p) \/ Accept(p) \/ MarkRunning(p)
             \/ Refuse(p) \/ FailDelivery(p) \/ Check(p)
    BY <1>c, <2>2 DEF CallRefused, ThreadMissing, RecordTurn, Accept, MarkRunning, Refuse, FailDelivery, Check, store
  <2>3. CASE \/ RetryCompletion(p) \/ CloseTurn(p) \/ CloseStatus(p) \/ CompleteCompletion(p)
             \/ ListPending(p) \/ NextPending(p) \/ ListFailed(p)
    BY <1>c, <2>3 DEF RetryCompletion, CloseTurn, CloseStatus, CompleteCompletion, ListPending, NextPending,
       ListFailed, store
  <2>4. CASE BindTask(p)
    <3> DEFINE q == proc[p]
               u == TaskOf(q.key)
    <3>1. u \in Tasks /\ q.turn \in Turns /\ rows[u] \in Row
      BY <2>4, ProcType, TaskOfKey, RowIn DEF BindTask, Carries, AtTurn
    <3>2. \/ rows' = rows
          \/ rows[u].status # "awaiting_input" /\ FailIfLive(u)
          \/ CanStartAppServerTurn(rows[u], q.turn) /\ rows' = [rows EXCEPT ![u] = StartAppServerTurn(rows[u], q.turn)]
      BY <2>4 DEF BindTask
    <3>3. CASE CanStartAppServerTurn(rows[u], q.turn) /\ rows' = [rows EXCEPT ![u] = StartAppServerTurn(rows[u], q.turn)]
      <4>1. Plain(rows[u], StartAppServerTurn(rows[u], q.turn))
        <5>1. CASE TurnAlreadyStarted(rows[u], q.turn)
          BY <3>1, <5>1, ProgressWrites DEF Plain
        <5>2. CASE ~TurnAlreadyStarted(rows[u], q.turn)
          <6>1. Written(StartAppServerTurn(rows[u], q.turn), rows[u], "running", q.turn, rows[u].error)
            BY <3>1, <5>2, ProgressWrites
          <6> QED
            BY <6>1 DEF Plain, Written
        <5> QED
          BY <5>1, <5>2
      <4> QED
        BY <1>a, <3>3, <4>1, WritePlain
    <3> QED
      BY <1>a, <1>c, <3>2, <3>3, FailPlain
  <2>5. CASE FailTaskDelivery(p)
    <3>1. FailIfLive(TaskOf(proc[p].key)) \/ rows' = rows
      BY <2>5, FailTaskGoes
    <3>2. CASE TaskOf(proc[p].key) = t
      BY <1>b, <2>5, <3>2 DEF GivesUp
    <3> QED
      BY <1>a, <1>c, <3>1, <3>2, FailPlain
  <2>6. CASE FailRow(p)
    <3> DEFINE u == TaskOf(proc[p].key)
    <3>1. CASE u = t
      BY <1>b, <2>6, <3>1 DEF GivesUp
    <3>2. CASE u # t
      <4>1. FailIfLive(u) \/ rows' = rows \/ rows' = [rows EXCEPT ![u] = FailQueuedTask(rows[u])]
        BY <2>6 DEF FailRow
      <4> QED
        BY <1>a, <1>c, <3>2, <4>1, FailPlain, WritePlain
    <3> QED
      BY <3>1, <3>2
  <2>7. CASE BindReceipt(p)
    <3> DEFINE u == TaskOf(proc[p].key)
    <3>1. \/ rows' = rows
          \/ rows[u].turn = NoTurn /\ rows' = [rows EXCEPT ![u] = [rows[u] EXCEPT !.turn = proc[p].turn]]
          \/ rows[u].turn \notin {proc[p].turn, NoTurn} /\ FailIfLive(u)
      BY <2>7 DEF BindReceipt
    <3>2. Plain(rows[t], [rows[t] EXCEPT !.turn = proc[p].turn])
      BY <1>0 DEF Plain, Row
    <3>3. u = t => Plain(rows[t], [rows[u] EXCEPT !.turn = proc[p].turn])
      BY <3>2
    <3>4. CASE rows[u].turn \notin {proc[p].turn, NoTurn} /\ FailIfLive(u)
      BY <1>a, <1>b, <2>7, <3>4, FailPlain DEF GivesUp
    <3> QED
      BY <1>a, <1>c, <3>1, <3>3, <3>4, WritePlain
  <2>8. CASE CompleteTurn(p)
    <3> DEFINE u == BoundTask(proc[p].turn)
    <3>1. \/ rows' = rows
          \/ BoundTo(proc[p].turn) # {} /\ rows' = [rows EXCEPT ![u] = ClaimAppServerResult(rows[u])]
      BY <2>8 DEF CompleteTurn
    <3>2. CASE BoundTo(proc[p].turn) # {} /\ rows' = [rows EXCEPT ![u] = ClaimAppServerResult(rows[u])]
      <4>1. rows[u] \in Row
        BY <3>2, BoundTaskIn, RowIn
      <4>2. Written(ClaimAppServerResult(rows[u]), rows[u], "resuming", rows[u].turn, rows[u].error)
        BY <4>1, ProgressWrites
      <4>3. Plain(rows[u], ClaimAppServerResult(rows[u]))
        BY <4>2 DEF Plain, Written
      <4> QED
        BY <1>a, <3>2, <4>3, WritePlain
    <3> QED
      BY <1>c, <3>1, <3>2
  <2>9. CASE ResultRejected(p) \/ ResultAccepted(p) \/ WriteResult(p)
    <3> DEFINE u == TaskOf(proc[p].key)
    <3>1. u \in Tasks /\ rows[u] \in Row
      BY <2>9, ValidatorHolds DEF ResultRejected, ResultAccepted, WriteResult
    <3>2. CASE ResultAccepted(p)
      <4>1. PersistFailure(u, proc[p].turn) \/ rows' = [rows EXCEPT ![u] = BeginAssetCommit(rows[u], proc[p].v)]
        BY <3>2 DEF ResultAccepted
      <4>2. CASE PersistFailure(u, proc[p].turn)
        BY <1>a, <3>1, <4>2, LivePlain DEF PersistFailure
      <4>3. CASE rows' = [rows EXCEPT ![u] = BeginAssetCommit(rows[u], proc[p].v)]
        <5>1. BeginAssetCommit(rows[u], proc[p].v).status = rows[u].status
          BY <3>1 DEF BeginAssetCommit, SetPhase, Row
        <5>2. Plain(rows[u], BeginAssetCommit(rows[u], proc[p].v))
          BY <5>1 DEF Plain
        <5> QED
          BY <1>a, <4>3, <5>2, WritePlain
      <4> QED
        BY <4>1, <4>2, <4>3
    <3>3. CASE (ResultRejected(p) \/ WriteResult(p)) /\ u = t
      BY <1>b, <3>3 DEF Returns
    <3>4. CASE (ResultRejected(p) \/ WriteResult(p)) /\ u # t
      <4>1. PersistFailure(u, proc[p].turn) \/ \E r : rows' = [rows EXCEPT ![u] = r]
        BY <3>4 DEF ResultRejected, WriteResult
      <4>2. rows'[t] = rows[t]
        BY <1>0, <3>4, <4>1 DEF PersistFailure
      <4> QED
        BY <1>a, <4>2, SamePlain
    <3> QED
      BY <2>9, <3>2, <3>3, <3>4
  <2>10. CASE FailTurn(p)
    BY <1>a, <2>10, BoundPlain DEF FailTurn
  <2>11. CASE SweepFailed(p)
    <3> DEFINE u == TaskOf(Head(proc[p].todo)[1])
    <3>1. \/ rows' = rows
          \/ proc[p].todo # <<>> /\ IsFormal(Head(proc[p].todo)[1]) /\ FailIfLive(u)
      BY <2>11 DEF SweepFailed
    <3> QED
      BY <1>a, <1>b, <1>c, <2>11, <3>1, FailPlain DEF GivesUp
  <2> QED
    BY <1>1, <2>1, <2>2, <2>3, <2>4, <2>5, <2>6, <2>7, <2>8, <2>9, <2>10, <2>11 DEF Step
<1>2. ASSUME NEW c \in Clients, Send(c) \/ Deliver(c) PROVE G
  BY <1>c, <1>2 DEF Send, Deliver, store
<1>3. ASSUME NEW u \in Tasks, Enqueue(u) \/ Resume(u) \/ Cancel(u) \/ RetryOutput(u) PROVE G
  <2>0. rows[u] \in Row
    BY RowIn
  <2>1. CASE Enqueue(u)
    BY <1>a, <2>1, WritePlain DEF Enqueue, Plain
  <2>2. CASE Resume(u)
    <3>1. Written(BeginAppServerResume(rows[u]), rows[u], "resuming", NoTurn, "none")
      BY <2>0, ProgressWrites
    <3>2. Plain(rows[u], BeginAppServerResume(rows[u]))
      BY <3>1 DEF Plain, Written
    <3> QED
      BY <1>a, <2>2, <3>2, WritePlain DEF Resume
  <2>3. CASE Cancel(u)
    <3>1. Written(CancelTask(rows[u]), rows[u], "canceled", rows[u].turn, "other")
      BY <2>0, EndWrites
    <3>2. Plain(rows[u], CancelTask(rows[u]))
      BY <3>1 DEF Plain, Written
    <3> QED
      BY <1>a, <2>3, <3>2, WritePlain DEF Cancel
  <2>4. CASE RetryOutput(u)
    <3>1. rows[u].status = "failed"
      BY <2>4 DEF RetryOutput, CanClaimOutputInvalidRetry
    <3>2. Plain(rows[u], ClaimOutputInvalidRetry(rows[u]))
      BY <3>1 DEF Plain
    <3> QED
      BY <1>a, <2>4, <3>2, WritePlain DEF RetryOutput
  <2> QED
    BY <1>3, <2>1, <2>2, <2>3, <2>4
<1>4. ASSUME NEW w \in Workers, NEW x \in Turns, Claim(w, x) PROVE G
  BY <1>c, <1>4 DEF Claim
<1>5. ASSUME NEW x \in Turns, ServerEnds(x) \/ RequeueStale(x) \/ Notify(x) PROVE G
  BY <1>c, <1>5 DEF ServerEnds, RequeueStale, Notify, store
<1>6. CASE NotifyFailure
  BY <1>a, <1>6, BoundPlain DEF NotifyFailure
<1>7. CASE PersistCompletion \/ ExpireLease \/ UNCHANGED vars
  BY <1>c, <1>7 DEF PersistCompletion, ExpireLease, vars, store
<1>8. CASE Restart
  <2>1. /\ HasOpenInbox(rows[t].turn) \in BOOLEAN /\ HasUnsent(t) \in BOOLEAN
        /\ rows'[t] = InterruptInFlight(rows[t], HasOpenInbox(rows[t].turn), HasUnsent(t))
    BY <1>8 DEF Restart, HasOpenInbox, HasUnsent
  <2>2. Plain(rows[t], rows'[t])
    BY <1>0, <2>1, RestartWrites DEF Plain
  <2> QED
    BY <1>a, <2>2
<1>9. CASE Recovering
  BY <1>c, <1>9 DEF Recovering, ResetProcessing, InterruptTurns, ListRecoverable, RecoverSending, RecoverUnsent,
     EndRecovery, store
<1> QED
  BY <1>c, <1>1, <1>2, <1>3, <1>4, <1>5, <1>6, <1>7, <1>8, <1>9 DEF Next, Notifying

\* A message fails its task, and does not end the validation of one.
LEMMA GivesUpPlain ==
  ASSUME TypeInv, NEW t \in Tasks, GivesUp(t), rows[t].status # "awaiting_input"
  PROVE  Plain(rows[t], rows'[t])
<1>0. rows[t] \in Row
  BY RowIn
<1>1. ASSUME FailIfLive(t) PROVE Plain(rows[t], rows'[t])
  BY <1>1, FailPlain
<1>2. ASSUME NEW p \in Procs, FailTaskDelivery(p), TaskOf(proc[p].key) = t PROVE Plain(rows[t], rows'[t])
  BY <1>1, <1>2, FailTaskGoes, SamePlain
<1>3. ASSUME NEW p \in Procs, FailRow(p), TaskOf(proc[p].key) = t PROVE Plain(rows[t], rows'[t])
  <2>1. \/ FailIfLive(t) \/ rows' = rows
        \/ rows[t].status = "queued" /\ rows' = [rows EXCEPT ![t] = FailQueuedTask(rows[t])]
    BY <1>3 DEF FailRow, CanFailQueuedTask
  <2>2. rows[t].status = "queued" => Plain(rows[t], FailQueuedTask(rows[t]))
    BY DEF Plain
  <2> QED
    BY <1>1, <2>1, <2>2, WritePlain, SamePlain
<1>4. ASSUME NEW p \in Procs, SweepFailed(p), proc[p].todo # <<>>, IsFormal(Head(proc[p].todo)[1]),
             TaskOf(Head(proc[p].todo)[1]) = t
      PROVE  Plain(rows[t], rows'[t])
  BY <1>1, <1>4, SamePlain DEF SweepFailed
<1>5. ASSUME NEW p \in Procs, BindReceipt(p), TaskOf(proc[p].key) = t, rows[t].turn \notin {proc[p].turn, NoTurn}
      PROVE  Plain(rows[t], rows'[t])
  BY <1>1, <1>5, SamePlain DEF BindReceipt
<1> QED
  BY <1>2, <1>3, <1>4, <1>5 DEF GivesUp

-----------------------------------------------------------------------------
(* Which messages are on their way                                         *)

\* The recovery lists messages that were not accepted, and adds none later.
LEMMA RecoveryLists ==
  ASSUME TypeInv, TypeInv', [Next]_vars, NEW i \in DOMAIN proc'[Recovery].todo
  PROVE  \/ \E j \in DOMAIN proc[Recovery].todo : proc'[Recovery].todo[i] = proc[Recovery].todo[j]
         \/ outbox[proc'[Recovery].todo[i][1]].state \in {"pending", "queued", "sending"}
<1> DEFINE old == proc[Recovery].todo
           new == proc'[Recovery].todo
           G == \/ \E j \in DOMAIN old : new[i] = old[j]
                \/ outbox[new[i][1]].state \in {"pending", "queued", "sending"}
<1> SUFFICES G
  OBVIOUS
<1>0. /\ proc \in [Procs -> Proc] /\ Recovery \in Procs /\ proc[Recovery] \in Proc /\ Kinds(Recovery, proc[Recovery].pc)
      /\ old \in Seq(Keys \X OutboxStates)
  BY ProcType, KindsDiffer DEF Proc
<1>a. new = old => G
  OBVIOUS
<1>b. new = <<>> => G
  BY EmptyList
<1>c. old # <<>> /\ new = Tail(old) => G
  BY <1>0, TailType
<1> HIDE DEF G
<1>d. proc'[Recovery] = proc[Recovery] => G
  BY <1>a
<1>e. proc'[Recovery] = Idle => G
  BY <1>b, <1>0, IdleLocal
<1>1. ASSUME NEW q \in Procs, Step(q) PROVE G
  <2>1. CASE q # Recovery
    BY <1>0, <1>1, <1>d, <2>1, OthersStay
  <2>2. ASSUME q = Recovery,
               \/ AcquireLease(q) \/ MarkSending(q) \/ Decide(q) \/ SteerAccepted(q) \/ SteerStale(q)
               \/ StartAccepted(q) \/ CallRefused(q) \/ ThreadMissing(q) \/ RecordTurn(q) \/ Accept(q)
               \/ MarkRunning(q) \/ BindTask(q) \/ Refuse(q)
        PROVE  G
    BY <1>a, <1>b, <2>2, DeliveryLeads
  <2>3. ASSUME q = Recovery, FailDelivery(q) \/ FailTaskDelivery(q) PROVE G
    <3>1. Finish(Recovery) \/ \E pc : Goto(Recovery, pc)
      <4>1. CASE FailDelivery(Recovery)
        BY <4>1 DEF FailDelivery
      <4>2. CASE FailTaskDelivery(Recovery)
        BY <1>0, <4>2, FailTaskGoes
      <4> QED
        BY <2>3, <4>1, <4>2
    <3> QED
      BY <1>0, <1>a, <1>e, <3>1, GotoMoves, FinishMoves
  <2>4. q = Recovery => ~(SendTask(q) \/ DeliverTask(q) \/ FailRow(q) \/ BindReceipt(q) \/ Check(q) \/ CompleteTurn(q))
    BY <1>0 DEF Kinds, Delivering, SendTask, DeliverTask, FailRow, BindReceipt, Check, CompleteTurn
  <2>5. q = Recovery => ~(ResultRejected(q) \/ ResultAccepted(q) \/ WriteResult(q) \/ FailTurn(q) \/ RetryCompletion(q))
    BY <1>0 DEF Kinds, Delivering, ResultRejected, ResultAccepted, WriteResult, FailTurn, RetryCompletion
  <2>6. q = Recovery => ~(CloseTurn(q) \/ CloseStatus(q) \/ CompleteCompletion(q) \/ ListPending(q) \/ NextPending(q)
                           \/ ListFailed(q) \/ SweepFailed(q))
    BY <1>0 DEF Kinds, Delivering, CloseTurn, CloseStatus, CompleteCompletion, ListPending, NextPending, ListFailed,
       SweepFailed
  <2> QED
    BY <1>1, <2>1, <2>2, <2>3, <2>4, <2>5, <2>6 DEF Step
<1>2. ASSUME NEW c \in Clients, Send(c) \/ Deliver(c) PROVE G
  <2>1. <<"client", c>> # Recovery
    BY DEF Recovery
  <2> QED
    BY <1>0, <1>2, <1>d, <2>1 DEF Send, Deliver, Finish
<1>3. ASSUME NEW t \in Tasks, Enqueue(t) \/ Resume(t) \/ Cancel(t) \/ RetryOutput(t) PROVE G
  <2>1. <<"enqueue", t>> # Recovery /\ <<"resume", t>> # Recovery /\ <<"retry", t>> # Recovery
    BY DEF Recovery
  <2> QED
    BY <1>0, <1>3, <1>d, <2>1 DEF Enqueue, Resume, Cancel, RetryOutput
<1>4. ASSUME NEW w \in Workers, NEW x \in Turns, Claim(w, x) PROVE G
  <2>1. <<"worker", w>> # Recovery
    BY DEF Recovery
  <2> QED
    BY <1>0, <1>4, <1>d, <2>1 DEF Claim
<1>5. ASSUME NEW x \in Turns, ServerEnds(x) \/ RequeueStale(x) \/ Notify(x) PROVE G
  <2>1. Notifier # Recovery
    BY KindsDiffer
  <2> QED
    BY <1>0, <1>5, <1>d, <2>1 DEF ServerEnds, RequeueStale, Notify
<1>6. CASE NotifyFailure \/ PersistCompletion \/ ExpireLease \/ UNCHANGED vars
  <2>1. Notifier # Recovery
    BY KindsDiffer
  <2> QED
    BY <1>0, <1>6, <1>d, <2>1 DEF NotifyFailure, PersistCompletion, ExpireLease, vars, Goto, Finish
<1>7. CASE Restart
  <2>1. proc'[Recovery].todo = <<>>
    BY <1>0, <1>7 DEF Restart, Idle
  <2> QED
    BY <1>b, <2>1
<1>8. CASE ResetProcessing \/ InterruptTurns
  <2>1. \E pc : Goto(Recovery, pc)
    BY <1>8 DEF ResetProcessing, InterruptTurns
  <2> QED
    BY <1>0, <1>a, <2>1, GotoMoves
<1>9. CASE ListRecoverable
  <2> DEFINE list == Snapshot({"sending"}) \o (IF HasActive THEN <<>> ELSE Snapshot({"pending", "queued"}))
  <2>1. \A j \in DOMAIN list : outbox[list[j][1]].state = list[j][2] /\ list[j][2] \in {"pending", "queued", "sending"}
    BY RecoverableList DEF TypeInv
  <2> HIDE DEF list
  <2>2. new = list
    BY <1>0, <1>9 DEF ListRecoverable, Proc, list
  <2> QED
    BY <2>1, <2>2 DEF G
<1>10. CASE RecoverSending \/ RecoverUnsent
  <2> DEFINE q == proc[Recovery]
             k == Head(q.todo)[1]
             state == Head(q.todo)[2]
             rest == Tail(q.todo)
             pc == IF outbox[k].state = "sending" /\ IsFormal(k) THEN "failTask" ELSE "recover"
  <2>1. /\ q.todo # <<>>
        /\ \/ proc' = [proc EXCEPT ![Recovery] = [q EXCEPT !.pc = pc, !.key = k, !.todo = rest]]
           \/ proc' = [proc EXCEPT ![Recovery] = [q EXCEPT !.pc = "lease", !.key = k, !.seen = state,
                                                           !.turn = NoTurn, !.todo = rest]]
           \/ proc' = [proc EXCEPT ![Recovery] = [q EXCEPT !.todo = rest]]
           \/ Finish(Recovery)
    BY <1>10 DEF RecoverSending, RecoverUnsent
  <2> HIDE DEF pc, k, state, rest
  <2> DEFINE failing == [q EXCEPT !.pc = pc, !.key = k, !.todo = rest]
             leased == [q EXCEPT !.pc = "lease", !.key = k, !.seen = state, !.turn = NoTurn, !.todo = rest]
             passed == [q EXCEPT !.todo = rest]
  <2>a. failing.todo = rest /\ leased.todo = rest /\ passed.todo = rest
    BY <1>0 DEF Proc
  <2>b. \A r : proc' = [proc EXCEPT ![Recovery] = r] => proc'[Recovery] = r
    BY <1>0
  <2>c. Finish(Recovery) => proc'[Recovery] = Idle
    BY <1>0, FinishMoves
  <2> HIDE DEF failing, leased, passed
  <2>2. new = rest \/ proc'[Recovery] = Idle
    BY <2>1, <2>a, <2>b, <2>c DEF failing, leased, passed
  <2> QED
    BY <1>c, <1>e, <2>1, <2>2 DEF rest
<1>11. CASE EndRecovery
  BY <1>0, <1>11, <1>e, FinishMoves DEF EndRecovery
<1> QED
  BY <1>d, <1>1, <1>2, <1>3, <1>4, <1>5, <1>6, <1>7, <1>8, <1>9, <1>10, <1>11 DEF Next, Notifying, Recovering, vars

\* Nothing is on its way for a task that was not enqueued.
LEMMA AbsentSilent ==
  ASSUME Stage, MsgInv, NEW t \in Tasks, rows[t].status = "absent", NEW y \in Answers
  PROVE  ~Underway(<<t, y>>) /\ outbox[<<t, y>>].state # "failed"
<1> DEFINE k == <<t, y>>
<1>0. TypeInv /\ k \in Keys /\ k \notin Chats
  BY TaskKey DEF Stage, Answers
<1>1. outbox[k].state = "absent"
  BY DEF MsgInv, Fresh, Answers
<1>2. ASSUME NEW p \in Procs, proc[p].pc \in Handling, proc[p].key = k PROVE FALSE
  <2>1. proc[p].pc = "send"
    BY <1>1, <1>2 DEF MsgInv, Knowledge, Knows, Handling
  <2>2. p \in Requests
    BY <1>0, <2>1, ProcType, KindsDiffer DEF Kinds, Delivering
  <2>3. CASE y \in Turns
    <3>1. p[1] = "resume"
      BY <1>0, <1>2, <2>1, <2>2, <2>3, RequestOf
    <3> QED
      BY <1>1, <1>2, <2>1, <2>2, <3>1 DEF MsgInv, Knowledge, Knows
  <2>4. CASE y = NoTurn
    <3>1. p = <<"enqueue", t>>
      BY <1>0, <1>2, <2>1, <2>2, <2>4, RequestOf
    <3> QED
      BY <2>1, <3>1 DEF MsgInv, EnqueueAlone, Sending
  <2> QED
    BY <2>3, <2>4 DEF Answers
<1> QED
  BY <1>1, <1>2 DEF Underway

\* Only a message that is on its way fails.
LEMMA FailsUnderway ==
  ASSUME TypeInv, NEW k \in Keys, Fails(k)
  PROVE  Underway(k)
<1>1. ASSUME NEW p \in Procs, FailDelivery(p), proc[p].key = k PROVE Underway(k)
  BY <1>1 DEF FailDelivery, Underway, Handling
<1> QED
  BY <1>1 DEF Fails, Underway

-----------------------------------------------------------------------------
(* The turn a task has                                                     *)

\* What the steps below start from: a step of a console that goes on.
TurnStep == GoesStep /\ ~Restart /\ MsgInv /\ TurnInv

\* A worker or the recovery that delivers from its list has no message of a
\* task that has its turn, and the tasks of its other messages do not run.
LEMMA EntersChat ==
  ASSUME TurnStep, NEW p \in Pool \cup {Recovery}, Enters(p)
  PROVE  proc'[p].key \in Chats
<1>0. /\ TypeInv /\ TypeInv' /\ p \in Procs /\ p \notin Senders \cup Requests
  BY KindsDiffer DEF TurnStep, GoesStep, Stage
<1>1. /\ proc[p].pc = (IF p = Recovery THEN "recover" ELSE "after")
      /\ proc[p].todo # <<>> /\ proc'[p].key = Head(proc[p].todo)[1] /\ Deliverable(proc'[p].key)
  BY <1>0 DEF Enters
<1>2. ASSUME proc'[p].key \notin Chats PROVE FALSE
  <2>1. proc'[p].key \in Keys \ Chats
    BY <1>0, <1>1, <1>2, HeadIn
  <2> DEFINE t == TaskOf(proc'[p].key)
             y == proc'[p].key[2]
  <2>2. t \in Tasks /\ y \in Answers /\ proc'[p].key = <<t, y>>
    BY <2>1, TaskOfKey DEF Answers
  <2>3. rows[t].status = "running"
    BY <1>1, <1>2 DEF Deliverable, IsFormal
  <2>4. 1 \in DOMAIN proc[p].todo /\ proc[p].todo[1][1] = <<t, y>>
    BY <1>0, <1>1, <2>2, HeadIn
  <2>5. proc[p].pc # "idle" /\ (p \in Pool => proc[p].pc \in Listing)
    <3>1. p \in Pool => p # Recovery
      BY KindsDiffer
    <3> QED
      BY <1>1, <3>1 DEF Listing
  <2> HIDE DEF t, y
  <2> QED
    BY <2>2, <2>3, <2>4, <2>5 DEF TurnStep, TurnInv, Unlisted, Turned
<1> QED
  BY <1>2

\* What is on its way was so before, or is asked for now.
LEMMA UnderwayComes ==
  ASSUME TurnStep, NEW t \in Tasks, NEW y \in Answers, Underway(<<t, y>>)'
  PROVE  \/ Underway(<<t, y>>)
         \/ Enqueue(t) /\ y = NoTurn
         \/ Resume(t) /\ y = rows[t].turn
<1> DEFINE k == <<t, y>>
           G == Underway(k) \/ (Enqueue(t) /\ y = NoTurn) \/ (Resume(t) /\ y = rows[t].turn)
<1> SUFFICES G
  OBVIOUS
<1>0. /\ TypeInv /\ TypeInv' /\ k \in Keys /\ k \notin Chats /\ OutboxStep(k) /\ Going
      /\ GoesStep /\ Knowledge /\ Answers = Turns \cup {NoTurn}
  BY TaskKey DEF TurnStep, GoesStep, Stage, OutboxSteps, MsgInv, Answers
<1>1. CASE outbox'[k].state \in {"pending", "queued", "sending"}
  <2>1. outbox[k].state \in {"absent", "pending", "queued", "sending"}
    BY <1>0, <1>1 DEF OutboxStep
  <2>2. ASSUME outbox[k].state = "absent" PROVE G
    <3>1. y \in Turns => Resume(t) /\ y = rows[t].turn
      BY <1>0, <1>1, <2>2, TaskMessage
    <3>2. ASSUME y = NoTurn PROVE Underway(k)
      <4>1. proc[<<"enqueue", t>>].pc = "send" /\ <<"enqueue", t>> \in Requests
        BY <1>0, <1>1, <2>2, <3>2, NoTurnAssumption, TaskMessage DEF Requests
      <4>2. proc[<<"enqueue", t>>].key = k /\ <<"enqueue", t>> \in Procs
        BY <1>0, <3>2, <4>1, KindsDiffer, ProcType DEF Carries
      <4> QED
        BY <4>1, <4>2 DEF Underway, Handling
    <3> QED
      BY <1>0, <3>1, <3>2
  <2> QED
    BY <2>1, <2>2 DEF Underway
<1>2. ASSUME NEW p \in Procs, proc'[p].pc \in Handling, proc'[p].key = k PROVE G
  <2>0. Waits(p) /\ Delivers(p)
    BY <1>0 DEF Going, Goes
  <2>a. ASSUME proc[p].pc \in Handling, proc[p].key = k PROVE G
    BY <2>a DEF Underway
  <2>1. CASE proc'[p].pc = "send"
    <3>1. ASSUME NEW u \in Tasks, Enqueue(u), p = <<"enqueue", u>> PROVE G
      <4>1. p \in Requests /\ p[2] = u /\ p[1] = "enqueue"
        BY <3>1 DEF Requests
      <4>2. k \in {u} \X {NoTurn}
        BY <1>0, <1>2, <2>1, <4>1, ProcessNow DEF Carries
      <4> QED
        BY <3>1, <4>2
    <3>2. ASSUME NEW u \in Tasks, Resume(u), proc'[p].key = <<u, rows[u].turn>> PROVE G
      <4>1. u = t /\ y = rows[t].turn
        BY <1>2, <3>2
      <4> QED
        BY <3>2, <4>1
    <3> QED
      BY <1>2, <2>0, <2>1, <2>a, <3>1, <3>2 DEF Waits
  <2>2. CASE proc'[p].pc = "lock"
    <3>1. p \notin Senders
      BY <1>0, <1>2, <2>2, ProcessNow DEF Carries
    <3>2. proc[p].pc \in Handling /\ proc[p].key = k
      BY <1>2, <2>0, <2>2, <3>1 DEF Waits, Handling
    <3> QED
      BY <2>a, <3>2
  <2>3. CASE proc'[p].pc = "failOutbox"
    <3>1. proc[p].pc \in Handling /\ proc[p].key = k
      BY <1>2, <2>0, <2>3 DEF Delivers, Handling
    <3> QED
      BY <2>a, <3>1
  <2>4. CASE proc'[p].pc \in Delivering
    <3>1. CASE proc[p].pc \in Delivering /\ proc'[p].key = proc[p].key
      BY <1>2, <2>a, <3>1 DEF Handling
    <3>2. CASE Enters(p)
      <4>1. p \notin Pool \cup {Recovery}
        BY <1>0, <1>2, <3>2, EntersChat
      <4>2. proc[p].pc \in Handling /\ proc[p].key = k
        BY <1>2, <3>2, <4>1 DEF Enters, Handling
      <4> QED
        BY <2>a, <4>2
    <3> QED
      BY <2>0, <2>4, <3>1, <3>2 DEF Delivers
  <2> QED
    BY <1>2, <2>1, <2>2, <2>3, <2>4 DEF Handling
<1> QED
  BY <1>1, <1>2 DEF Underway

\* ... and so was what fails.
LEMMA FailedComes ==
  ASSUME TurnStep, NEW k \in Keys, outbox'[k].state = "failed"
  PROVE  Underway(k) \/ outbox[k].state = "failed"
<1>1. OutboxStep(k) /\ TypeInv
  BY DEF TurnStep, GoesStep, OutboxSteps, Stage
<1>2. outbox[k].state = "failed" \/ Fails(k)
  BY <1>1 DEF OutboxStep
<1> QED
  BY <1>1, <1>2, FailsUnderway

\* An answer unbinds its turn, and is given to a task that waits.
LEMMA ResumeUnbinds ==
  ASSUME TypeInv, NEW t \in Tasks, Resume(t)
  PROVE  /\ rows[t].status = "awaiting_input" /\ rows[t].turn \in Turns
         /\ rows'[t].status = "resuming" /\ rows'[t].turn = NoTurn
         /\ proc[<<"resume", t>>].pc = "idle"
<1>1. rows[t] \in Row /\ rows'[t] = BeginAppServerResume(rows[t])
  BY RowIn DEF Resume
<1>2. Written(BeginAppServerResume(rows[t]), rows[t], "resuming", NoTurn, "none")
  BY <1>1, ProgressWrites
<1> QED
  BY <1>1, <1>2, RowIn DEF Resume, CanBeginAppServerResume, Written

\* Only a request binds a turn to a task.
LEMMA RequestBinds ==
  ASSUME TurnStep, NEW t \in Tasks, NEW p \in Procs, Binds(p, t)
  PROVE  /\ p \in Requests /\ proc[p].pc = "bindTask"
         /\ \E y \in Answers : proc[p].key = <<t, y>>
         /\ outbox[proc[p].key].state = "accepted"
<1>1. /\ proc[p].pc = "bindTask" /\ proc[p].key \in Keys \ Chats
      /\ p \in Pool \cup {Recovery} \/ p = <<"enqueue", t>> \/ p = <<"resume", t>>
      /\ \E y \in Answers : proc[p].key = <<t, y>>
  BY BindsOf DEF TurnStep, Answers
<1>2. p \notin Pool \cup {Recovery}
  BY <1>1 DEF TurnStep, TurnInv, ChatsOnly, Delivering
<1>3. p \in Requests
  BY <1>1, <1>2 DEF Requests
<1> QED
  BY <1>1, <1>3 DEF TurnStep, TurnInv, AcceptedKept

\* A task that has its turn had it before, or a request binds it.
LEMMA TurnedComes ==
  ASSUME TurnStep, NEW t \in Tasks, Turned(t)'
  PROVE  \/ Turned(t) /\ rows'[t].turn = rows[t].turn /\ rows[t].turn \in Turns
         \/ \E p \in Requests : Binds(p, t)
<1> DEFINE G == \/ Turned(t) /\ rows'[t].turn = rows[t].turn /\ rows[t].turn \in Turns
                \/ \E p \in Requests : Binds(p, t)
<1> SUFFICES G
  OBVIOUS
<1>0. /\ TypeInv /\ AppServerTasks /\ [Next]_vars /\ TaskStep(t) /\ GoesStep /\ ~Restart /\ OutboxSteps /\ TurnIsLast /\ Validated
      /\ rows[t] \in Row /\ rows[t].turn \in Turns \cup {NoTurn}
  BY RowIn DEF TurnStep, GoesStep, Stage, TaskSteps, TurnInv
<1>a. ASSUME Turned(t), rows'[t].turn = rows[t].turn PROVE G
  BY <1>0, <1>a DEF TurnIsLast
<1>b. ASSUME NEW p \in Procs, Binds(p, t) PROVE G
  BY <1>b, RequestBinds
<1>k. ASSUME rows[t].turn \in Turns, outbox'[<<t, rows[t].turn>>].state = "absent"
      PROVE  outbox[<<t, rows[t].turn>>].state = "absent"
  BY <1>0, <1>k, TaskKey, MessageStays
<1> HIDE DEF G
<1>1. CASE Becomes(t, rows[t].status, rows[t].turn, rows[t].error)
  <2>1. Turned(t)
    BY <1>1, <1>k DEF Turned, Becomes
  <2> QED
    BY <1>1, <1>a, <2>1 DEF Becomes
<1>2. CASE \/ Enqueue(t) /\ Becomes(t, "queued", rows[t].turn, rows[t].error)
           \/ Becomes(t, "resuming", NoTurn, "none")
           \/ \E end \in {"failed", "canceled", "interrupted"} : Becomes(t, end, rows[t].turn, "other")
  BY <1>2, NoTurnAssumption DEF Turned, Becomes
<1>3. CASE rows[t].status = "failed" /\ rows[t].error = "output_invalid" /\ Becomes(t, "resuming", rows[t].turn, "none")
  BY <1>3, <1>a DEF Turned, Becomes
<1>4. CASE \E p \in Procs : /\ BindTask(p) /\ TaskOf(proc[p].key) = t /\ proc[p].turn \in Turns
                            /\ rows[t].status = IF IsResume(proc[p].key) THEN "resuming" ELSE "queued"
                            /\ Becomes(t, "running", proc[p].turn, rows[t].error)
  BY <1>4, <1>b DEF Binds
<1>5. ASSUME NEW p \in Requests, BindReceipt(p), p[2] = t, rows[t].turn = NoTurn,
             Becomes(t, rows[t].status, proc[p].turn, rows[t].error)
      PROVE  G
  <2>1. proc[p].pc = "bind" /\ proc[p].turn \in Turns /\ p \in Procs
    BY <1>5, KindsDiffer DEF BindReceipt, TurnStep, GoesStep, Stage, StartedFor
  <2>2. outbox[<<t, proc[p].turn>>].state # "absent"
    BY <1>5, <2>1, NoTurnAssumption DEF TurnStep, MsgInv, BoundOnce
  <2>3. outbox'[<<t, proc[p].turn>>].state # "absent"
    BY <1>0, <2>1, <2>2, TaskKey, MessageStays
  <2>4. Turned(t)
    BY <1>5, <2>3 DEF Turned, Becomes
  <2> QED
    BY <1>0, <1>5, <2>4, NoTurnAssumption DEF TurnIsLast
<1>6. CASE /\ rows[t].status = "resuming" /\ rows[t].turn \in Turns
           /\ \/ \E error \in Errors : Becomes(t, "failed", rows[t].turn, error)
              \/ \E end \in {"awaiting_input", "completed"} : Becomes(t, end, rows[t].turn, "none")
  <2>1. ~Plain(rows[t], rows'[t])
    BY <1>6 DEF Plain, Becomes, Turned
  <2>3. Returns(t)
    BY <1>0, <1>6, <2>1, RowOutcome, GivesUpPlain
  <2>4. outbox[<<t, rows[t].turn>>].state = "absent"
    <3>1. PICK p \in Procs : proc[p].pc \in Validating /\ TaskOf(proc[p].key) = t
      BY <2>3 DEF Returns, ResultRejected, WriteResult, Validating
    <3> QED
      BY <1>0, <1>6, <3>1 DEF Validated
  <2>5. Turned(t)
    BY <1>6, <2>4 DEF Turned
  <2> QED
    BY <1>6, <1>a, <2>5 DEF Becomes
<1>7. CASE rows[t].status = "running" /\ Becomes(t, "resuming", rows[t].turn, rows[t].error)
  BY <1>7, <1>a DEF Turned, Becomes
<1> QED
  BY <1>0, <1>1, <1>2, <1>3, <1>4, <1>5, <1>6, <1>7 DEF TaskStep

\* The turn a task has is the last it was sent for, and nothing is on its way.
LEMMA TurnIsLastStep ==
  ASSUME TurnStep
  PROVE  TurnIsLast'
<1>0. TypeInv /\ GoesStep /\ TurnIsLast /\ OneUnderway /\ Untouched /\ Knowledge /\ StartedFor
  BY DEF TurnStep, TurnInv, GoesStep, Stage, MsgInv
<1>1. ASSUME NEW t \in Tasks, Turned(t)'
      PROVE  /\ rows'[t].turn \in Turns /\ outbox'[<<t, rows'[t].turn>>].state = "absent"
             /\ \A y \in Answers : ~Underway(<<t, y>>)' /\ outbox'[<<t, y>>].state # "failed"
  <2>1. CASE Turned(t) /\ rows'[t].turn = rows[t].turn /\ rows[t].turn \in Turns
    <3>1. ~Resume(t) /\ ~Enqueue(t)
      <4>1. ~Resume(t)
        BY <1>0, <2>1, NoTurnAssumption, ResumeUnbinds
      <4>2. ~Enqueue(t)
        BY <2>1 DEF Turned, Enqueue
      <4> QED
        BY <4>1, <4>2
    <3>2. outbox'[<<t, rows'[t].turn>>].state = "absent"
      BY <1>0, <2>1, <3>1, TaskMessage DEF TurnIsLast
    <3>3. ASSUME NEW y \in Answers PROVE ~Underway(<<t, y>>)' /\ outbox'[<<t, y>>].state # "failed"
      <4>1. ~Underway(<<t, y>>) /\ outbox[<<t, y>>].state # "failed" /\ <<t, y>> \in Keys
        BY <1>0, <2>1, TaskKey DEF TurnIsLast, Answers
      <4>2. ~Underway(<<t, y>>)'
        BY <3>1, <4>1, UnderwayComes
      <4> QED
        BY <4>1, <4>2, FailedComes
    <3> QED
      BY <2>1, <3>2, <3>3
  <2>2. ASSUME NEW p \in Requests, Binds(p, t)
        PROVE  /\ rows'[t].turn \in Turns /\ outbox'[<<t, rows'[t].turn>>].state = "absent"
               /\ \A y \in Answers : ~Underway(<<t, y>>)' /\ outbox'[<<t, y>>].state # "failed"
    <3> DEFINE x == proc[p].turn
               k == proc[p].key
    <3>0. /\ p \in Procs /\ proc[p].pc = "bindTask" /\ k \in Keys \ Chats /\ outbox' = outbox
          /\ proc'[p].pc \in {"idle", "bind"} /\ \A q \in Procs : proc'[q].pc \notin Delivering
          /\ rows[t].status \in {"queued", "resuming"}
      BY <1>0, <2>2, KindsDiffer, BindsOf
    <3>1. PICK z \in Answers : k = <<t, z>>
      BY <2>2, <3>0, RequestBinds
    <3>2. outbox[k].state = "accepted"
      BY <2>2, <3>0, RequestBinds
    <3>3. rows'[t].turn = x /\ x \in Turns
      BY <2>2 DEF Binds, Becomes
    <3>4. outbox[<<t, x>>].state = "absent"
      <4>1. New(x)
        BY <3>0 DEF New, IsFormal
      <4> QED
        BY <1>0, <3>3, <4>1 DEF Untouched
    <3>5. Underway(k)
      BY <3>0 DEF Underway, Handling, Delivering
    <3>6. ~Enqueue(t) /\ ~Resume(t)
      BY <1>0, <3>0, ResumeUnbinds DEF Enqueue
    <3>7. ASSUME NEW y \in Answers PROVE ~Underway(<<t, y>>)' /\ outbox'[<<t, y>>].state # "failed"
      <4>1. CASE y # z
        <5>1. ~Underway(<<t, y>>) /\ outbox[<<t, y>>].state # "failed"
          BY <1>0, <3>1, <3>5, <4>1 DEF OneUnderway
        <5> QED
          BY <3>0, <3>6, <5>1, UnderwayComes
      <4>2. CASE y = z
        <5>1. ASSUME NEW q \in Procs, proc'[q].pc \in {"send", "lock", "failOutbox"}, proc'[q].key = k PROVE FALSE
          <6>1. q # p
            BY <3>0, <5>1
          <6>2. proc'[q] = proc[q]
            BY <1>0, <2>2, <3>0, <6>1, OthersStay DEF Step, Binds
          <6>3. q \in Senders => FALSE
            BY <1>0, <3>0, <5>1, <6>2, ProcType DEF Carries
          <6>4. q \in Requests => FALSE
            <7>1. q \in Requests /\ p \in Requests => proc[q].pc # "idle" /\ proc[p].pc # "idle"
              BY <3>0, <5>1, <6>2
            <7>2. q \in Requests => q = p
              <8>1. CASE z = NoTurn
                BY <1>0, <2>2, <3>1, <5>1, <6>2, <7>1, <8>1, RequestOf
              <8>2. CASE z \in Turns
                BY <1>0, <2>2, <3>1, <5>1, <6>2, <7>1, <8>2, RequestOf
              <8> QED
                BY <8>1, <8>2 DEF Answers
            <7> QED
              BY <6>1, <7>2
          <6>5. q \in Pool \cup {Recovery} => FALSE
            <7>1. q \in Pool \cup {Recovery} => proc[q].pc = "failOutbox"
              BY <1>0, <5>1, <6>2, ProcType, KindsDiffer DEF Kinds, Delivering
            <7> QED
              BY <3>0, <5>1, <6>2, <7>1 DEF TurnStep, TurnInv, ChatsOnly
          <6>6. q \in Retries \cup {Notifier} => FALSE
            BY <1>0, <5>1, <6>2, ProcType DEF Kinds
          <6> QED
            BY <6>3, <6>4, <6>5, <6>6, KindsDiffer
        <5>2. ~Underway(<<t, z>>)'
          BY <3>0, <3>1, <3>2, <5>1 DEF Underway, Handling
        <5> QED
          BY <3>0, <3>1, <3>2, <4>2, <5>2
      <4> QED
        BY <4>1, <4>2
    <3> QED
      BY <3>0, <3>3, <3>4, <3>7
  <2> QED
    BY <1>1, <2>1, <2>2, TurnedComes
<1> QED
  BY <1>1 DEF TurnIsLast

\* A request is the only one of its task that is on its way.
LEMMA OneUnderwayStep ==
  ASSUME TurnStep
  PROVE  OneUnderway'
<1>0. TypeInv /\ Stage /\ MsgInv /\ TurnIsLast /\ OneUnderway
  BY DEF TurnStep, TurnInv, GoesStep, Stage
<1> DEFINE Bad(t, y) == Underway(<<t, y>>) \/ outbox[<<t, y>>].state = "failed"
<1>1. ASSUME NEW t \in Tasks, Enqueue(t) \/ Resume(t), NEW y \in Answers PROVE ~Bad(t, y)
  <2>1. CASE Enqueue(t)
    BY <1>0, <2>1, AbsentSilent DEF Enqueue
  <2>2. CASE Resume(t)
    <3>1. Turned(t)
      BY <1>0, <2>2, ResumeUnbinds DEF Turned
    <3> QED
      BY <1>0, <3>1 DEF TurnIsLast
  <2> QED
    BY <1>1, <2>1, <2>2
<1>2. ASSUME NEW t \in Tasks, NEW y \in Answers, (Underway(<<t, y>>) \/ outbox[<<t, y>>].state = "failed")'
      PROVE  \/ Bad(t, y)
             \/ Enqueue(t) /\ y = NoTurn
             \/ Resume(t) /\ y = rows[t].turn
  <2>1. <<t, y>> \in Keys
    BY TaskKey DEF Answers
  <2> QED
    BY <1>2, <2>1, UnderwayComes, FailedComes
<1>3. ASSUME NEW t \in Tasks, NEW y \in Answers, NEW z \in Answers, Underway(<<t, z>>)',
             (Underway(<<t, y>>) \/ outbox[<<t, y>>].state = "failed")'
      PROVE  y = z
  <2>1. \/ Underway(<<t, z>>)
        \/ Enqueue(t) /\ z = NoTurn
        \/ Resume(t) /\ z = rows[t].turn
    BY <1>3, UnderwayComes
  <2>2. \/ Bad(t, y)
        \/ Enqueue(t) /\ y = NoTurn
        \/ Resume(t) /\ y = rows[t].turn
    BY <1>2, <1>3
  <2>3. ~(Enqueue(t) /\ Resume(t))
    BY <1>0, ResumeUnbinds DEF Enqueue
  <2>4. Underway(<<t, z>>) => Bad(t, z)
    OBVIOUS
  <2>5. Underway(<<t, z>>) /\ Bad(t, y) => y = z
    BY <1>0 DEF OneUnderway
  <2> HIDE DEF Bad
  <2> QED
    BY <1>1, <2>1, <2>2, <2>3, <2>4, <2>5
<1> QED
  BY <1>3 DEF OneUnderway

\* Workers and the recovery deliver the messages of chats.
LEMMA ChatsOnlyStep ==
  ASSUME TurnStep
  PROVE  ChatsOnly'
<1>1. ASSUME NEW p \in Pool \cup {Recovery}, proc'[p].pc \in Delivering \cup {"failOutbox"}
      PROVE  proc'[p].key \in Chats
  <2>1. /\ p \in Procs /\ Delivers(p) /\ TypeInv /\ ChatsOnly
    BY KindsDiffer DEF TurnStep, GoesStep, Stage, Going, Goes, TurnInv
  <2>2. proc[p].pc # "send"
    BY <2>1, ProcType, KindsDiffer DEF Kinds, Delivering
  <2> QED
    BY <1>1, <2>1, <2>2, EntersChat DEF Delivers, ChatsOnly
<1> QED
  BY <1>1 DEF ChatsOnly

\* A message is not listed for a task that has its turn.
LEMMA UnlistedStep ==
  ASSUME TurnStep
  PROVE  Unlisted'
<1>0. TypeInv /\ TypeInv' /\ GoesStep /\ [Next]_vars /\ TurnIsLast /\ Unlisted /\ Going /\ RequestsServe
  BY DEF TurnStep, TurnInv, GoesStep, Stage, MsgInv
<1>1. ASSUME NEW t \in Tasks, NEW p \in Pool \cup {Recovery}, Turned(t)', proc'[p].pc # "idle",
             p \in Pool => proc'[p].pc \in Listing,
             NEW i \in DOMAIN proc'[p].todo, NEW y \in Answers, proc'[p].todo[i][1] = <<t, y>>
      PROVE  FALSE
  <2>0. p \in Procs /\ Recalls(p) /\ Begins(p)
    BY <1>0, KindsDiffer DEF Going, Goes
  <2>1. CASE Turned(t)
    <3>1. ASSUME NEW j \in DOMAIN proc[p].todo, proc'[p].todo[i] = proc[p].todo[j],
                 p \in Pool => proc[p].pc \in Listing
          PROVE  FALSE
      <4>1. proc[p].pc # "idle"
        <5>1. p # Recovery => p \in Pool
          OBVIOUS
        <5> QED
          BY <1>1, <2>0, <3>1, <5>1 DEF Begins, Listing, Delivering
      <4> QED
        BY <1>0, <1>1, <2>1, <3>1, <4>1 DEF Unlisted
    <3>2. ~Underway(<<t, y>>)
      BY <1>0, <2>1 DEF TurnIsLast
    <3>3. CASE p \in Pool
      BY <1>1, <2>0, <3>1, <3>2, <3>3 DEF Recalls, Underway
    <3>4. CASE p = Recovery
      <4>1. p \notin Pool
        BY <3>4, KindsDiffer
      <4> QED
        BY <1>0, <1>1, <3>1, <3>2, <3>4, <4>1, RecoveryLists DEF Underway
    <3> QED
      BY <3>3, <3>4
  <2>2. ASSUME NEW q \in Requests, Binds(q, t) PROVE FALSE
    <3>1. q \in Procs /\ q # Recovery /\ proc[q].pc = "bindTask" /\ (p \in Pool => proc'[p].pc \notin Listing)
      BY <1>0, <2>0, <2>2, KindsDiffer, BindsOf
    <3>2. proc[Recovery].pc = "idle"
      BY <1>0, <3>1 DEF RequestsServe, Serving
    <3> QED
      BY <1>1, <2>0, <3>1, <3>2 DEF Begins
  <2> QED
    BY <1>1, <2>1, <2>2, TurnedComes
<1> QED
  BY <1>1 DEF Unlisted

\* An accepted message stays accepted until its request has bound the turn.
LEMMA AcceptedKeptStep ==
  ASSUME TurnStep
  PROVE  AcceptedKept'
<1>0. TypeInv /\ TypeInv' /\ GoesStep /\ [Next]_vars /\ AcceptedKept /\ ChatsOnly
  BY DEF TurnStep, TurnInv, GoesStep, Stage
<1>1. ASSUME NEW p \in Requests, proc'[p].pc \in {"status", "bindTask"}
      PROVE  outbox'[proc'[p].key].state = "accepted"
  <2>0. p \in Procs
    BY KindsDiffer
  <2>1. CASE proc'[p] = proc[p]
    <3> DEFINE k == proc[p].key
    <3>1. /\ proc[p].pc \in {"status", "bindTask"} /\ proc[p].pc # "idle" /\ k \in Keys \ Chats
          /\ outbox[k].state = "accepted" /\ OutboxStep(k)
      BY <1>0, <1>1, <2>1, RequestOf DEF AcceptedKept, GoesStep, OutboxSteps
    <3>2. ASSUME NEW q \in Procs, FailDelivery(q), proc[q].key = k PROVE FALSE
      <4>1. proc[q].pc = "failOutbox" /\ q # p
        BY <3>1, <3>2 DEF FailDelivery
      <4>2. q \in Requests
        BY <1>0, <3>1, <3>2, <4>1, ProcType, KindsDiffer DEF Kinds, Delivering, ChatsOnly
      <4>3. q = p
        <5>1. proc[q].pc # "idle"
          BY <4>1
        <5>2. PICK u \in Tasks, y \in Turns \cup {NoTurn} : k = <<u, y>>
          BY <3>1, TaskOfKey
        <5> QED
          BY <1>0, <3>1, <3>2, <4>2, <5>1, <5>2, RequestOf
      <4> QED
        BY <4>1, <4>3
    <3>3. outbox'[k].state = "accepted"
      BY <3>1, <3>2 DEF OutboxStep, Fails
    <3> QED
      BY <2>1, <3>3
  <2>2. CASE Accept(p) /\ proc'[p].pc = "status"
    <3>1. proc[p].pc = "accept" /\ mutex = p /\ proc[p].pc \in Delivering
      BY <2>2 DEF Accept, Delivering
    <3>2. ~Exit(p, FALSE)
      BY <1>0, <2>0, <2>2, <3>1, ExitMoves, IdleHolds
    <3>3. SetOutbox(proc[p].key, "sending", "accepted", proc[p].turn) /\ Goto(p, "status")
      BY <2>2, <3>2 DEF Accept
    <3>4. proc'[p].key = proc[p].key /\ proc[p].key \in Keys
      BY <1>0, <2>0, <3>1, <3>3, GotoMoves, DeliveredKey
    <3> QED
      BY <1>0, <3>3, <3>4 DEF SetOutbox, TypeInv, TypeOK
  <2>3. CASE MarkRunning(p) /\ KeepsCall(p)
    BY <1>0, <2>3 DEF MarkRunning, KeepsCall, AcceptedKept
  <2> QED
    BY <1>0, <1>1, <2>0, <2>1, <2>2, <2>3, AcceptStep
<1> QED
  BY <1>1 DEF AcceptedKept

\* A task is failed with a message that failed.
LEMMA GivenUpStep ==
  ASSUME TurnStep
  PROVE  GivenUp'
<1>0. TypeInv /\ TypeInv' /\ [Next]_vars /\ GivenUp /\ OutboxSteps /\ proc \in [Procs -> Proc]
  BY ProcType DEF TurnStep, TurnInv, GoesStep, Stage, TypeInv, TypeOK
<1>1. ASSUME NEW p \in Procs, proc'[p].pc \in {"failTask", "failRow"}
      PROVE  outbox'[proc'[p].key].state = "failed"
  <2>0. proc[p] \in Proc
    BY <1>0
  <2>1. CASE proc'[p] = proc[p]
    <3>1. proc[p].key \in Keys
      BY <1>0, <1>1, <2>1, ProcType, RequestOf, KindsDiffer DEF Kinds, Delivering, Carries
    <3> QED
      BY <1>0, <1>1, <2>1, <3>1, MessageStays DEF GivenUp
  <2>2. CASE FailDelivery(p)
    <3>1. proc[p].key \in Keys
      BY <1>0, <2>2, ProcType DEF Carries, FailDelivery
    <3>2. proc'[p].key = proc[p].key
      BY <1>0, <2>2, GotoMoves DEF FailDelivery
    <3> QED
      BY <1>0, <2>2, <3>1, <3>2 DEF FailDelivery, TypeInv, TypeOK
  <2>3. CASE FailTaskDelivery(p)
    <3>1. proc[p].pc = "failTask" /\ outbox' = outbox /\ (Finish(p) \/ \E pc : Goto(p, pc))
      BY <1>0, <2>3, FailTaskGoes
    <3>2. proc'[p].key = proc[p].key
      BY <1>0, <1>1, <3>1, GotoMoves, FinishMoves, IdleHolds
    <3> QED
      BY <1>0, <3>1, <3>2 DEF GivenUp
  <2>4. CASE p = Recovery /\ RecoverSending
    <3> DEFINE k == Head(proc[p].todo)[1]
               pc == IF outbox[k].state = "sending" /\ IsFormal(k) THEN "failTask" ELSE "recover"
               rest == Tail(proc[p].todo)
    <3>1. /\ proc[p].todo # <<>> /\ proc' = [proc EXCEPT ![p] = [proc[p] EXCEPT !.pc = pc, !.key = k, !.todo = rest]]
          /\ outbox[k].state = "sending" => outbox' = [outbox EXCEPT ![k].state = "failed"]
      BY <2>4 DEF RecoverSending
    <3>2. k \in Keys
      BY <1>0, <3>1, HeadIn
    <3> HIDE DEF k, rest
    <3>3. proc'[p].pc = pc /\ proc'[p].key = k
      BY <1>0, <2>0, <3>1 DEF Proc
    <3> QED
      BY <1>0, <1>1, <3>1, <3>2, <3>3 DEF TypeInv, TypeOK
  <2>5. CASE ListFailed(p)
    BY <1>0, <1>1, <2>0, <2>5 DEF ListFailed, Proc
  <2>6. CASE SweepFailed(p)
    BY <1>0, <1>1, <2>0, <2>6, FinishMoves, IdleHolds DEF SweepFailed, Proc
  <2>7. CASE CompleteTurn(p)
    BY <1>0, <1>1, <2>0, <2>7 DEF CompleteTurn, Goto, Proc
  <2>8. CASE ResultAccepted(p)
    BY <1>0, <1>1, <2>0, <2>8, IdleHolds DEF ResultAccepted, AfterResult, Proc
  <2>9. ASSUME NEW t \in Tasks, RetryOutput(t), p = <<"retry", t>> PROVE FALSE
    BY <1>0, <1>1, <2>0, <2>9 DEF RetryOutput, Proc, Idle
  <2> QED
    BY <1>0, <1>1, <2>1, <2>2, <2>3, <2>4, <2>5, <2>6, <2>7, <2>8, <2>9, LateComes DEF Late
<1>2. ASSUME NEW p \in Pool, proc'[p].pc = "sweep", NEW i \in DOMAIN proc'[p].todo
      PROVE  outbox'[proc'[p].todo[i][1]].state = "failed"
  <2>0. p \in Procs /\ proc[p] \in Proc /\ p # Recovery /\ p \notin Requests /\ p \notin Retries
    BY <1>0, KindsDiffer
  <2>a. ASSUME NEW k \in Keys, outbox[k].state = "failed" PROVE outbox'[k].state = "failed"
    BY <1>0, <2>a, MessageStays
  <2>1. CASE proc'[p] = proc[p]
    <3>1. proc[p].todo \in Seq(Keys \X OutboxStates)
      BY <2>0 DEF Proc
    <3> QED
      BY <1>0, <1>2, <2>a, <2>1, <3>1 DEF GivenUp
  <2>2. CASE FailDelivery(p) \/ FailTaskDelivery(p)
    <3>1. CASE FailTaskDelivery(p)
      <4>1. Finish(p) \/ \E pc \in {"failRow", "after", "recover"} : Goto(p, pc)
        BY <1>0, <2>0, <3>1, FailTaskGoes
      <4>2. proc'[p].pc \in {"failRow", "after", "recover", "idle"}
        BY <1>0, <2>0, <4>1, FinishMoves, GotoMoves, IdleHolds
      <4> QED
        BY <1>2, <4>2
    <3> QED
      BY <1>0, <1>2, <2>0, <2>2, <3>1 DEF FailDelivery, Goto, Proc
  <2>3. CASE ListFailed(p)
    <3> DEFINE list == Snapshot({"failed"})
    <3>1. \A j \in DOMAIN list : outbox[list[j][1]].state = "failed"
      BY <1>0, SnapshotType DEF TypeInv, OutboxStates
    <3> HIDE DEF list
    <3>2. proc'[p].todo = list /\ outbox' = outbox
      BY <1>0, <2>0, <2>3 DEF ListFailed, Proc, list, store
    <3> QED
      BY <1>2, <3>1, <3>2
  <2>4. CASE SweepFailed(p)
    <3>1. ~Finish(p)
      BY <1>0, <1>2, <2>0, FinishMoves, IdleHolds
    <3>2. /\ proc[p].todo # <<>> /\ proc[p].pc = "sweep" /\ outbox' = outbox
          /\ proc' = [proc EXCEPT ![p] = [proc[p] EXCEPT !.todo = Tail(proc[p].todo)]]
      BY <2>4, <3>1 DEF SweepFailed
    <3>3. proc'[p].todo = Tail(proc[p].todo) /\ proc[p].todo \in Seq(Keys \X OutboxStates)
      BY <1>0, <2>0, <3>2 DEF Proc
    <3> DEFINE todo == proc[p].todo
    <3>4. i + 1 \in DOMAIN todo /\ Tail(todo)[i] = todo[i + 1]
      <4>1. i \in DOMAIN Tail(todo) /\ todo \in Seq(Keys \X OutboxStates) /\ todo # <<>>
        BY <1>2, <3>2, <3>3
      <4> HIDE DEF todo
      <4> QED
        BY <4>1, TailType
    <3> QED
      BY <1>0, <3>2, <3>3, <3>4 DEF GivenUp
  <2>5. CASE CompleteTurn(p)
    BY <1>0, <1>2, <2>0, <2>5 DEF CompleteTurn, Goto, Proc
  <2>6. CASE ResultAccepted(p)
    BY <1>0, <1>2, <2>0, <2>6, IdleHolds DEF ResultAccepted, AfterResult, Proc
  <2>7. ASSUME NEW t \in Tasks, p = <<"retry", t>> PROVE FALSE
    BY <2>0, <2>7 DEF Retries
  <2> QED
    BY <1>0, <1>2, <2>0, <2>1, <2>2, <2>3, <2>4, <2>5, <2>6, <2>7, LateComes DEF Late
<1> QED
  BY <1>1, <1>2 DEF GivenUp

\* The turn of a message is new until the message's task is bound to it.
LEMMA NewComes ==
  ASSUME TurnStep, NEW x \in Turns, New(x)'
  PROVE  New(x)
<1>0. TypeInv /\ TypeInv' /\ OnServer /\ [Next]_vars
  BY DEF TurnStep, GoesStep, Stage
<1>1. CASE server'[x] = "none"
  BY <1>0, <1>1, ServerStep DEF New
<1>2. ASSUME NEW p \in Procs, proc'[p].pc \in {"record", "accept", "status", "bindTask"}, IsFormal(proc'[p].key),
             proc'[p].turn = x
      PROVE  New(x)
  <2>1. CASE proc'[p] = proc[p]
    BY <1>2, <2>1 DEF New
  <2>2. CASE StartAccepted(p)
    <3>1. proc[p] \in Proc /\ proc \in [Procs -> Proc]
      BY <1>0, ProcType
    <3>2. proc'[p].turn = NextTurn /\ server[NextTurn] = "none"
      BY <2>2, <3>1, LowestUnused DEF StartAccepted, Proc
    <3> QED
      BY <1>2, <3>2 DEF New
  <2>3. CASE KeepsCall(p) /\ (RecordTurn(p) \/ Accept(p) \/ MarkRunning(p))
    BY <1>2, <2>3 DEF KeepsCall, RecordTurn, Accept, MarkRunning, New
  <2>4. CASE KeepsCall(p) /\ SteerAccepted(p)
    <3>1. Mode(proc[p].key) # "queue"
      BY <1>0, <2>4, ProcType DEF SteerAccepted, Carries
    <3> QED
      BY <1>2, <2>4, <3>1 DEF KeepsCall, Mode
  <2> QED
    BY <1>0, <1>2, <2>1, <2>2, <2>3, <2>4, RecordComes, AcceptStep
<1> QED
  BY <1>1, <1>2 DEF New

LEMMA UntouchedStep ==
  ASSUME TurnStep
  PROVE  Untouched'
<1>0. /\ TypeInv /\ TypeInv' /\ OnServer /\ StartedFor /\ [Next]_vars /\ GoesStep /\ Untouched /\ Counted /\ Knowledge
  BY DEF TurnStep, TurnInv, GoesStep, Stage, MsgInv
<1>1. ASSUME NEW x \in Turns, New(x)', NEW t \in Tasks
      PROVE  outbox'[<<t, x>>].state = "absent" /\ rows'[t].turn # x
  <2>0. /\ New(x) /\ outbox[<<t, x>>].state = "absent" /\ rows[t].turn # x
        /\ \A q \in Requests : proc[q].pc = "bind" => proc[q].turn # x
    BY <1>0, <1>1, NewComes DEF Untouched
  <2>1. outbox'[<<t, x>>].state = "absent"
    BY <1>0, <2>0, TaskMessage
  <2>2. ASSUME NEW p \in Procs, Binds(p, t) PROVE proc[p].turn # x
    <3>1. /\ proc[p].pc = "bindTask" /\ proc[p].key \in Keys \ Chats /\ \A q \in Procs : proc'[q].pc \notin Delivering
          /\ proc[p].turn \in Turns
      BY <1>0, <2>2, BindsOf DEF Binds
    <3>2. server[proc[p].turn] # "none"
      <4>1. starter[proc[p].turn] = proc[p].key
        BY <1>0, <3>1 DEF StartedFor, IsFormal
      <4> QED
        BY <1>0, <3>1, <4>1, NoneAssumption DEF OnServer
    <3>3. server'[proc[p].turn] # "none"
      BY <1>0, <3>1, <3>2, ServerStep
    <3> QED
      BY <1>1, <3>1, <3>3 DEF New, Delivering
  <2>3. ASSUME NEW p \in Requests, BindReceipt(p) PROVE proc[p].turn # x
    BY <2>0, <2>3 DEF BindReceipt
  <2>4. TaskStep(t) /\ NoTurn # x
    BY <1>0, NoTurnAssumption DEF GoesStep, TaskSteps
  <2>5. rows'[t].turn # x
    BY <2>0, <2>2, <2>3, <2>4 DEF TaskStep, Becomes, Binds
  <2> QED
    BY <2>1, <2>5
<1>2. ASSUME NEW x \in Turns, New(x)', NEW q \in Requests, proc'[q].pc = "bind"
      PROVE  proc'[q].turn # x
  <2>1. New(x) /\ q[2] \in Tasks
    BY <1>2, NewComes DEF Requests
  <2> QED
    BY ZenonT(60), <1>0, <1>1, <1>2, <2>1, BindComes DEF Untouched
<1> QED
  BY <1>1, <1>2 DEF Untouched

\* The receipt of an answer stays that of the turn of its task until it is bound.
LEMMA ReceiptFitsStep ==
  ASSUME TurnStep
  PROVE  ReceiptFits'
<1>0. /\ TypeInv /\ TypeInv' /\ StartedFor /\ [Next]_vars /\ GoesStep /\ ~Restart /\ Untouched /\ Counted /\ Knowledge
      /\ ReceiptFits /\ Arrivals
  BY DEF TurnStep, TurnInv, GoesStep, Stage, MsgInv
<1>1. ASSUME NEW t \in Tasks, proc'[<<"resume", t>>].pc = "bind"
      PROVE  /\ rows'[t].status \notin {"absent", "queued"}
             /\ rows'[t].turn = proc'[<<"resume", t>>].turn /\ outbox'[<<t, rows'[t].turn>>].state = "absent"
  <2> DEFINE p == <<"resume", t>>
             x == proc'[p].turn
  <2>0. p \in Requests /\ p \in Procs /\ p[2] = t /\ TaskStep(t)
    BY <1>0, KindsDiffer DEF Requests, GoesStep, TaskSteps
  <2>1. CASE proc[p].pc = "bind" /\ x = proc[p].turn
    <3>1. /\ rows[t].turn = x /\ x \in Turns /\ outbox[<<t, x>>].state = "absent"
          /\ rows[t].status \notin {"absent", "queued"} /\ rows[t].turn # NoTurn
      <4>1. proc[p].turn \in Turns
        BY <1>0, <2>0, <2>1 DEF StartedFor
      <4>2. /\ rows[t].status \notin {"absent", "queued"} /\ rows[t].turn = proc[p].turn
            /\ outbox[<<t, rows[t].turn>>].state = "absent"
        BY <1>0, <2>1 DEF ReceiptFits
      <4> QED
        BY <2>1, <4>1, <4>2, NoTurnAssumption
    <3>2. ~Resume(t)
      BY <1>0, <2>1, ResumeUnbinds
    <3>3. outbox'[<<t, x>>].state = "absent"
      BY <1>0, <3>1, <3>2, TaskMessage
    <3>4. ASSUME NEW q \in Procs, Binds(q, t) PROVE FALSE
      <4>1. /\ proc[q].pc = "bindTask" /\ q \in Requests
            /\ q = <<"enqueue", t>> \/ q = p
        BY <1>0, <3>4, RequestBinds, BindsOf, KindsDiffer
      <4>2. q = <<"enqueue", t>>
        BY <2>1, <4>1
      <4>3. proc[q].key \in {t} \X {NoTurn}
        BY <1>0, <4>1, <4>2, ProcType DEF Carries
      <4>4. rows[t].status = "queued"
        BY <1>0, <3>4, <4>3, BindsOf, NoTurnAssumption
      <4> QED
        BY <3>1, <4>4
    <3>5. rows'[t].turn = x /\ rows'[t].status \notin {"absent", "queued"}
      BY <1>0, <2>0, <3>1, <3>2, <3>4 DEF TaskStep, Becomes, Binds
    <3> QED
      BY <3>3, <3>5
  <2>2. CASE ~(proc[p].pc = "bind" /\ x = proc[p].turn)
    <3>0. rows'[t].turn = x /\ x \in Turns /\ outbox' = outbox
      BY <1>0, <1>1, <2>0, <2>2, BindComes
    <3>1. ~(proc[p].pc \in {"send", "lock"} /\ outbox[proc[p].key].state = "accepted")
      <4>1. proc[p].pc \in {"send", "lock"} => proc[p].key \in Keys /\ sent[proc[p].key] = 0
        BY <1>0, <2>0, RequestOf DEF Knowledge, Knows
      <4> QED
        BY <4>1, <1>0 DEF Counted, CountedOf
    <3>2. BindTask(p) /\ x = proc[p].turn
      BY <1>0, <1>1, <2>0, <2>2, <3>1 DEF Arrivals, Arrives
    <3>3. New(x)
      <4>1. proc[p].pc = "bindTask" /\ proc[p].key \notin Chats
        BY <1>0, <2>0, <3>2, RequestOf DEF BindTask
      <4> QED
        BY <2>0, <3>2, <4>1 DEF New, IsFormal
    <3>4. /\ outbox[<<t, x>>].state = "absent" /\ rows[t].turn # x
          /\ \A q \in Requests : proc[q].pc = "bind" => proc[q].turn # x
      BY <1>0, <3>0, <3>3 DEF Untouched
    <3>5. ASSUME NEW q \in Requests, BindReceipt(q) PROVE proc[q].turn # x
      BY <3>4, <3>5 DEF BindReceipt
    <3>6. rows'[t].status = "running"
      BY <2>0, <3>0, <3>4, <3>5, NoTurnAssumption DEF TaskStep, Becomes
    <3> QED
      BY <3>0, <3>4, <3>6
  <2> QED
    BY <2>1, <2>2
<1> QED
  BY <1>1 DEF ReceiptFits

-----------------------------------------------------------------------------
(* Validations                                                             *)

\* A validation goes on, or it claims a task that has its turn: one that runs,
\* or one whose output was invalid.
Claims(p) ==
  LET t == TaskOf(proc'[p].key) IN
  /\ t \in Tasks /\ outbox' = outbox
  /\ rows[t].turn = proc'[p].turn /\ rows[t].turn \in Turns /\ rows'[t].turn = rows[t].turn
  /\ rows'[t].status = "resuming"
  /\ rows[t].status = "running" \/ (rows[t].status = "failed" /\ rows[t].error = "output_invalid")
  /\ \A q \in Procs \ {p} : proc'[q] = proc[q]

LEMMA ValidatingComes ==
  ASSUME TypeInv, TypeInv', AppServerTasks, [Next]_vars, NEW p \in Procs, proc'[p].pc \in Validating
  PROVE  \/ /\ proc[p].pc \in Validating /\ KeepsCall(p)
            /\ ~ResultRejected(p) /\ ~WriteResult(p)
         \/ Claims(p)
<1> DEFINE G == \/ /\ proc[p].pc \in Validating /\ KeepsCall(p)
                   /\ ~ResultRejected(p) /\ ~WriteResult(p)
                \/ Claims(p)
<1> SUFFICES G
  OBVIOUS
<1>0. proc \in [Procs -> Proc] /\ proc[p] \in Proc /\ rows \in [Tasks -> Row]
  BY ProcType DEF TypeInv, TypeOK
<1>r. ~ResultRejected(p) /\ ~WriteResult(p)
  <2>1. ASSUME ResultRejected(p) \/ WriteResult(p) PROVE FALSE
    <3>1. AfterResult(p, TRUE) \/ AfterResult(p, FALSE)
      BY <2>1 DEF ResultRejected, WriteResult
    <3>2. proc'[p] = Idle \/ proc'[p].pc \in {"close", "failTurn"}
      BY <1>0, <3>1 DEF AfterResult, Proc
    <3> QED
      BY <3>2, IdleHolds DEF Validating
  <2> QED
    BY <2>1
<1>a. proc[p].pc \in Validating /\ KeepsCall(p) => G
  BY <1>r
<1>b. Claims(p) => G
  OBVIOUS
<1> HIDE DEF G
<1>1. CASE proc'[p] = proc[p]
  BY <1>1, <1>a DEF KeepsCall
<1>2. CASE FailDelivery(p) \/ FailTaskDelivery(p) \/ ListFailed(p)
  <2>1. CASE FailTaskDelivery(p)
    <3>1. Finish(p) \/ \E pc \in {"failRow", "after", "recover"} : Goto(p, pc)
      BY <2>1, FailTaskGoes
    <3> QED
      BY <3>1, GotoMoves, FinishMoves, IdleHolds DEF Validating
  <2> QED
    BY <1>0, <1>2, <2>1 DEF FailDelivery, ListFailed, Goto, Proc, Validating
<1>3. CASE p = Recovery /\ RecoverSending
  <2> DEFINE q == proc[p]
             rest == Tail(q.todo)
             k == Head(q.todo)[1]
  <2>1. \E pc \in {"failTask", "recover"} : proc' = [proc EXCEPT ![p] = [q EXCEPT !.pc = pc, !.key = k, !.todo = rest]]
    BY <1>3 DEF RecoverSending
  <2> HIDE DEF rest, k
  <2>2. proc'[p].pc \in {"failTask", "recover"}
    BY <1>0, <2>1 DEF Proc
  <2> QED
    BY <2>2 DEF Validating
<1>4. CASE SweepFailed(p)
  BY ZenonT(60), <1>0, <1>4, FinishMoves, IdleHolds DEF SweepFailed, Proc, Validating
<1>5. CASE CompleteTurn(p)
  <2> DEFINE x == proc[p].turn
             t == BoundTask(x)
             key == <<t, NoTurn>>
             v == ValidationAttempt(rows[t])
             claimed == ClaimAppServerResult(rows[t])
  <2>1. ~\E pc \in {"close", "failTurn", "retry"} : Goto(p, pc)
    BY <1>0 DEF Goto, Proc, Validating
  <2>2. /\ BoundTo(x) # {} /\ rows[t].status = "running" /\ outbox' = outbox
        /\ rows' = [rows EXCEPT ![t] = claimed]
        /\ proc' = [proc EXCEPT ![p].pc = "result", ![p].v = v, ![p].key = key]
    BY <1>5, <2>1 DEF CompleteTurn
  <2>3. t \in Tasks /\ rows[t].turn = x /\ rows[t] \in Row
    BY <1>0, <2>2, BoundTaskIn
  <2>4. x \in Turns
    BY <1>5, ProcType DEF CompleteTurn, Carries, AtTurn, AtEnd
  <2>5. claimed.status = "resuming" /\ claimed.turn = rows[t].turn
    BY <2>3, ProgressWrites DEF Written
  <2>6. TaskOf(key) = t
    BY DEF TaskOf
  <2> HIDE DEF t, key, v, claimed
  <2>7. /\ rows'[t] = claimed /\ proc'[p].turn = x /\ proc'[p].key = key
        /\ \A q \in Procs \ {p} : proc'[q] = proc[q]
    BY <1>0, <2>2, <2>3 DEF Proc
  <2> QED
    BY <1>b, <2>2, <2>3, <2>4, <2>5, <2>6, <2>7 DEF Claims
<1>6. CASE ResultAccepted(p)
  <2>1. proc[p].pc \in Validating
    BY <1>6 DEF ResultAccepted, Validating
  <2>2. ~AfterResult(p, FALSE)
    BY <1>0, IdleHolds DEF AfterResult, Proc, Validating
  <2>3. \E end : proc' = [proc EXCEPT ![p].pc = "write", ![p].outcome = end]
    BY <1>6, <2>2 DEF ResultAccepted
  <2>4. KeepsCall(p)
    BY <1>0, <2>3 DEF KeepsCall, Proc
  <2> QED
    BY <1>a, <2>1, <2>4
<1>7. ASSUME NEW t \in Tasks, RetryOutput(t), p = <<"retry", t>> PROVE G
  <2> DEFINE r == [Idle EXCEPT !.pc = "result", !.turn = rows[t].turn, !.v = ValidationAttempt(rows[t]), !.key = <<t, NoTurn>>]
             claimed == ClaimOutputInvalidRetry(rows[t])
  <2>1. /\ rows[t].status = "failed" /\ rows[t].error = "output_invalid" /\ outbox' = outbox
        /\ rows' = [rows EXCEPT ![t] = claimed] /\ proc' = [proc EXCEPT ![p] = r]
        /\ rows[t].transport = "app_server" /\ rows[t].turn # NoTurn /\ rows[t] \in Row
    BY <1>0, <1>7 DEF RetryOutput, CanClaimOutputInvalidRetry, AppServerTasks
  <2>2. claimed.status = "resuming" /\ claimed.turn = rows[t].turn /\ rows[t].turn \in Turns
    BY <2>1, ProgressWrites DEF Written, Row
  <2>3. r.turn = rows[t].turn /\ r.key = <<t, NoTurn>> /\ TaskOf(r.key) = t
    BY DEF Idle, TaskOf
  <2> HIDE DEF r, claimed
  <2>4. rows'[t] = claimed /\ proc'[p] = r /\ \A q \in Procs \ {p} : proc'[q] = proc[q]
    BY <1>0, <2>1
  <2> QED
    BY <1>b, <2>1, <2>2, <2>3, <2>4 DEF Claims
<1> QED
  BY <1>1, <1>2, <1>3, <1>4, <1>5, <1>6, <1>7, LateComes DEF Late, Validating

\* A process that validates has the turn of its task, as long as the task is not over.
LEMMA ValidatedStep ==
  ASSUME TurnStep
  PROVE  Validated'
<1>0. /\ TypeInv /\ TypeInv' /\ AppServerTasks /\ [Next]_vars /\ GoesStep /\ ~Restart /\ Knowledge
      /\ TurnIsLast /\ Validated /\ ValidatedOnce
  BY DEF TurnStep, TurnInv, GoesStep, Stage, MsgInv
<1>1. ASSUME NEW p \in Procs, NEW t, proc'[p].pc \in Validating, t = TaskOf(proc'[p].key)
      PROVE  \/ /\ rows'[t].status = "resuming" /\ rows'[t].turn = proc'[p].turn
                /\ outbox'[<<t, rows'[t].turn>>].state = "absent"
             \/ rows'[t].status \in {"failed", "canceled", "interrupted"} /\ rows'[t].error # "output_invalid"
  <2>1. CASE Claims(p)
    <3>1. /\ t \in Tasks /\ Turned(t) /\ rows'[t].turn = rows[t].turn /\ outbox' = outbox
          /\ rows'[t].status = "resuming" /\ rows'[t].turn = proc'[p].turn
      BY <1>1, <2>1 DEF Claims, Turned
    <3> QED
      BY <1>0, <3>1 DEF TurnIsLast
  <2>2. CASE proc[p].pc \in Validating /\ KeepsCall(p) /\ ~ResultRejected(p) /\ ~WriteResult(p)
    <3>0. /\ t = TaskOf(proc[p].key) /\ t \in Tasks /\ proc[p].turn \in Turns /\ proc'[p].turn = proc[p].turn
          /\ TaskStep(t) /\ rows[t] \in Row
      BY <1>0, <1>1, <2>2, ValidatorHolds DEF Validating, KeepsCall, GoesStep, TaskSteps
    <3>r. ~Returns(t)
      <4>1. ASSUME NEW q \in Procs, ResultRejected(q) \/ WriteResult(q), TaskOf(proc[q].key) = t PROVE FALSE
        <5>1. proc[q].pc \in Validating
          BY <4>1 DEF ResultRejected, WriteResult, Validating
        <5>2. q = p
          BY <1>0, <2>2, <3>0, <4>1, <5>1 DEF ValidatedOnce
        <5> QED
          BY <2>2, <4>1, <5>2
      <4> QED
        BY <4>1 DEF Returns
    <3>1. CASE rows[t].status = "resuming" /\ rows[t].turn = proc[p].turn /\ outbox[<<t, rows[t].turn>>].state = "absent"
      <4>1. Turned(t) /\ ~Resume(t) /\ rows[t].turn # NoTurn
        BY <1>0, <3>0, <3>1, ResumeUnbinds, NoTurnAssumption DEF Turned
      <4>2. outbox'[<<t, rows[t].turn>>].state = "absent"
        BY <1>0, <3>0, <3>1, <4>1, TaskMessage
      <4>3. ASSUME NEW q \in Procs, BindTask(q), TaskOf(proc[q].key) = t, proc[q].turn \in Turns,
                   rows[t].status = IF IsResume(proc[q].key) THEN "resuming" ELSE "queued",
                   Becomes(t, "running", proc[q].turn, rows[t].error)
            PROVE  FALSE
        <5>1. Binds(q, t)
          BY <4>3 DEF Binds
        <5>2. PICK y \in Answers : proc[q].key = <<t, y>>
          BY <3>0, <5>1, RequestBinds
        <5>3. Underway(<<t, y>>)
          BY <4>3, <5>2 DEF BindTask, Underway, Handling, Delivering
        <5> QED
          BY <1>0, <3>0, <4>1, <5>2, <5>3 DEF TurnIsLast
      <4>4. Plain(rows[t], rows'[t])
        BY <1>0, <3>0, <3>1, <3>r, RowOutcome, GivesUpPlain
      <4> QED
        BY <1>0, <3>0, <3>1, <4>1, <4>2, <4>3, <4>4 DEF TaskStep, Becomes, Plain
    <3>2. CASE rows[t].status \in {"failed", "canceled", "interrupted"} /\ rows[t].error # "output_invalid"
      BY <1>0, <3>0, <3>2 DEF TaskStep, Becomes, Finished
    <3> QED
      BY <1>0, <2>2, <3>0, <3>1, <3>2 DEF Validated
  <2> QED
    BY <1>0, <1>1, <2>1, <2>2, ValidatingComes
<1> QED
  BY <1>1 DEF Validated

\* A task that is being validated is not claimed again.
LEMMA ValidatedOnceStep ==
  ASSUME TurnStep
  PROVE  ValidatedOnce'
<1>0. TypeInv /\ TypeInv' /\ AppServerTasks /\ [Next]_vars /\ Validated /\ ValidatedOnce
  BY DEF TurnStep, TurnInv, GoesStep, Stage
<1>1. ASSUME NEW p \in Procs, NEW q \in Procs, proc'[p].pc \in Validating, proc'[q].pc \in Validating,
             TaskOf(proc'[p].key) = TaskOf(proc'[q].key), Claims(p)
      PROVE  p = q
  <2>1. ASSUME q # p PROVE FALSE
    <3>1. proc'[q] = proc[q]
      BY <1>1, <2>1 DEF Claims
    <3> DEFINE t == TaskOf(proc[q].key)
    <3>2. rows[t].status = "running" \/ (rows[t].status = "failed" /\ rows[t].error = "output_invalid")
      BY <1>1, <3>1 DEF Claims
    <3>3. \/ rows[t].status = "resuming"
          \/ rows[t].error # "output_invalid" /\ rows[t].status \in {"failed", "canceled", "interrupted"}
      BY <1>0, <1>1, <3>1 DEF Validated
    <3> QED
      BY <3>2, <3>3
  <2> QED
    BY <2>1
<1>2. ASSUME NEW p \in Procs, NEW q \in Procs, proc'[p].pc \in Validating, proc'[q].pc \in Validating,
             TaskOf(proc'[p].key) = TaskOf(proc'[q].key)
      PROVE  p = q
  <2>1. CASE Claims(p) \/ Claims(q)
    BY <1>1, <1>2, <2>1
  <2>2. CASE /\ proc[p].pc \in Validating /\ KeepsCall(p)
             /\ proc[q].pc \in Validating /\ KeepsCall(q)
    BY <1>0, <1>2, <2>2 DEF KeepsCall, ValidatedOnce
  <2> QED
    BY <1>0, <1>2, <2>1, <2>2, ValidatingComes
<1> QED
  BY <1>2 DEF ValidatedOnce

-----------------------------------------------------------------------------
(* The invariant of the turns                                              *)

LEMMA TurnStepKeeps ==
  ASSUME TurnStep
  PROVE  TurnInv'
BY TurnIsLastStep, OneUnderwayStep, ChatsOnlyStep, UnlistedStep, AcceptedKeptStep, GivenUpStep, UntouchedStep,
   ReceiptFitsStep, ValidatedStep, ValidatedOnceStep DEF TurnInv

\* A console that stops when every answered turn has been left leaves no turn answered.
LEMMA RestartTurns ==
  ASSUME Stage, TurnInv, Restart, AnsweredTurnIsLeft
  PROVE  TurnInv'
<1>0. /\ rows \in [Tasks -> Row] /\ outbox' = outbox
      /\ \A x \in Turns : server'[x] = "none" => server[x] = "none"
      /\ \A p \in Procs : /\ proc'[p].pc = (IF p = Recovery THEN "reset" ELSE "idle")
                          /\ DOMAIN proc'[p].todo = {}
  <2>1. Idle.pc = "idle" /\ Idle.todo = <<>> /\ [Idle EXCEPT !.pc = "reset"].pc = "reset"
        /\ [Idle EXCEPT !.pc = "reset"].todo = <<>>
    BY DEF Idle
  <2>2. \A p \in Procs : proc'[p] = IF p = Recovery THEN [Idle EXCEPT !.pc = "reset"] ELSE Idle
    BY DEF Restart
  <2>3. \A x \in Turns : server'[x] = "none" => server[x] = "none"
    BY DEF Restart
  <2> QED
    BY <2>1, <2>2, <2>3, EmptyList DEF Restart, Stage, TypeInv, TypeOK
<1>1. ASSUME NEW t \in Tasks
      PROVE  rows'[t].turn = rows[t].turn /\ (Turned(t)' => Turned(t))
  <2> DEFINE inbox_ == HasOpenInbox(rows[t].turn)
             outbox_ == HasUnsent(t)
  <2>1. rows'[t] = InterruptInFlight(rows[t], inbox_, outbox_) /\ rows[t] \in Row
    BY <1>0 DEF Restart
  <2>2. inbox_ \in BOOLEAN /\ outbox_ \in BOOLEAN
    BY DEF HasOpenInbox, HasUnsent
  <2> HIDE DEF inbox_, outbox_
  <2>3. /\ rows'[t].turn = rows[t].turn
        /\ rows[t].status \notin {"running", "resuming"} => rows'[t] = rows[t]
        /\ rows[t].status \in {"running", "resuming"} => rows'[t].status \in {"running", "resuming", "interrupted"}
        /\ rows'[t].status = "running" /\ rows[t].status = "resuming" => rows[t].turn # NoTurn
        /\ rows'[t].status = "resuming" => rows'[t] = rows[t]
    BY <2>1, <2>2, RestartWrites
  <2>4. rows[t].turn \in Turns => outbox[<<t, rows[t].turn>>].state = "absent"
    BY DEF AnsweredTurnIsLeft
  <2>5. rows[t].turn \in Turns \cup {NoTurn}
    BY <2>1 DEF Row
  <2>6. CASE rows[t].status \notin {"running", "resuming"} \/ rows'[t].status = "resuming"
    BY <1>0, <2>3, <2>6 DEF Turned
  <2>7. CASE rows[t].status \in {"running", "resuming"} /\ rows'[t].status # "resuming"
    BY <2>3, <2>4, <2>5, <2>7 DEF Turned
  <2> QED
    BY <2>3, <2>6, <2>7
<1>2. \A p \in Requests \cup Pool \cup {Recovery} : p \in Procs
  BY KindsDiffer
<1>3. ASSUME NEW k, Underway(k)' PROVE Underway(k)
  BY <1>0, <1>3 DEF Underway, Handling, Delivering
<1>4. TurnIsLast'
  <2>1. ASSUME NEW t \in Tasks, Turned(t)'
        PROVE  /\ rows'[t].turn \in Turns /\ outbox'[<<t, rows'[t].turn>>].state = "absent"
               /\ \A y \in Answers : ~Underway(<<t, y>>)' /\ outbox'[<<t, y>>].state # "failed"
    BY <1>0, <1>1, <1>3, <2>1 DEF TurnInv, TurnIsLast
  <2> QED
    BY <2>1 DEF TurnIsLast
<1>5. OneUnderway'
  <2>1. ASSUME NEW t \in Tasks, NEW y \in Answers, NEW z \in Answers,
               Underway(<<t, z>>)', Underway(<<t, y>>)' \/ outbox'[<<t, y>>].state = "failed"
        PROVE  y = z
    <3>1. Underway(<<t, z>>) /\ (Underway(<<t, y>>) \/ outbox[<<t, y>>].state = "failed")
      BY <1>0, <1>3, <2>1
    <3> QED
      BY <3>1 DEF TurnInv, OneUnderway
  <2> QED
    BY <2>1 DEF OneUnderway
<1>6. ChatsOnly' /\ AcceptedKept' /\ GivenUp'
  BY <1>0, <1>2, KindsDiffer DEF ChatsOnly, AcceptedKept, GivenUp, Delivering
<1>7. Unlisted'
  BY <1>0, <1>2 DEF Unlisted
<1>8. Untouched'
  <2>1. ASSUME NEW x \in Turns, New(x)' PROVE New(x)
    BY <1>0, <2>1 DEF New
  <2>2. ASSUME NEW q \in Requests PROVE proc'[q].pc # "bind"
    BY <1>0, <1>2
  <2>3. ASSUME NEW x \in Turns, New(x)'
        PROVE  /\ \A t \in Tasks : outbox'[<<t, x>>].state = "absent" /\ rows'[t].turn # x
               /\ \A q \in Requests : proc'[q].pc = "bind" => proc'[q].turn # x
    BY <1>0, <1>1, <2>1, <2>2, <2>3 DEF TurnInv, Untouched
  <2> QED
    BY <2>3 DEF Untouched
<1>9. ReceiptFits'
  BY <1>0, <1>2 DEF ReceiptFits, Requests
<1>10. Validated' /\ ValidatedOnce'
  BY <1>0 DEF Validated, ValidatedOnce, Validating
<1> QED
  BY <1>4, <1>5, <1>6, <1>7, <1>8, <1>9, <1>10 DEF TurnInv

\* The invariant holds before anything is sent.
LEMMA InitTurns ==
  ASSUME Init
  PROVE  TurnInv
<1>0. /\ \A k \in Keys : outbox[k].state = "absent"
      /\ \A p \in Procs : proc[p].pc = "idle" /\ DOMAIN proc[p].todo = {}
      /\ \A t \in Tasks : rows[t].turn = NoTurn /\ rows[t].status = "absent"
  BY EmptyList DEF Init, Idle, AbsentRow
<1>1. /\ \A p \in Requests \cup Pool \cup {Recovery} : p \in Procs
      /\ \A t \in Tasks : <<"resume", t>> \in Requests
      /\ \A t \in Tasks, y \in Answers : <<t, y>> \in Keys
  BY KindsDiffer, TaskKey DEF Requests, Answers
<1>2. \A t \in Tasks : ~Turned(t)
  BY <1>0 DEF Turned
<1>3. \A t \in Tasks, y \in Answers : ~Underway(<<t, y>>)
  BY <1>0, <1>1 DEF Underway, Handling, Delivering
<1>4. TurnIsLast /\ OneUnderway /\ Unlisted
  BY <1>2, <1>3 DEF TurnIsLast, OneUnderway, Unlisted
<1>5. ChatsOnly /\ AcceptedKept /\ GivenUp /\ ReceiptFits
  BY <1>0, <1>1 DEF ChatsOnly, AcceptedKept, GivenUp, ReceiptFits, Delivering
<1>6. Untouched
  BY <1>0, <1>1, NoTurnAssumption DEF Untouched, Answers
<1>7. Validated /\ ValidatedOnce
  BY <1>0 DEF Validated, ValidatedOnce, Validating
<1> QED
  BY <1>4, <1>5, <1>6, <1>7 DEF TurnInv

\* The console stops only when every answered turn has been left.
StopsBetweenAnswers == [][Restart => AnsweredTurnIsLeft]_vars

\* The invariant holds in every reachable state of such a console.
LEMMA TurnsInvariant == Spec /\ StopsBetweenAnswers => [](Stage /\ MsgInv /\ TurnInv)
<1>1. Init => TurnInv
  BY InitTurns
<1>2. Stage /\ Stage' /\ MsgInv /\ TurnInv /\ [Next]_vars /\ [Restart => AnsweredTurnIsLeft]_vars => TurnInv'
  <2> SUFFICES ASSUME Stage, Stage', MsgInv, TurnInv, [Next]_vars, [Restart => AnsweredTurnIsLeft]_vars
               PROVE  TurnInv'
    OBVIOUS
  <2>1. CASE Restart
    <3>1. vars' # vars
      <4>1. restarts' # restarts
        BY <2>1, BoundsAssumption DEF Restart, Stage, TypeInv, TypeOK
      <4> QED
        BY <4>1 DEF vars
    <3> QED
      BY <2>1, <3>1, RestartTurns
  <2>2. CASE ~Restart
    <3>1. GoesStep
      BY <2>2, NextGoesStep
    <3> QED
      BY <2>2, <3>1, TurnStepKeeps DEF TurnStep
  <2> QED
    BY <2>1, <2>2
<1>3. TypeInv /\ AppServerTasks /\ Locked /\ OnServer /\ OneOpen /\ StartedFor => Stage
  BY DEF Stage
<1>4. Spec => []Stage
  BY <1>3, StageInvariant, StartedForInvariant, PTL
<1> QED
  BY <1>1, <1>2, <1>4, MessagesInvariant, PTL DEF Spec, StopsBetweenAnswers

\* The result of a task is validated by one process at a time (OneValidator), also
\* when its completion is claimed twice: CompleteTurn and RetryOutput claim a task
\* in a status that the claim ends, and nothing else returns it to that status
\* while somebody validates.
THEOREM ValidatedByOne == Spec /\ StopsBetweenAnswers => []OneValidator
<1>1. ValidatedOnce => OneValidator
  <2> SUFFICES ASSUME ValidatedOnce, NEW t \in Tasks
               PROVE  Cardinality({p \in Procs : proc[p].pc \in {"result", "write"} /\ TaskOf(proc[p].key) = t}) <= 1
    BY DEF OneValidator
  <2> DEFINE S == {p \in Procs : proc[p].pc \in {"result", "write"} /\ TaskOf(proc[p].key) = t}
  <2>1. \A p, q \in S : p = q
    BY DEF ValidatedOnce, Validating
  <2>2. S = {} \/ \E p : S = {p}
    BY <2>1
  <2> HIDE DEF S
  <2>3. Cardinality(S) <= 1
    <3>1. CASE S = {}
      BY <3>1, FS_EmptySet
    <3>2. ASSUME NEW p, S = {p} PROVE Cardinality(S) <= 1
      <4>1. Cardinality({p}) = 1
        BY FS_Singleton
      <4>2. Cardinality(S) = 1
        BY <3>2, <4>1
      <4> QED
        BY <4>2
    <3> QED
      BY <2>2, <3>1, <3>2
  <2> QED
    BY <2>3 DEF S
<1> QED
  BY <1>1, TurnsInvariant, PTL DEF TurnInv

\* A task that waits for an answer is not failed by a message (WaitingIsNotFailed):
\* the messages that the sweep and the error branches fail a task for are of
\* attempts that ended, and a receipt that differs from the turn of its task is of
\* a task that was resumed since.
THEOREM WaitingStays == Spec /\ StopsBetweenAnswers => WaitingIsNotFailed
<1>1. Stage /\ TurnInv /\ [Next]_vars => [KeepsWaiting]_vars
  <2> SUFFICES ASSUME Stage, TurnInv, [Next]_vars, NEW t \in Tasks, rows[t].status = "awaiting_input"
               PROVE  rows'[t].status # "failed"
    BY DEF KeepsWaiting
  <2>0. /\ TypeInv /\ AppServerTasks /\ Turned(t) /\ TurnIsLast /\ GivenUp /\ Validated /\ ReceiptFits
    BY DEF Stage, TurnInv, Turned
  <2>1. \A y \in Answers : outbox[<<t, y>>].state # "failed"
    BY <2>0 DEF TurnIsLast
  <2>2. ~Returns(t)
    BY <2>0 DEF Returns, Validated, Validating, ResultRejected, WriteResult
  <2>3. ASSUME GivesUp(t) PROVE rows'[t] = rows[t]
    <3>1. PICK p \in Procs :
            \/ (FailTaskDelivery(p) \/ FailRow(p)) /\ TaskOf(proc[p].key) = t
            \/ /\ SweepFailed(p) /\ proc[p].todo # <<>>
               /\ IsFormal(Head(proc[p].todo)[1]) /\ TaskOf(Head(proc[p].todo)[1]) = t
            \/ BindReceipt(p) /\ TaskOf(proc[p].key) = t /\ rows[t].turn \notin {proc[p].turn, NoTurn}
      BY <2>3 DEF GivesUp
    <3>2. ASSUME NEW k \in Keys \ Chats, TaskOf(k) = t PROVE outbox[k].state # "failed"
      <4>1. \E y \in Answers : k = <<t, y>>
        BY <3>2, TaskOfKey DEF Answers
      <4> QED
        BY <2>1, <4>1
    <3>3. CASE (FailTaskDelivery(p) \/ FailRow(p)) /\ TaskOf(proc[p].key) = t
      <4>1. proc[p].pc \in {"failTask", "failRow"} /\ proc[p].key \in Keys \ Chats
        <5>1. CASE FailTaskDelivery(p)
          BY <2>0, <5>1, ProcType DEF FailTaskDelivery, Carries
        <5>2. CASE FailRow(p)
          <6>1. p \in Requests /\ proc[p].pc = "failRow"
            BY <2>0, <5>2, ProcType, KindsDiffer DEF FailRow, Kinds, Delivering
          <6> QED
            BY <2>0, <6>1, RequestOf
        <5> QED
          BY <3>3, <5>1, <5>2
      <4> QED
        BY <2>0, <3>2, <3>3, <4>1 DEF GivenUp
    <3>4. CASE /\ SweepFailed(p) /\ proc[p].todo # <<>>
               /\ IsFormal(Head(proc[p].todo)[1]) /\ TaskOf(Head(proc[p].todo)[1]) = t
      <4>1. p \in Pool /\ proc[p].pc = "sweep"
        BY <2>0, <3>4, ProcType, KindsDiffer DEF SweepFailed, Kinds, Delivering
      <4>2. proc[p].todo \in Seq(Keys \X OutboxStates)
        BY <2>0, ProcType DEF Proc
      <4>3. 1 \in DOMAIN proc[p].todo /\ Head(proc[p].todo) = proc[p].todo[1] /\ Head(proc[p].todo)[1] \in Keys
        BY <3>4, <4>2
      <4>4. Head(proc[p].todo)[1] \in Keys \ Chats
        BY <3>4, <4>3 DEF IsFormal
      <4> QED
        BY <2>0, <3>2, <3>4, <4>1, <4>3, <4>4 DEF GivenUp
    <3>5. CASE BindReceipt(p) /\ TaskOf(proc[p].key) = t /\ rows[t].turn \notin {proc[p].turn, NoTurn}
      <4>1. proc[p].pc = "bind" /\ p \in Requests
        BY <2>0, <3>5, ProcType, KindsDiffer DEF BindReceipt, Kinds, Delivering
      <4>2. proc[p].key[2] \in Turns \cup {NoTurn} /\ proc[p].key = <<t, proc[p].key[2]>>
        BY <2>0, <3>5, <4>1, RequestOf, TaskOfKey
      <4>3. CASE proc[p].key[2] = NoTurn
        BY <2>0, <3>5, <4>3, RowIn DEF BindReceipt, IsResume
      <4>4. CASE proc[p].key[2] \in Turns
        <5>1. p = <<"resume", t>>
          BY <2>0, <4>1, <4>2, <4>4, RequestOf
        <5> QED
          BY <2>0, <3>5, <4>1, <5>1 DEF ReceiptFits
      <4> QED
        BY <4>2, <4>3, <4>4
    <3> QED
      BY <3>1, <3>3, <3>4, <3>5
  <2> QED
    BY <2>0, <2>2, <2>3, RowOutcome DEF Plain
<1> QED
  BY <1>1, TurnsInvariant, PTL DEF Spec, WaitingIsNotFailed
=============================================================================

------------------------------- MODULE CodexApp -------------------------------
(***************************************************************************)
(* The shared Codex App Server of the console: the manager that owns the   *)
(* child process (internal/codexapp/manager.go), the JSON-RPC client of    *)
(* each child (client.go) and the ManagerRPC that hands both to the broker *)
(* (manager_rpc.go).                                                       *)
(*                                                                         *)
(* A step is one critical section of Manager.mu or Client.state, or one    *)
(* operation on a channel, a pipe or the process.  What a child wrote and  *)
(* nobody read when it ends is lost (Wait closes the pipe), so writing and *)
(* reading a frame is one step.  Requests that the App Server sends to the *)
(* console, frame sizes and the diagnostics on stderr are left out.        *)
(***************************************************************************)
EXTENDS Integers, FiniteSets

CONSTANTS
  Calls,       \* goroutines that make one ManagerRPC.Call each
  Instances,   \* names for the child processes that are started
  NoCall,
  NoInstance,
  Buffer,      \* notificationChannelBuffer
  RpcBuffer,   \* capacity of ManagerRPC.notify
  Operations,  \* the requests and faults this instance exercises
  MaxNotes,    \* bound: notifications the children send
  MaxFaults    \* bound: cancellations, crashes, bad frames, refusals and failed starts

ASSUME CallsAssumption     == NoCall \notin Calls
ASSUME InstancesAssumption == IsFiniteSet(Instances) /\ NoInstance \notin Instances
ASSUME BuffersAssumption   == Buffer \in Nat \ {0} /\ RpcBuffer \in Nat \ {0} /\ MaxNotes \in Nat /\ MaxFaults \in Nat
ASSUME OperationsAssumption ==
  Operations \subseteq {"cancel", "close", "crash", "badframe", "startfault", "refuse"}

VARIABLES
  closed, status, current, active, starting,   \* fields of Manager
  attempt,    \* startAttempt of each call that started one
  process,    \* the child processes
  expected,   \* ownedProcess.expected
  watched,    \* a waitProcess goroutine waits for the child
  exited,     \* processInstance.exited
  client,     \* the clients: "done" once terminated
  closing,    \* clients whose transport is about to be closed by a goroutine
  pending,    \* Client.pending
  reply,      \* what was put into the response channel of a request
  wire,       \* requests the child has read and not answered
  notes,      \* notifications in the channel of a client
  sentNotes,  \* notifications sent so far
  forward,    \* the client that ManagerRPC.forward reads
  notify,     \* notifications in ManagerRPC.notify, or held by forward
  proc,       \* the calls
  canceled,   \* calls whose context is done
  aborted,    \* attempts canceled by Close
  closer,     \* the goroutine in Manager.Close
  faults      \* cancellations, crashes, bad frames, refusals and failed starts so far

fields    == <<closed, status, current, active, starting, attempt>>
children  == <<process, expected, watched, exited>>
transport == <<client, closing, pending, reply, wire>>
events    == <<notes, sentNotes, forward, notify>>
contexts  == <<canceled, aborted, closer>>
vars      == <<fields, children, transport, events, contexts, proc, faults>>

Kinds == {"initialize", "request"}
Ids   == Kinds \X Calls

CallStates == {"idle", "join", "spawn", "adopt", "register", "write", "wait",
               "initialized", "activate", "failClose", "failClear", "finish", "once", "done"}

Call == [pc : CallStates, kind : Kinds, inst : Instances \cup {NoInstance},
         on : Calls \cup {NoCall}, result : {"none", "ok", "error"}]

Init ==
  /\ closed = FALSE
  /\ status = "idle"
  /\ current = NoInstance
  /\ active = NoInstance
  /\ starting = NoCall
  /\ attempt = [c \in Calls |-> [state |-> "none", client |-> NoInstance]]
  /\ process = [i \in Instances |-> "none"]
  /\ expected = {} /\ watched = {} /\ exited = {}
  /\ client = [i \in Instances |-> "none"]
  /\ closing = {}
  /\ pending = [i \in Instances |-> {}]
  /\ reply = [id \in Ids |-> "none"]
  /\ wire = [i \in Instances |-> {}]
  /\ notes = [i \in Instances |-> 0]
  /\ sentNotes = 0
  /\ forward = NoInstance
  /\ notify = 0
  /\ proc = [c \in Calls |-> [pc |-> "idle", kind |-> "initialize", inst |-> NoInstance,
                              on |-> NoCall, result |-> "none"]]
  /\ canceled = {} /\ aborted = {}
  /\ closer = [pc |-> "idle", inst |-> NoInstance, on |-> NoCall]
  /\ faults = 0

-----------------------------------------------------------------------------
(* Parts of a step                                                         *)

Goto(c, pc)     == proc' = [proc EXCEPT ![c].pc = pc]
Leave(c, with)  == proc' = [proc EXCEPT ![c].pc = "done", ![c].result = with]
IdOf(c)         == <<proc[c].kind, c>>

Fault == faults < MaxFaults /\ faults' = faults + 1

\* The context of an attempt ends with that of its caller and with Close.
CtxDone(c) == c \in canceled \/ (proc[c].kind = "initialize" /\ c \in aborted)

\* Client.Call returns to start or to the caller of ManagerRPC.Call.
Return(c, with) ==
  IF proc[c].kind = "request" THEN Leave(c, with)
  ELSE Goto(c, IF with = "ok" THEN "initialized" ELSE "failClose")

\* terminate: every request but `own' gets the error; a goroutine will close
\* the transport.
Terminate(i, own) ==
  /\ client' = [client EXCEPT ![i] = "done"]
  /\ reply' = [id \in Ids |-> IF id \in pending[i] \ own THEN "error" ELSE reply[id]]
  /\ pending' = [pending EXCEPT ![i] = {}]
  /\ closing' = IF client[i] = "open" THEN closing \cup {i} ELSE closing

\* Client.Close: terminates and closes the transport itself, which kills the
\* child.
CloseClient(i) ==
  /\ client' = [client EXCEPT ![i] = "done"]
  /\ reply' = [id \in Ids |-> IF id \in pending[i] THEN "error" ELSE reply[id]]
  /\ pending' = [pending EXCEPT ![i] = {}]
  /\ closing' = closing \ {i}
  /\ process' = [process EXCEPT ![i] = "dead"]

-----------------------------------------------------------------------------
(* Manager.Ensure                                                          *)

\* Mutant: a caller does not join the attempt under way.
EnsureAlone(c) ==
  /\ proc[c].pc = "idle"
  /\ ~closed /\ active = NoInstance
  /\ starting' = c
  /\ status' = "starting"
  /\ attempt' = [attempt EXCEPT ![c].state = "open"]
  /\ Goto(c, "spawn")
  /\ UNCHANGED <<closed, current, active, children, transport, events, contexts, faults>>

Ensure(c) ==
  /\ proc[c].pc = "idle"
  /\ \/ /\ closed
        /\ Leave(c, "error")
        /\ UNCHANGED fields
     \/ /\ ~closed /\ active # NoInstance
        /\ proc' = [proc EXCEPT ![c].pc = "once", ![c].inst = active]
        /\ UNCHANGED fields
     \/ /\ ~closed /\ active = NoInstance /\ starting # NoCall
        /\ proc' = [proc EXCEPT ![c].pc = "join", ![c].on = starting]
        /\ UNCHANGED fields
     \/ /\ ~closed /\ active = NoInstance /\ starting = NoCall
        /\ starting' = c
        /\ status' = "starting"
        /\ attempt' = [attempt EXCEPT ![c].state = "open"]
        /\ Goto(c, "spawn")
        /\ UNCHANGED <<closed, current, active>>
  /\ UNCHANGED <<children, transport, events, contexts, faults>>

\* waitForAttempt.  An attempt that failed fails everybody who joined it.
WaitForAttempt(c) ==
  LET a == attempt[proc[c].on] IN
  /\ proc[c].pc = "join"
  /\ \/ /\ a.state = "done" /\ a.client # NoInstance
        /\ proc' = [proc EXCEPT ![c].pc = "once", ![c].inst = a.client]
     \/ a.state = "done" /\ a.client = NoInstance /\ Leave(c, "error")
     \/ c \in canceled /\ Leave(c, "error")
  /\ UNCHANGED <<fields, children, transport, events, contexts, faults>>

Unused == {i \in Instances : process[i] = "none"}

\* factory.Start; without an unused child of the instance the start fails.
Spawn(c) ==
  LET i == CHOOSE j \in Unused : TRUE IN
  /\ proc[c].pc = "spawn"
  /\ \/ /\ CtxDone(c) \/ Unused = {}
        /\ Goto(c, "finish")
        /\ UNCHANGED <<process, client, faults>>
     \/ /\ "startfault" \in Operations /\ Fault
        /\ Goto(c, "finish")
        /\ UNCHANGED <<process, client>>
     \/ /\ ~CtxDone(c) /\ Unused # {}
        /\ process' = [process EXCEPT ![i] = "alive"]
        /\ client' = [client EXCEPT ![i] = "open"]
        /\ proc' = [proc EXCEPT ![c].pc = "adopt", ![c].inst = i]
        /\ UNCHANGED faults
  /\ UNCHANGED <<fields, expected, watched, exited, closing, pending, reply, wire, events, contexts>>

\* The child becomes the current one, unless Close has come in between.
Adopt(c) ==
  LET i == proc[c].inst IN
  /\ proc[c].pc = "adopt"
  /\ IF closed \/ starting # c
     THEN /\ expected' = expected \cup {i}
          /\ CloseClient(i)
          /\ proc' = [proc EXCEPT ![c].pc = "finish", ![c].inst = NoInstance]
          /\ UNCHANGED <<current, watched>>
     ELSE /\ current' = i
          /\ watched' = watched \cup {i}
          /\ Goto(c, "register")
          /\ UNCHANGED <<expected, process, client, closing, pending, reply>>
  /\ UNCHANGED <<closed, status, active, starting, attempt, exited, wire, events, contexts, faults>>

\* The notification "initialized" after the answer to "initialize".
Initialized(c) ==
  /\ proc[c].pc = "initialized"
  /\ Goto(c, IF CtxDone(c) \/ client[proc[c].inst] = "done" \/ process[proc[c].inst] = "dead"
             THEN "failClose" ELSE "activate")
  /\ UNCHANGED <<fields, children, transport, events, contexts, faults>>

Activate(c) ==
  LET i == proc[c].inst IN
  /\ proc[c].pc = "activate"
  /\ IF closed \/ current # i \/ i \in exited
     THEN Goto(c, "failClose") /\ UNCHANGED <<active, status>>
     ELSE active' = i /\ status' = "healthy" /\ Goto(c, "finish")
  /\ UNCHANGED <<closed, current, starting, attempt, children, transport, events, contexts, faults>>

\* failStartingInstance closes the client and then forgets the child.
FailClose(c) ==
  LET i == proc[c].inst IN
  /\ proc[c].pc = "failClose"
  /\ expected' = expected \cup {i}
  /\ CloseClient(i)
  /\ Goto(c, "failClear")
  /\ UNCHANGED <<fields, watched, exited, wire, events, contexts, faults>>

FailClear(c) ==
  LET i == proc[c].inst IN
  /\ proc[c].pc = "failClear"
  /\ current' = IF current = i THEN NoInstance ELSE current
  /\ active' = IF active = i THEN NoInstance ELSE active
  /\ status' = IF closed THEN status ELSE "failed"
  /\ proc' = [proc EXCEPT ![c].pc = "finish", ![c].inst = NoInstance]
  /\ UNCHANGED <<closed, starting, attempt, children, transport, events, contexts, faults>>

\* finishAttempt wakes everybody who joined.
FinishAttempt(c) ==
  LET i == proc[c].inst IN
  /\ proc[c].pc = "finish"
  /\ attempt' = [attempt EXCEPT ![c] = [state |-> "done", client |-> i]]
  /\ starting' = IF starting = c THEN NoCall ELSE starting
  /\ status' = IF i = NoInstance /\ ~closed THEN "failed" ELSE status
  /\ IF i = NoInstance THEN Leave(c, "error") ELSE Goto(c, "once")
  /\ UNCHANGED <<closed, current, active, children, transport, events, contexts, faults>>

\* ManagerRPC.Call: the first client that is seen is forwarded, for good.
StartForward(c) ==
  /\ proc[c].pc = "once"
  /\ forward' = IF forward = NoInstance THEN proc[c].inst ELSE forward
  /\ proc' = [proc EXCEPT ![c].pc = "register", ![c].kind = "request"]
  /\ UNCHANGED <<fields, children, transport, notes, sentNotes, notify, contexts, faults>>

-----------------------------------------------------------------------------
(* Client.Call                                                             *)

\* Mutant: whether the client is terminated was checked earlier.
RegisterUnchecked(c) ==
  /\ proc[c].pc = "register"
  /\ pending' = [pending EXCEPT ![proc[c].inst] = @ \cup {IdOf(c)}]
  /\ Goto(c, "wait")
  /\ UNCHANGED <<fields, children, client, closing, reply, wire, events, contexts, faults>>

Register(c) ==
  LET i == proc[c].inst IN
  /\ proc[c].pc = "register"
  /\ IF CtxDone(c) \/ client[i] = "done"
     THEN Return(c, "error") /\ UNCHANGED pending
     ELSE pending' = [pending EXCEPT ![i] = @ \cup {IdOf(c)}] /\ Goto(c, "write")
  /\ UNCHANGED <<fields, children, client, closing, reply, wire, events, contexts, faults>>

\* The write of the frame ends; a failed one terminates the client.
Write(c) ==
  LET i == proc[c].inst IN
  /\ proc[c].pc = "write"
  /\ \/ /\ client[i] = "open" /\ process[i] = "alive"
        /\ wire' = [wire EXCEPT ![i] = @ \cup {IdOf(c)}]
        /\ Goto(c, "wait")
        /\ UNCHANGED <<client, closing, pending, reply>>
     \/ /\ client[i] = "open" /\ process[i] = "dead"
        /\ Terminate(i, {IdOf(c)})
        /\ Return(c, "error")
        /\ UNCHANGED wire
     \/ /\ client[i] = "done"
        /\ Return(c, "error")
        /\ UNCHANGED <<client, closing, pending, reply, wire>>
  /\ UNCHANGED <<fields, children, events, contexts, faults>>

\* The context ends during the write: either the write is stopped, and the
\* transport with it, or it was complete after all.
CancelWrite(c) ==
  LET i == proc[c].inst IN
  /\ proc[c].pc = "write"
  /\ CtxDone(c)
  /\ IdOf(c) \in pending[i]
  /\ Return(c, "error")
  /\ \/ Terminate(i, {IdOf(c)}) /\ UNCHANGED wire
     \/ /\ process[i] = "alive"
        /\ wire' = [wire EXCEPT ![i] = @ \cup {IdOf(c)}]
        /\ pending' = [pending EXCEPT ![i] = @ \ {IdOf(c)}]
        /\ UNCHANGED <<client, closing, reply>>
  /\ UNCHANGED <<fields, children, events, contexts, faults>>

TakeReply(c) ==
  /\ proc[c].pc = "wait"
  /\ reply[IdOf(c)] # "none"
  /\ Return(c, IF reply[IdOf(c)] = "answer" THEN "ok" ELSE "error")
  /\ UNCHANGED <<fields, children, transport, events, contexts, faults>>

\* Mutant: the context wins over an answer that has arrived.
CancelWaitFirst(c) ==
  /\ proc[c].pc = "wait"
  /\ CtxDone(c)
  /\ pending' = [pending EXCEPT ![proc[c].inst] = @ \ {IdOf(c)}]
  /\ Return(c, "error")
  /\ UNCHANGED <<fields, children, client, closing, reply, wire, events, contexts, faults>>

\* Mutant: the request stays in the table.
CancelWaitOnly(c) ==
  /\ proc[c].pc = "wait"
  /\ CtxDone(c)
  /\ IdOf(c) \in pending[proc[c].inst]
  /\ Return(c, "error")
  /\ UNCHANGED <<fields, children, transport, events, contexts, faults>>

\* The context ends; an answer that has been claimed already is taken instead
\* (awaitClaimedResult).
CancelWait(c) ==
  /\ proc[c].pc = "wait"
  /\ CtxDone(c)
  /\ IdOf(c) \in pending[proc[c].inst]
  /\ pending' = [pending EXCEPT ![proc[c].inst] = @ \ {IdOf(c)}]
  /\ Return(c, "error")
  /\ UNCHANGED <<fields, children, client, closing, reply, wire, events, contexts, faults>>

Cancel(c) ==
  /\ "cancel" \in Operations
  /\ Fault
  /\ proc[c].pc \notin {"idle", "done"}
  /\ c \notin canceled
  /\ canceled' = canceled \cup {c}
  /\ UNCHANGED <<fields, children, transport, events, aborted, closer, proc>>

-----------------------------------------------------------------------------
(* The child and the goroutines that watch it                              *)

\* dispatchResponse: a result or an error; what nobody waits for is dropped.
DispatchResponse(i, id) ==
  /\ process[i] = "alive" /\ client[i] = "open"
  /\ id \in wire[i]
  /\ wire' = [wire EXCEPT ![i] = @ \ {id}]
  /\ \/ /\ reply' = IF id \in pending[i] THEN [reply EXCEPT ![id] = "answer"] ELSE reply
        /\ UNCHANGED faults
     \/ /\ "refuse" \in Operations /\ Fault
        /\ reply' = IF id \in pending[i] THEN [reply EXCEPT ![id] = "error"] ELSE reply
  /\ pending' = [pending EXCEPT ![i] = @ \ {id}]
  /\ UNCHANGED <<fields, children, client, closing, events, contexts, proc>>

\* dispatchNotification: a full channel is a protocol error.
DispatchNotification(i) ==
  /\ process[i] = "alive" /\ client[i] = "open"
  /\ sentNotes < MaxNotes
  /\ sentNotes' = sentNotes + 1
  /\ IF notes[i] < Buffer
     THEN notes' = [notes EXCEPT ![i] = @ + 1] /\ UNCHANGED <<client, closing, pending, reply>>
     ELSE Terminate(i, {}) /\ UNCHANGED notes
  /\ UNCHANGED <<fields, children, wire, forward, notify, contexts, proc, faults>>

\* readLoop ends at the end of the stream or at a malformed frame.
ReadFails(i) ==
  /\ client[i] = "open"
  /\ \/ process[i] = "dead" /\ UNCHANGED faults
     \/ process[i] = "alive" /\ "badframe" \in Operations /\ Fault
  /\ Terminate(i, {})
  /\ UNCHANGED <<fields, children, wire, events, contexts, proc>>

CloseTransport(i) ==
  /\ i \in closing
  /\ closing' = closing \ {i}
  /\ process' = [process EXCEPT ![i] = "dead"]
  /\ UNCHANGED <<fields, expected, watched, exited, client, pending, reply, wire, events, contexts, proc, faults>>

Crash(i) ==
  /\ "crash" \in Operations
  /\ Fault
  /\ process[i] = "alive"
  /\ process' = [process EXCEPT ![i] = "dead"]
  /\ UNCHANGED <<fields, expected, watched, exited, transport, events, contexts, proc>>

\* Mutant: the exit is noted and the manager's status is not.
WaitProcessKeepsStatus(i) ==
  /\ i \in watched \ exited
  /\ process[i] = "dead"
  /\ exited' = exited \cup {i}
  /\ IF current = i /\ i \notin expected /\ ~closed
     THEN current' = NoInstance /\ active' = NoInstance
     ELSE UNCHANGED <<current, active>>
  /\ UNCHANGED <<closed, status, starting, attempt, process, expected, watched, transport, events, contexts, proc, faults>>

\* Mutant: a state that Health does not know.
WaitProcessStops(i) ==
  /\ i \in watched \ exited
  /\ process[i] = "dead"
  /\ exited' = exited \cup {i}
  /\ current' = NoInstance /\ active' = NoInstance /\ status' = "stopped"
  /\ UNCHANGED <<closed, starting, attempt, process, expected, watched, transport, events, contexts, proc, faults>>

\* Mutant: only the exit is noted.
WaitProcessOnly(i) ==
  /\ i \in watched \ exited
  /\ process[i] = "dead"
  /\ exited' = exited \cup {i}
  /\ UNCHANGED <<fields, process, expected, watched, transport, events, contexts, proc, faults>>

\* waitProcess forgets a child that ended by itself.
WaitProcess(i) ==
  /\ i \in watched \ exited
  /\ process[i] = "dead"
  /\ exited' = exited \cup {i}
  /\ IF current = i /\ i \notin expected /\ ~closed
     THEN current' = NoInstance /\ active' = NoInstance /\ status' = "failed"
     ELSE UNCHANGED <<current, active, status>>
  /\ UNCHANGED <<closed, starting, attempt, process, expected, watched, transport, events, contexts, proc, faults>>

-----------------------------------------------------------------------------
(* ManagerRPC.forward and the consumer of the broker                       *)

Forward ==
  /\ forward # NoInstance
  /\ notes[forward] > 0
  /\ notify < RpcBuffer
  /\ notes' = [notes EXCEPT ![forward] = @ - 1]
  /\ notify' = notify + 1
  /\ UNCHANGED <<fields, children, transport, sentNotes, forward, contexts, proc, faults>>

Consume ==
  /\ notify > 0
  /\ notify' = notify - 1
  /\ UNCHANGED <<fields, children, transport, notes, sentNotes, forward, contexts, proc, faults>>

-----------------------------------------------------------------------------
(* Manager.Close                                                           *)

CloseManager ==
  /\ "close" \in Operations
  /\ closer.pc = "idle"
  /\ closed' = TRUE
  /\ status' = "closed"
  /\ current' = NoInstance
  /\ active' = NoInstance
  /\ aborted' = IF starting = NoCall THEN aborted ELSE aborted \cup {starting}
  /\ expected' = IF current = NoInstance THEN expected ELSE expected \cup {current}
  /\ closer' = [pc |-> "client", inst |-> current, on |-> starting]
  /\ UNCHANGED <<starting, attempt, process, watched, exited, transport, events, canceled, proc, faults>>

CloseCurrent ==
  /\ closer.pc = "client"
  /\ IF closer.inst = NoInstance
     THEN UNCHANGED <<client, reply, pending, closing, process>>
     ELSE CloseClient(closer.inst)
  /\ closer' = [closer EXCEPT !.pc = "attempt"]
  /\ UNCHANGED <<fields, expected, watched, exited, wire, events, canceled, aborted, proc, faults>>

\* Mutant: Close does not wait for the attempt it canceled.
CloseWithoutAttempt ==
  /\ closer.pc = "attempt"
  /\ closer' = [closer EXCEPT !.pc = "done"]
  /\ UNCHANGED <<fields, children, transport, events, canceled, aborted, proc, faults>>

CloseAttempt ==
  /\ closer.pc = "attempt"
  /\ closer.on # NoCall => attempt[closer.on].state = "done"
  /\ closer' = [closer EXCEPT !.pc = "done"]
  /\ UNCHANGED <<fields, children, transport, events, canceled, aborted, proc, faults>>

-----------------------------------------------------------------------------
Run(c) ==
  \/ WaitForAttempt(c) \/ Spawn(c) \/ Adopt(c) \/ Initialized(c) \/ Activate(c)
  \/ FailClose(c) \/ FailClear(c) \/ FinishAttempt(c) \/ StartForward(c)
  \/ Register(c) \/ Write(c) \/ CancelWrite(c) \/ TakeReply(c) \/ CancelWait(c)

Forwarding == Forward \/ Consume
Closing    == CloseCurrent \/ CloseAttempt

Next ==
  \/ \E c \in Calls : Ensure(c) \/ Run(c) \/ Cancel(c)
  \/ \E i \in Instances :
       \/ \E id \in Ids : DispatchResponse(i, id)
       \/ DispatchNotification(i) \/ ReadFails(i) \/ CloseTransport(i) \/ Crash(i) \/ WaitProcess(i)
  \/ Forwarding
  \/ CloseManager \/ Closing

Spec == Init /\ [][Next]_vars

\* Goroutines run, the broker reads its channel, a child that is alive answers
\* what it has read, and the end of a child is noticed.  Nobody has to call,
\* cancel, crash or close.
Fairness ==
  /\ \A c \in Calls : WF_vars(Run(c))
  /\ \A i \in Instances :
       /\ \A id \in Ids : WF_vars(DispatchResponse(i, id))
       /\ WF_vars(process[i] = "dead" /\ ReadFails(i))
       /\ WF_vars(CloseTransport(i))
       /\ WF_vars(WaitProcess(i))
  /\ WF_vars(Forwarding)
  /\ WF_vars(Closing)

FairSpec == Spec /\ Fairness

-----------------------------------------------------------------------------
(* Properties                                                              *)

\* Type correctness of manager, clients, children and calls.
TypeOK ==
  /\ closed \in BOOLEAN
  /\ status \in {"idle", "starting", "healthy", "failed", "closed"}
  /\ current \in Instances \cup {NoInstance}
  /\ active \in Instances \cup {NoInstance}
  /\ starting \in Calls \cup {NoCall}
  /\ attempt \in [Calls -> [state : {"none", "open", "done"}, client : Instances \cup {NoInstance}]]
  /\ process \in [Instances -> {"none", "alive", "dead"}]
  /\ expected \subseteq Instances /\ watched \subseteq Instances /\ exited \subseteq Instances
  /\ client \in [Instances -> {"none", "open", "done"}]
  /\ closing \subseteq Instances
  /\ pending \in [Instances -> SUBSET Ids]
  /\ reply \in [Ids -> {"none", "answer", "error"}]
  /\ wire \in [Instances -> SUBSET Ids]
  /\ notes \in [Instances -> 0..Buffer]
  /\ sentNotes \in 0..MaxNotes
  /\ forward \in Instances \cup {NoInstance}
  /\ notify \in 0..RpcBuffer
  /\ proc \in [Calls -> Call]
  /\ canceled \subseteq Calls /\ aborted \subseteq Calls
  /\ closer \in [pc : {"idle", "client", "attempt", "done"}, inst : Instances \cup {NoInstance},
                 on : Calls \cup {NoCall}]
  /\ faults \in 0..MaxFaults

\* "The single initialized client owned by the Manager": concurrent callers,
\* failed attempts, a crash and Close never leave two children alive.
OneProcess == Cardinality({i \in Instances : process[i] = "alive"}) <= 1

\* What Health shows is what callers get: "healthy" means that a client is
\* active, and a manager that is starting has an attempt somebody finishes.
StatusIsTrue ==
  /\ status = "healthy" <=> active # NoInstance
  /\ status = "closed" <=> closed
  /\ status = "starting" => starting # NoCall
  /\ active # NoInstance => current = active

\* When Close returns no child is left, whatever attempt it interrupted.
CloseLeavesNothing ==
  closer.pc = "done" =>
    /\ \A i \in Instances : process[i] # "alive"
    /\ current = NoInstance /\ active = NoInstance /\ starting = NoCall

\* A caller whose request was answered is told so: a cancellation or the end
\* of the client that comes after the answer does not hide it.
AnswerIsKept ==
  \A c \in Calls : proc[c].pc = "done" /\ proc[c].result = "error" => reply[<<"request", c>>] # "answer"

\* Every entry of a client's table has a caller that waits for it there: a
\* canceled call leaves none behind.
PendingHasCaller ==
  \A i \in Instances : \A id \in pending[i] :
    LET q == proc[id[2]] IN q.pc \in {"write", "wait"} /\ q.inst = i /\ q.kind = id[1]

\* Answers, cancellations and the end of a client leave callers and tables in agreement.
CallersAreServed == AnswerIsKept /\ PendingHasCaller

\* Every call returns, whatever happens to the child it talks to.
CallsReturn == \A c \in Calls : proc[c].pc # "idle" ~> proc[c].pc = "done"

\* A client that has ended is not handed out for good, so that a later Ensure
\* starts a new child.
DeadClientIsReplaced ==
  \A i \in Instances : active = i /\ client[i] = "done" ~> active # i

\* "Do not silently drop a state transition after the Client has accepted it"
\* (manager_rpc.go): what the client in use accepted reaches the broker.
NotificationsArrive ==
  \A i \in Instances : active = i /\ notes[i] > 0 ~> notes[i] = 0
=============================================================================

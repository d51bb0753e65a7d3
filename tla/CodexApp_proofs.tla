---------------------------- MODULE CodexApp_proofs ----------------------------
(***************************************************************************)
(* For every set of calls and children: the state is well typed, two App   *)
(* Servers never live at once, the status tells the truth, and Close       *)
(* leaves no child behind.  What the table of a client, the response       *)
(* channels and the callers say of a request agrees, so that an answer is  *)
(* never hidden and no entry is left behind (Client.Call, dispatchResponse *)
(* and terminate of internal/codexapp/client.go).                          *)
(*                                                                         *)
(* Then RunnerProcess, the process of a legacy run, and TaskFeed, the way  *)
(* of its events to the pages.                                             *)
(***************************************************************************)
EXTENDS CodexApp, FiniteSetTheorems, SequenceTheorems, TLAPS

-----------------------------------------------------------------------------
(* The invariant                                                           *)

\* A call that makes the attempt under way, from Ensure to finishAttempt.
Starter(c) ==
  \/ proc[c].pc \in {"spawn", "adopt", "initialized", "activate", "failClose", "failClear", "finish"}
  \/ proc[c].pc \in {"register", "write", "wait"} /\ proc[c].kind = "initialize"

\* ... and has a child of its own that the manager has not published.
Owner(c) == Starter(c) /\ proc[c].pc \notin {"spawn", "finish"}

CallShape ==
  \A c \in Calls :
    /\ proc[c].pc \in {"idle", "spawn", "adopt"} => proc[c].kind = "initialize"
    /\ proc[c].pc \in {"idle", "spawn"} => proc[c].inst = NoInstance
    /\ proc[c].pc \notin {"idle", "join", "spawn", "finish", "done"} => proc[c].inst # NoInstance

\* One attempt at a time: it is the one of Manager.starting, it is not done,
\* and Close has canceled it.
OneAttempt ==
  /\ \A c \in Calls : Starter(c) => starting = c
  /\ \A c \in Calls : starting = c => Starter(c) /\ attempt[c].state # "done"
  /\ closed => \A c \in Calls : Starter(c) => c \in aborted

\* A child that is alive is the active one, or that of the attempt, or the one
\* Close is about to end.
Custody ==
  \A i \in Instances : process[i] = "alive" =>
    \/ active = i
    \/ closer.pc = "client" /\ closer.inst = i
    \/ \E c \in Calls : Owner(c) /\ proc[c].pc # "failClear" /\ proc[c].inst = i

\* The manager's fields speak of one child.
Roles ==
  /\ current # NoInstance => active = current \/ \E c \in Calls : Owner(c) /\ proc[c].inst = current
  /\ active # NoInstance =>
       /\ current = active
       /\ \A c \in Calls : Starter(c) => proc[c].pc = "finish" /\ proc[c].inst = active
  /\ \A c \in Calls : proc[c].pc = "finish" /\ proc[c].inst # NoInstance => status # "starting"

Closedness ==
  /\ closed <=> closer.pc # "idle"
  /\ closed => current = NoInstance /\ active = NoInstance
  /\ closed /\ starting # NoCall => starting = closer.on
  /\ closer.pc = "done" => starting = NoCall
  /\ closer.pc = "client" /\ closer.inst # NoInstance =>
       \A c \in Calls : Owner(c) => proc[c].inst = closer.inst

ManagerInv == CallShape /\ OneAttempt /\ Custody /\ Roles /\ Closedness /\ StatusIsTrue
-----------------------------------------------------------------------------
(* Type correctness                                                        *)

LEMMA InitType == Init => TypeOK
<1> SUFFICES ASSUME Init PROVE TypeOK
  OBVIOUS
<1>1. /\ proc \in [Calls -> Call]
      /\ closer \in [pc : {"idle", "client", "attempt", "done"}, inst : Instances \cup {NoInstance},
                    on : Calls \cup {NoCall}]
  BY DEF Init, Kinds, Call, CallStates
<1>2. attempt \in [Calls -> [state : {"none", "open", "done"}, client : Instances \cup {NoInstance}]]
  BY DEF Init
<1>3. /\ 0 \in 0..Buffer /\ 0 \in 0..RpcBuffer /\ 0 \in 0..MaxNotes /\ 0 \in 0..MaxFaults
  BY BuffersAssumption
<1>4. pending \in [Instances -> SUBSET Ids] /\ wire \in [Instances -> SUBSET Ids]
  BY DEF Init
<1>5. reply \in [Ids -> {"none", "answer", "error"}]
  BY DEF Init
<1>6. /\ process \in [Instances -> {"none", "alive", "dead"}]
      /\ client \in [Instances -> {"none", "open", "done"}]
      /\ notes \in [Instances -> 0..Buffer]
  BY <1>3 DEF Init
<1> QED
  BY <1>1, <1>2, <1>3, <1>4, <1>5, <1>6 DEF Init, TypeOK

LEMMA GotoType ==
  ASSUME proc \in [Calls -> Call], NEW c \in Calls, NEW p \in CallStates, Goto(c, p)
  PROVE  proc' \in [Calls -> Call]
<1>1. [proc[c] EXCEPT !.pc = p] \in Call
  BY DEF Call
<1> QED
  BY <1>1 DEF Goto

LEMMA LeaveType ==
  ASSUME proc \in [Calls -> Call], NEW c \in Calls, NEW w \in {"ok", "error"}, Leave(c, w)
  PROVE  proc' \in [Calls -> Call]
<1>1. [proc[c] EXCEPT !.pc = "done", !.result = w] \in Call
  BY DEF Call, CallStates
<1>2. proc' = [proc EXCEPT ![c] = [proc[c] EXCEPT !.pc = "done", !.result = w]]
  BY DEF Leave
<1> QED
  BY <1>1, <1>2

LEMMA TakeType ==
  ASSUME proc \in [Calls -> Call], NEW c \in Calls, NEW p \in CallStates,
         NEW i \in Instances \cup {NoInstance},
         proc' = [proc EXCEPT ![c].pc = p, ![c].inst = i]
  PROVE  proc' \in [Calls -> Call]
<1>1. [proc[c] EXCEPT !.pc = p, !.inst = i] \in Call
  BY DEF Call
<1>2. proc' = [proc EXCEPT ![c] = [proc[c] EXCEPT !.pc = p, !.inst = i]]
  OBVIOUS
<1> QED
  BY <1>1, <1>2

LEMMA JoinType ==
  ASSUME proc \in [Calls -> Call], NEW c \in Calls, NEW p \in CallStates, NEW d \in Calls,
         proc' = [proc EXCEPT ![c].pc = p, ![c].on = d]
  PROVE  proc' \in [Calls -> Call]
<1>1. [proc[c] EXCEPT !.pc = p, !.on = d] \in Call
  BY DEF Call
<1>2. proc' = [proc EXCEPT ![c] = [proc[c] EXCEPT !.pc = p, !.on = d]]
  OBVIOUS
<1> QED
  BY <1>1, <1>2

LEMMA RequestType ==
  ASSUME proc \in [Calls -> Call], NEW c \in Calls, NEW p \in CallStates, NEW k \in Kinds,
         proc' = [proc EXCEPT ![c].pc = p, ![c].kind = k]
  PROVE  proc' \in [Calls -> Call]
<1>1. [proc[c] EXCEPT !.pc = p, !.kind = k] \in Call
  BY DEF Call
<1>2. proc' = [proc EXCEPT ![c] = [proc[c] EXCEPT !.pc = p, !.kind = k]]
  OBVIOUS
<1> QED
  BY <1>1, <1>2

Attempt == [state : {"none", "open", "done"}, client : Instances \cup {NoInstance}]

LEMMA ReturnType ==
  ASSUME proc \in [Calls -> Call], NEW c \in Calls, NEW w \in {"ok", "error"}, Return(c, w)
  PROVE  proc' \in [Calls -> Call]
<1>1. "initialized" \in CallStates /\ "failClose" \in CallStates
  BY DEF CallStates
<1> QED
  BY <1>1, GotoType, LeaveType DEF Return

TransportType ==
  /\ client \in [Instances -> {"none", "open", "done"}]
  /\ closing \subseteq Instances
  /\ pending \in [Instances -> SUBSET Ids]
  /\ reply \in [Ids -> {"none", "answer", "error"}]

LEMMA TerminateType ==
  ASSUME TransportType, NEW i \in Instances, NEW own, Terminate(i, own)
  PROVE  TransportType'
  BY DEF TransportType, Terminate

LEMMA CloseClientType ==
  ASSUME TransportType, NEW i \in Instances, CloseClient(i),
         process \in [Instances -> {"none", "alive", "dead"}]
  PROVE  TransportType' /\ process' \in [Instances -> {"none", "alive", "dead"}]
  BY DEF TransportType, CloseClient

LEMMA IdType ==
  ASSUME proc \in [Calls -> Call], NEW c \in Calls
  PROVE  IdOf(c) \in Ids
  BY DEF IdOf, Ids, Call
\* The steps of a call that has no child yet, and of one that starts one.
LEMMA AttemptType ==
  ASSUME TypeOK, CallShape, NEW c \in Calls,
         \/ Ensure(c) \/ WaitForAttempt(c) \/ Spawn(c) \/ Adopt(c) \/ Initialized(c) \/ Activate(c)
         \/ FailClose(c) \/ FailClear(c) \/ FinishAttempt(c) \/ StartForward(c)
  PROVE  TypeOK' /\ CallShape'
<1> USE DEF CallStates
<1>0. /\ proc \in [Calls -> Call]
      /\ proc[c].inst \in Instances \cup {NoInstance}
      /\ proc[c].pc \notin {"idle", "join", "spawn", "finish", "done"} => proc[c].inst \in Instances
  BY DEF TypeOK, Call, CallShape
<1>1. CASE Ensure(c)
  <2>0. active \in Instances \cup {NoInstance} /\ starting \in Calls \cup {NoCall} /\ attempt \in [Calls -> Attempt]
    BY DEF TypeOK, Attempt
  <2>1. proc' \in [Calls -> Call]
    BY <1>1, <1>0, <2>0, GotoType, LeaveType, TakeType, JoinType DEF Ensure
  <2>2. attempt' \in [Calls -> Attempt]
    BY <1>1, <2>0 DEF Ensure, fields, Attempt
  <2>9. CallShape'
    BY <1>1, <1>0 DEF Ensure, Goto, Leave, CallShape, Call
  <2> QED
    BY <1>1, <2>9, <2>1, <2>2 DEF Ensure, Attempt, TypeOK, fields, children, transport, events, contexts
<1>2. CASE WaitForAttempt(c)
  <2>1. proc' \in [Calls -> Call]
    BY <1>2, <1>0, LeaveType DEF WaitForAttempt, TypeOK, Call
  <2>9. CallShape'
    BY <1>2, <1>0 DEF WaitForAttempt, Leave, CallShape, Call
  <2> QED
    BY <1>2, <2>9, <2>1 DEF WaitForAttempt, TypeOK, fields, children, transport, events, contexts
<1>3. CASE Spawn(c)
  <2> DEFINE i == CHOOSE j \in Unused : TRUE
  <2>1. Unused # {} => i \in Instances
    BY DEF Unused
  <2>2. proc' \in [Calls -> Call]
    BY <1>3, <1>0, <2>1, GotoType DEF Spawn, Call
  <2>3. /\ process' \in [Instances -> {"none", "alive", "dead"}]
        /\ client' \in [Instances -> {"none", "open", "done"}]
    BY <1>3, <2>1 DEF Spawn, TypeOK
  <2>4. faults' \in 0..MaxFaults
    BY <1>3, BuffersAssumption DEF Spawn, Fault, TypeOK
  <2>5. /\ proc[c].pc = "spawn"
        /\ \/ Goto(c, "finish")
           \/ i \in Instances /\ proc' = [proc EXCEPT ![c].pc = "adopt", ![c].inst = i]
    BY <1>3, <2>1 DEF Spawn
  <2>6. ASSUME Goto(c, "finish") PROVE CallShape'
    BY <2>5, <2>6, <1>0 DEF Goto, CallShape, Call
  <2>7. ASSUME i \in Instances, proc' = [proc EXCEPT ![c].pc = "adopt", ![c].inst = i]
        PROVE  CallShape'
    <3> HIDE DEF i
    <3> QED
      BY <2>5, <2>7, <1>0, InstancesAssumption DEF CallShape, Call
  <2>9. CallShape'
    BY <2>5, <2>6, <2>7
  <2> QED
    BY <1>3, <2>9, <2>2, <2>3, <2>4 DEF Spawn, TypeOK, fields, events, contexts
<1>4. CASE Adopt(c)
  <2> DEFINE i == proc[c].inst
  <2>1. proc' \in [Calls -> Call]
    BY <1>4, <1>0, GotoType, TakeType DEF Adopt
  <2>9. CallShape'
    BY <1>4, <1>0 DEF Adopt, Goto, CallShape, Call
  <2>2. CASE closed \/ starting # c
    <3>1. CloseClient(i) /\ i \in Instances /\ expected' = expected \cup {i} /\ UNCHANGED <<current, watched>>
      BY <1>4, <1>0, <2>2 DEF Adopt
    <3>2. TransportType' /\ process' \in [Instances -> {"none", "alive", "dead"}]
      BY <3>1, CloseClientType DEF TypeOK, TransportType
    <3> QED
      BY <1>4, <2>1, <2>9, <3>1, <3>2 DEF Adopt, TypeOK, TransportType, fields, events, contexts
  <2>3. CASE ~(closed \/ starting # c)
    BY <1>4, <1>0, <2>1, <2>3, <2>9 DEF Adopt, TypeOK, events, contexts
  <2> QED
    BY <2>2, <2>3
<1>5. CASE Initialized(c) \/ Activate(c)
  <2>1. proc' \in [Calls -> Call]
    BY <1>5, <1>0, GotoType DEF Initialized, Activate
  <2>9. CallShape'
    BY <1>5, <1>0 DEF Initialized, Activate, Goto, CallShape, Call
  <2> QED
    BY <1>5, <2>9, <1>0, <2>1 DEF Initialized, Activate, TypeOK, fields, children, transport, events, contexts
<1>6. CASE FailClose(c)
  <2>1. proc' \in [Calls -> Call]
    BY <1>6, <1>0, GotoType DEF FailClose
  <2>9. CallShape'
    BY <1>6, <1>0 DEF FailClose, Goto, CallShape, Call
  <2> QED
    BY <1>6, <2>9, <1>0, <2>1, CloseClientType DEF FailClose, TypeOK, TransportType, fields, events, contexts
<1>7. CASE FailClear(c)
  <2>1. proc' \in [Calls -> Call]
    BY <1>7, <1>0, TakeType DEF FailClear
  <2>9. CallShape'
    BY <1>7, <1>0 DEF FailClear, CallShape, Call
  <2> QED
    BY <1>7, <2>9, <1>0, <2>1 DEF FailClear, TypeOK, children, transport, events, contexts
<1>8. CASE FinishAttempt(c)
  <2>1. proc' \in [Calls -> Call]
    BY <1>8, <1>0, GotoType, LeaveType DEF FinishAttempt
  <2>9. CallShape'
    BY <1>8, <1>0 DEF FinishAttempt, Goto, Leave, CallShape, Call
  <2> QED
    BY <1>8, <2>9, <1>0, <2>1 DEF FinishAttempt, TypeOK, children, transport, events, contexts
<1>9. CASE StartForward(c)
  <2>1. proc' \in [Calls -> Call]
    BY <1>9, <1>0, RequestType DEF StartForward, Kinds
  <2>9. CallShape'
    BY <1>9, <1>0 DEF StartForward, CallShape, Call
  <2> QED
    BY <1>9, <2>9, <1>0, <2>1 DEF StartForward, TypeOK, fields, children, transport, contexts
<1> QED
  BY <1>1, <1>2, <1>3, <1>4, <1>5, <1>6, <1>7, <1>8, <1>9
\* What the steps of Client.Call do to the call: a request returns to its
\* caller, "initialize" to the attempt.
Calling(c) ==
  \/ /\ proc[c].pc \in {"register", "write"}
     /\ \E p \in {"write", "wait"} : Goto(c, p)
  \/ /\ proc[c].pc \in {"register", "write", "wait"}
     /\ \E w \in {"ok", "error"} : Return(c, w)

LEMMA CallingSteps ==
  ASSUME NEW c \in Calls, Register(c) \/ Write(c) \/ CancelWrite(c) \/ TakeReply(c) \/ CancelWait(c)
  PROVE  Calling(c)
  BY DEF Register, Write, CancelWrite, TakeReply, CancelWait, Calling

LEMMA CallingType ==
  ASSUME proc \in [Calls -> Call], CallShape, NEW c \in Calls, Calling(c)
  PROVE  proc' \in [Calls -> Call] /\ CallShape'
<1>1. ASSUME NEW p \in {"write", "wait"}, proc[c].pc \in {"register", "write"}, Goto(c, p)
      PROVE  proc' \in [Calls -> Call] /\ CallShape'
  <2>1. p \in CallStates
    BY DEF CallStates
  <2> QED
    BY <1>1, <2>1, GotoType DEF Goto, CallShape, Call
<1>2. ASSUME NEW w \in {"ok", "error"}, proc[c].pc \in {"register", "write", "wait"}, Return(c, w)
      PROVE  proc' \in [Calls -> Call] /\ CallShape'
  <2>1. proc' \in [Calls -> Call]
    BY <1>2, ReturnType
  <2>2. CallShape'
    BY <1>2 DEF Return, Goto, Leave, CallShape, Call
  <2> QED
    BY <2>1, <2>2
<1> QED
  BY <1>1, <1>2 DEF Calling

\* The steps of a request on its way.
LEMMA ClientCallType ==
  ASSUME TypeOK, CallShape, NEW c \in Calls,
         Register(c) \/ Write(c) \/ CancelWrite(c) \/ TakeReply(c) \/ CancelWait(c)
  PROVE  TypeOK' /\ CallShape'
<1> DEFINE i == proc[c].inst
<1>0. proc \in [Calls -> Call] /\ TransportType /\ wire \in [Instances -> SUBSET Ids]
  BY DEF TypeOK, TransportType
<1>1. proc' \in [Calls -> Call] /\ CallShape'
  BY <1>0, CallingSteps, CallingType
<1>2. IdOf(c) \in Ids
  BY <1>0, IdType
<1>3. i \in Instances
  BY <1>0 DEF CallShape, Call, Register, Write, CancelWrite, TakeReply, CancelWait
<1>4. TransportType' /\ wire' \in [Instances -> SUBSET Ids]
  <2> HIDE DEF i
  <2>1. CASE Register(c)
    BY <2>1, <1>0, <1>2, <1>3 DEF Register, TransportType, i
  <2>2. CASE Write(c)
    <3>1. Terminate(i, {IdOf(c)}) \/ UNCHANGED <<client, closing, pending, reply>>
      BY <2>2 DEF Write, i
    <3>2. TransportType'
      BY <3>1, <1>0, <1>3, TerminateType DEF TransportType
    <3> QED
      BY <2>2, <3>2, <1>0, <1>2, <1>3 DEF Write, i
  <2>3. CASE CancelWrite(c)
    <3>1. \/ Terminate(i, {IdOf(c)}) /\ UNCHANGED wire
          \/ /\ wire' = [wire EXCEPT ![i] = @ \cup {IdOf(c)}]
             /\ pending' = [pending EXCEPT ![i] = @ \ {IdOf(c)}]
             /\ UNCHANGED <<client, closing, reply>>
      BY <2>3 DEF CancelWrite, i
    <3> QED
      BY <3>1, <1>0, <1>2, <1>3, TerminateType DEF TransportType
  <2>4. CASE TakeReply(c)
    BY <2>4, <1>0 DEF TakeReply, TransportType, transport
  <2>5. CASE CancelWait(c)
    BY <2>5, <1>0, <1>3 DEF CancelWait, TransportType, i
  <2> QED
    BY <2>1, <2>2, <2>3, <2>4, <2>5
<1>5. UNCHANGED <<fields, children, events, contexts, faults>>
  BY DEF Register, Write, CancelWrite, TakeReply, CancelWait
<1> QED
  BY <1>1, <1>4, <1>5 DEF TypeOK, TransportType, fields, children, events, contexts

\* The child and the goroutines that watch it.
LEMMA ChildType ==
  ASSUME TypeOK, NEW i \in Instances,
         \/ \E id \in Ids : DispatchResponse(i, id)
         \/ DispatchNotification(i) \/ ReadFails(i) \/ CloseTransport(i) \/ Crash(i) \/ WaitProcess(i)
  PROVE  TypeOK'
<1>0. /\ TransportType
      /\ Fault \/ UNCHANGED faults => faults' \in 0..MaxFaults
  BY BuffersAssumption DEF TypeOK, TransportType, Fault
<1>1. ASSUME NEW id \in Ids, DispatchResponse(i, id) PROVE TypeOK'
  <2>1. /\ wire' \in [Instances -> SUBSET Ids] /\ pending' \in [Instances -> SUBSET Ids]
        /\ UNCHANGED <<fields, children, client, closing, events, contexts, proc>>
    BY <1>1 DEF DispatchResponse, TypeOK
  <2>2. reply' \in [Ids -> {"none", "answer", "error"}]
    BY <1>1 DEF DispatchResponse, TypeOK
  <2>3. faults' \in 0..MaxFaults
    BY <1>0, <1>1 DEF DispatchResponse
  <2> QED
    BY <2>1, <2>2, <2>3 DEF TypeOK, fields, children, events, contexts
<1>2. CASE DispatchNotification(i)
  <2>1. sentNotes' \in 0..MaxNotes /\ notes' \in [Instances -> 0..Buffer]
    BY <1>2, BuffersAssumption DEF DispatchNotification, TypeOK
  <2>2. TransportType'
    <3>1. Terminate(i, {}) \/ UNCHANGED <<client, closing, pending, reply>>
      BY <1>2 DEF DispatchNotification
    <3> QED
      BY <3>1, <1>0, TerminateType DEF TransportType
  <2> QED
    BY <1>2, <2>1, <2>2 DEF DispatchNotification, TypeOK, TransportType, fields, children, contexts
<1>3. CASE ReadFails(i)
  <2>1. TransportType' /\ faults' \in 0..MaxFaults
    BY <1>0, <1>3, TerminateType DEF ReadFails
  <2> QED
    BY <1>3, <2>1 DEF ReadFails, TypeOK, TransportType, fields, children, events, contexts
<1>4. CASE CloseTransport(i)
  BY <1>4 DEF CloseTransport, TypeOK, fields, events, contexts
<1>5. CASE Crash(i)
  BY <1>0, <1>5 DEF Crash, TypeOK, fields, transport, events, contexts
<1>6. CASE WaitProcess(i)
  BY <1>6 DEF WaitProcess, TypeOK, transport, events, contexts
<1> QED
  BY <1>1, <1>2, <1>3, <1>4, <1>5, <1>6

\* Cancellations, Close and the forwarding.
LEMMA OtherType ==
  ASSUME TypeOK, (\E c \in Calls : Cancel(c)) \/ Forwarding \/ CloseManager \/ Closing
  PROVE  TypeOK'
<1>1. ASSUME NEW c \in Calls, Cancel(c) PROVE TypeOK'
  BY <1>1, BuffersAssumption DEF Cancel, Fault, TypeOK, fields, children, transport, events
<1>2. CASE Forward
  <2>1. /\ notes' \in [Instances -> 0..Buffer] /\ notify' \in 0..RpcBuffer
    BY <1>2, BuffersAssumption DEF Forward, TypeOK
  <2> QED
    BY <1>2, <2>1 DEF Forward, TypeOK, fields, children, transport, contexts
<1>3. CASE Consume
  <2>1. notify' \in 0..RpcBuffer
    BY <1>3, BuffersAssumption DEF Consume, TypeOK
  <2> QED
    BY <1>3, <2>1 DEF Consume, TypeOK, fields, children, transport, contexts
<1>4. CASE CloseManager
  BY <1>4 DEF CloseManager, TypeOK, transport, events
<1>5. CASE CloseCurrent
  <2>1. closer.inst \in Instances \cup {NoInstance} /\ TransportType
    BY DEF TypeOK, TransportType
  <2>2. TransportType' /\ process' \in [Instances -> {"none", "alive", "dead"}]
    BY <1>5, <2>1, CloseClientType DEF CloseCurrent, TypeOK, TransportType
  <2> QED
    BY <1>5, <2>1, <2>2 DEF CloseCurrent, TypeOK, TransportType, fields, events
<1>6. CASE CloseAttempt
  BY <1>6 DEF CloseAttempt, TypeOK, fields, children, transport, events
<1> QED
  BY <1>1, <1>2, <1>3, <1>4, <1>5, <1>6 DEF Forwarding, Closing

LEMMA NextType == TypeOK /\ CallShape /\ [Next]_vars => TypeOK' /\ CallShape'
<1> SUFFICES ASSUME TypeOK, CallShape, [Next]_vars PROVE TypeOK' /\ CallShape'
  OBVIOUS
<1>1. ASSUME NEW c \in Calls, Ensure(c) \/ Run(c) PROVE TypeOK' /\ CallShape'
  BY <1>1, AttemptType, ClientCallType DEF Run
<1>2. ASSUME UNCHANGED proc PROVE CallShape'
  BY <1>2 DEF CallShape
<1>3. ASSUME NEW i \in Instances,
             \/ \E id \in Ids : DispatchResponse(i, id)
             \/ DispatchNotification(i) \/ ReadFails(i) \/ CloseTransport(i) \/ Crash(i) \/ WaitProcess(i)
      PROVE  TypeOK' /\ CallShape'
  BY <1>2, <1>3, ChildType
     DEF DispatchResponse, DispatchNotification, ReadFails, CloseTransport, Crash, WaitProcess
<1>4. ASSUME (\E c \in Calls : Cancel(c)) \/ Forwarding \/ CloseManager \/ Closing
      PROVE  TypeOK' /\ CallShape'
  BY <1>2, <1>4, OtherType
     DEF Cancel, Forwarding, Forward, Consume, CloseManager, Closing, CloseCurrent, CloseAttempt
<1>5. CASE UNCHANGED vars
  BY <1>2, <1>5 DEF vars, fields, children, transport, events, contexts, TypeOK
<1> QED
  BY <1>1, <1>3, <1>4, <1>5 DEF Next

\* Every reachable state is well typed, and a call that works on a child has
\* one.
THEOREM TypeCorrect == Spec => [](TypeOK /\ CallShape)
<1>1. Init => CallShape
  BY DEF Init, CallShape
<1> QED
  BY <1>1, InitType, NextType, PTL DEF Spec
-----------------------------------------------------------------------------
(* One child at a time                                                     *)

\* What the manager's steps preserve, given the types and CallShape.
Rest == OneAttempt /\ Custody /\ Roles /\ Closedness /\ StatusIsTrue

LEMMA ManagerInit == Init => ManagerInv
<1> SUFFICES ASSUME Init PROVE ManagerInv
  OBVIOUS
<1>1. \A c \in Calls : proc[c].pc = "idle" /\ proc[c].kind = "initialize" /\ proc[c].inst = NoInstance
  BY DEF Init
<1>2. CallShape
  BY <1>1 DEF CallShape
<1>3. OneAttempt
  BY <1>1, CallsAssumption DEF Init, OneAttempt, Starter
<1>4. Custody /\ Roles /\ Closedness /\ StatusIsTrue
  BY <1>1 DEF Init, Custody, Roles, Closedness, StatusIsTrue
<1> QED
  BY <1>2, <1>3, <1>4 DEF ManagerInv

\* A step that leaves the manager's fields alone, starts no child and neither
\* makes nor drops an owner keeps the invariant; an owner may forget only a
\* child that has ended.
LEMMA ManagerFrame ==
  ASSUME TypeOK, Rest, UNCHANGED <<closed, status, current, active, starting, closer, aborted, attempt>>,
         \A i \in Instances : process'[i] = "alive" => process[i] = "alive",
         \A c \in Calls :
           /\ Starter(c)' <=> Starter(c)
           /\ Owner(c)' <=> Owner(c)
           /\ Starter(c) => proc'[c].inst = proc[c].inst
           /\ proc[c].pc = "finish" => proc'[c].pc = "finish"
           /\ proc'[c].pc = "finish" => proc'[c].inst = NoInstance \/ proc[c].pc = "finish"
           /\ proc'[c].pc = "failClear" => proc[c].pc = "failClear" \/ process'[proc[c].inst] # "alive"
  PROVE  Rest'
<1>1. OneAttempt'
  BY DEF Rest, OneAttempt
<1>2. Custody'
  <2> SUFFICES ASSUME NEW i \in Instances, process'[i] = "alive"
               PROVE  \/ active' = i
                      \/ closer'.pc = "client" /\ closer'.inst = i
                      \/ \E c \in Calls : Owner(c)' /\ proc'[c].pc # "failClear" /\ proc'[c].inst = i
    BY DEF Custody
  <2>1. CASE \E c \in Calls : Owner(c) /\ proc[c].pc # "failClear" /\ proc[c].inst = i
    BY <2>1 DEF Owner
  <2> QED
    BY <2>1 DEF Rest, Custody
<1>3. Roles'
  <2>1. current # NoInstance => active = current \/ \E c \in Calls : Owner(c)' /\ proc'[c].inst = current
    BY DEF Rest, Roles, Owner
  <2>2. active # NoInstance =>
          /\ current = active
          /\ \A c \in Calls : Starter(c)' => proc'[c].pc = "finish" /\ proc'[c].inst = active
    BY DEF Rest, Roles
  <2>3. \A c \in Calls : proc'[c].pc = "finish" /\ proc'[c].inst # NoInstance => status # "starting"
    <3> SUFFICES ASSUME NEW c \in Calls, proc'[c].pc = "finish", proc'[c].inst # NoInstance
                 PROVE  status # "starting"
      OBVIOUS
    <3>1. proc[c].pc = "finish" /\ proc[c].inst = proc'[c].inst
      BY DEF Starter
    <3> QED
      BY <3>1 DEF Rest, Roles
  <2> QED
    BY <2>1, <2>2, <2>3 DEF Roles
<1>4. Closedness'
  BY DEF Rest, Closedness, Owner
<1>5. StatusIsTrue'
  BY DEF Rest, StatusIsTrue
<1> QED
  BY <1>1, <1>2, <1>3, <1>4, <1>5 DEF Rest

\* A step of a call that is not part of an attempt, before and after it.
LEMMA ElsewhereFrame ==
  ASSUME TypeOK, Rest, UNCHANGED <<closed, status, current, active, starting, closer, aborted, attempt, process>>,
         NEW c \in Calls, ~Starter(c), ~Starter(c)',
         \A d \in Calls : d # c => proc'[d] = proc[d]
  PROVE  Rest'
<1>1. \A d \in Calls : /\ Starter(d)' <=> Starter(d)
                       /\ Owner(d)' <=> Owner(d)
                       /\ Starter(d) => proc'[d] = proc[d]
                       /\ ~Starter(d) => proc[d].pc \notin {"finish", "failClear"}
                       /\ ~Starter(d)' => proc'[d].pc \notin {"finish", "failClear"}
  BY DEF Owner, Starter
<1> QED
  BY <1>1, ManagerFrame

\* The request of a call does not change what its attempt owns.
LEMMA CallingFrame ==
  ASSUME TypeOK, Rest, NEW c \in Calls, Calling(c),
         UNCHANGED <<closed, status, current, active, starting, closer, aborted, attempt, process>>
  PROVE  Rest'
<1>1. proc \in [Calls -> Call] /\ proc[c].pc \in {"register", "write", "wait"}
  BY DEF TypeOK, Calling
<1>2. /\ \A d \in Calls : d # c => proc'[d] = proc[d]
      /\ proc'[c].inst = proc[c].inst /\ proc'[c].kind = proc[c].kind
      /\ IF proc[c].kind = "request" THEN proc'[c].pc \in {"write", "wait", "done"}
                                     ELSE proc'[c].pc \in {"write", "wait", "initialized", "failClose"}
  BY <1>1 DEF Calling, Return, Goto, Leave, Call
<1>3. CASE proc[c].kind = "request"
  BY <1>1, <1>2, <1>3, ElsewhereFrame DEF Starter
<1>4. CASE proc[c].kind # "request"
  <2>1. proc[c].kind = "initialize"
    BY <1>1, <1>4 DEF Call, Kinds
  <2>2. Starter(c) /\ Starter(c)' /\ Owner(c) /\ Owner(c)'
    BY <1>1, <1>2, <2>1 DEF Starter, Owner
  <2>3. \A d \in Calls : d # c => (Starter(d)' <=> Starter(d)) /\ (Owner(d)' <=> Owner(d))
    BY <1>2 DEF Starter, Owner
  <2> QED
    BY <1>1, <1>2, <1>4, <2>2, <2>3, ManagerFrame
<1> QED
  BY <1>3, <1>4
\* Only one call makes an attempt.
LEMMA OnlyStarter ==
  ASSUME OneAttempt, NEW c \in Calls, Starter(c)
  PROVE  \A d \in Calls : Starter(d) => d = c
  BY DEF OneAttempt

LEMMA EnsureManager ==
  ASSUME TypeOK, CallShape, Rest, NEW c \in Calls, Ensure(c)
  PROVE  Rest'
<1>0. proc \in [Calls -> Call] /\ attempt \in [Calls -> Attempt] /\ ~Starter(c) /\ proc[c].pc = "idle"
  BY DEF TypeOK, Attempt, Starter, Ensure
<1>1. CASE UNCHANGED fields
  <2>1. proc'[c].pc \notin {"spawn", "adopt", "initialized", "activate", "failClose", "failClear", "finish",
                            "register", "write", "wait"} \/ starting' = c
    BY <1>0, <1>1 DEF Ensure, Leave, Call
  <2>2. CASE starting' = c
    BY <1>0, <1>1, <2>2 DEF Rest, OneAttempt, fields
  <2>3. CASE starting' # c
    <3>1. ~Starter(c)' /\ \A d \in Calls : d # c => proc'[d] = proc[d]
      BY <1>0, <2>1, <2>3 DEF Starter, Ensure, Leave, Goto
    <3> QED
      BY <1>0, <1>1, <3>1, ElsewhereFrame DEF Ensure, fields, children, contexts
  <2> QED
    BY <2>2, <2>3
<1>2. CASE ~UNCHANGED fields
  <2>1. /\ ~closed /\ active = NoInstance /\ starting = NoCall
        /\ starting' = c /\ status' = "starting"
        /\ attempt' = [attempt EXCEPT ![c].state = "open"] /\ Goto(c, "spawn")
        /\ UNCHANGED <<closed, current, active, process, closer, aborted>>
    BY <1>2 DEF Ensure, fields, children, contexts
  <2>2. /\ \A d \in Calls : ~Starter(d)
        /\ \A d \in Calls : d # c => proc'[d] = proc[d]
        /\ proc'[c].pc = "spawn" /\ proc'[c].inst = NoInstance
    BY <1>0, <2>1, CallsAssumption DEF Rest, OneAttempt, Goto, CallShape, Call
  <2>3. \A d \in Calls : Starter(d)' => d = c
    BY <2>2 DEF Starter
  <2>4. Starter(c)' /\ attempt'[c].state # "done"
    BY <1>0, <2>1, <2>2 DEF Starter, Attempt
  <2>5. OneAttempt'
    BY <2>1, <2>3, <2>4 DEF OneAttempt
  <2>6. Custody'
    BY <2>1, <2>2, InstancesAssumption DEF Rest, Custody, Closedness, Owner
  <2>7. Roles'
    <3>1. current = NoInstance
      BY <2>1, <2>2 DEF Rest, Roles, Owner
    <3>2. \A d \in Calls : proc'[d].pc # "finish"
      BY <2>2 DEF Starter
    <3> QED
      BY <2>1, <3>1, <3>2 DEF Roles
  <2>8. Closedness' /\ StatusIsTrue'
    BY <2>1, CallsAssumption DEF Rest, Closedness, StatusIsTrue
  <2> QED
    BY <2>5, <2>6, <2>7, <2>8 DEF Rest
<1> QED
  BY <1>1, <1>2

LEMMA SpawnManager ==
  ASSUME TypeOK, CallShape, Rest, NEW c \in Calls, Spawn(c)
  PROVE  Rest'
<1> DEFINE i == CHOOSE j \in Unused : TRUE
<1>0. /\ proc \in [Calls -> Call] /\ proc[c].pc = "spawn" /\ Starter(c) /\ starting = c
      /\ proc[c].inst = NoInstance /\ proc[c].kind = "initialize"
      /\ process \in [Instances -> {"none", "alive", "dead"}]
  BY DEF TypeOK, Starter, Spawn, Rest, OneAttempt, CallShape
<1>1. CASE Goto(c, "finish") /\ UNCHANGED process
  <2>1. /\ \A d \in Calls : d # c => proc'[d] = proc[d]
        /\ proc'[c].pc = "finish" /\ proc'[c].inst = NoInstance
    BY <1>0, <1>1 DEF Goto, Call
  <2>2. \A d \in Calls : (Starter(d)' <=> Starter(d)) /\ (Owner(d)' <=> Owner(d))
    BY <1>0, <2>1 DEF Starter, Owner
  <2> QED
    BY <1>0, <1>1, <2>1, <2>2, ManagerFrame DEF Spawn, fields, contexts
<1>2. CASE /\ ~CtxDone(c) /\ Unused # {}
           /\ process' = [process EXCEPT ![i] = "alive"]
           /\ proc' = [proc EXCEPT ![c].pc = "adopt", ![c].inst = i]
  <2>1. i \in Instances
    BY <1>2 DEF Unused
  <2> HIDE DEF i
  <2>2. /\ \A d \in Calls : d # c => proc'[d] = proc[d]
        /\ proc'[c].pc = "adopt" /\ proc'[c].inst = i
    BY <1>0, <1>2 DEF Call
  <2>3. ~closed
    BY <1>0, <1>2 DEF CtxDone, Rest, OneAttempt
  <2>4. active = NoInstance /\ closer.pc = "idle"
    BY <1>0, <2>3 DEF Rest, Roles, Closedness
  <2>5. \A d \in Calls : Starter(d) => d = c
    BY <1>0, OnlyStarter DEF Rest
  <2>6. \A j \in Instances : process[j] # "alive"
    BY <1>0, <2>4, <2>5, InstancesAssumption DEF Rest, Custody, Owner
  <2>7. current = NoInstance
    BY <1>0, <2>4, <2>5 DEF Rest, Roles, Owner
  <2>8. Starter(c)' /\ Owner(c)' /\ \A d \in Calls : Starter(d)' => d = c
    BY <2>2, <2>5 DEF Starter, Owner
  <2>9. UNCHANGED <<closed, status, current, active, starting, attempt, closer, aborted>>
    BY DEF Spawn, fields, contexts
  <2>10. OneAttempt'
    BY <1>0, <2>3, <2>8, <2>9 DEF Rest, OneAttempt
  <2>11. Custody'
    BY <1>0, <1>2, <2>1, <2>2, <2>6, <2>8 DEF Custody
  <2>12. Roles'
    <3>1. \A d \in Calls : proc'[d].pc # "finish"
      BY <2>2, <2>8 DEF Starter
    <3> QED
      BY <2>4, <2>7, <2>9, <3>1 DEF Roles
  <2>13. Closedness' /\ StatusIsTrue'
    BY <2>3, <2>4, <2>9 DEF Rest, Closedness, StatusIsTrue
  <2> QED
    BY <2>10, <2>11, <2>12, <2>13 DEF Rest
<1> QED
  BY <1>1, <1>2 DEF Spawn

LEMMA AdoptManager ==
  ASSUME TypeOK, CallShape, Rest, NEW c \in Calls, Adopt(c)
  PROVE  Rest'
<1> DEFINE i == proc[c].inst
<1>0. /\ proc \in [Calls -> Call] /\ proc[c].pc = "adopt" /\ Starter(c) /\ Owner(c) /\ starting = c
      /\ i \in Instances /\ proc[c].kind = "initialize"
      /\ process \in [Instances -> {"none", "alive", "dead"}]
  BY DEF TypeOK, Starter, Owner, Adopt, Rest, OneAttempt, CallShape, Call
<1> HIDE DEF i
<1>1. \A d \in Calls : Starter(d) => d = c
  BY <1>0, OnlyStarter DEF Rest
<1>2. active = NoInstance
  BY <1>0 DEF Rest, Roles
<1>3. UNCHANGED <<closed, status, active, starting, attempt, closer, aborted>>
  BY DEF Adopt, contexts
<1>4. CASE closed
  <2>1. /\ process' = [process EXCEPT ![i] = "dead"]
        /\ proc' = [proc EXCEPT ![c].pc = "finish", ![c].inst = NoInstance]
        /\ current' = current
    BY <1>4 DEF Adopt, CloseClient, i
  <2>2. /\ \A d \in Calls : d # c => proc'[d] = proc[d]
        /\ proc'[c].pc = "finish" /\ proc'[c].inst = NoInstance
    BY <1>0, <2>1 DEF Call
  <2>3. Starter(c)' /\ ~Owner(c)' /\ \A d \in Calls : d # c => ~Starter(d)' /\ ~Owner(d)'
    BY <1>1, <2>2 DEF Starter, Owner
  <2>4. OneAttempt'
    BY <1>0, <1>3, <2>3 DEF Rest, OneAttempt
  <2>5. Custody'
    BY <1>0, <1>1, <1>3, <2>1 DEF Rest, Custody, Owner, i
  <2>6. current = NoInstance
    BY <1>4 DEF Rest, Closedness
  <2>7. Roles'
    <3>1. \A d \in Calls : proc'[d].pc = "finish" => d = c
      BY <2>3 DEF Starter
    <3> QED
      BY <1>2, <1>3, <2>1, <2>2, <2>6, <3>1 DEF Roles
  <2>8. Closedness' /\ StatusIsTrue'
    BY <1>3, <2>1, <2>3 DEF Rest, Closedness, StatusIsTrue
  <2> QED
    BY <2>4, <2>5, <2>7, <2>8 DEF Rest
<1>5. CASE ~closed
  <2>1. current' = i /\ Goto(c, "register") /\ process' = process
    BY <1>0, <1>5 DEF Adopt, i
  <2>2. /\ \A d \in Calls : d # c => proc'[d] = proc[d]
        /\ proc'[c].pc = "register" /\ proc'[c].inst = i /\ proc'[c].kind = "initialize"
    BY <1>0, <2>1 DEF Goto, Call, i
  <2>3. Starter(c)' /\ Owner(c)' /\ \A d \in Calls : d # c => ~Starter(d)' /\ ~Owner(d)'
    BY <1>1, <2>2 DEF Starter, Owner
  <2>4. OneAttempt'
    BY <1>0, <1>3, <2>3 DEF Rest, OneAttempt
  <2>5. Custody'
    BY <1>0, <1>1, <1>3, <2>1, <2>2, <2>3 DEF Rest, Custody, Owner, i
  <2>6. Roles'
    <3>1. \A d \in Calls : proc'[d].pc # "finish"
      BY <2>2, <2>3 DEF Starter
    <3> QED
      BY <1>2, <1>3, <2>1, <2>2, <2>3, <3>1 DEF Roles
  <2>7. Closedness' /\ StatusIsTrue'
    BY <1>2, <1>3, <1>5 DEF Rest, Closedness, StatusIsTrue
  <2> QED
    BY <2>4, <2>5, <2>6, <2>7 DEF Rest
<1> QED
  BY <1>4, <1>5
\* An attempt that goes on to another of its steps keeps what it owns.
LEMMA OwnerFrame ==
  ASSUME TypeOK, Rest, NEW c \in Calls, NEW p \in CallStates, Goto(c, p),
         UNCHANGED <<closed, status, current, active, starting, closer, aborted, attempt>>,
         \A i \in Instances : process'[i] = "alive" => process[i] = "alive",
         proc[c].pc \in {"initialized", "activate", "failClose"},
         p \in {"activate", "failClose", "failClear"},
         p = "failClear" => process'[proc[c].inst] # "alive"
  PROVE  Rest'
<1>1. /\ proc \in [Calls -> Call]
      /\ \A d \in Calls : d # c => proc'[d] = proc[d]
      /\ proc'[c].pc = p /\ proc'[c].inst = proc[c].inst
  BY DEF TypeOK, Goto, Call
<1>2. \A d \in Calls : (Starter(d)' <=> Starter(d)) /\ (Owner(d)' <=> Owner(d))
  BY <1>1 DEF Starter, Owner
<1> QED
  BY <1>1, <1>2, ManagerFrame

LEMMA ActivateManager ==
  ASSUME TypeOK, CallShape, Rest, NEW c \in Calls, Activate(c)
  PROVE  Rest'
<1> DEFINE i == proc[c].inst
<1>0. /\ proc \in [Calls -> Call] /\ proc[c].pc = "activate" /\ Starter(c) /\ Owner(c) /\ starting = c
      /\ i \in Instances
  BY DEF TypeOK, Starter, Owner, Activate, Rest, OneAttempt, CallShape, Call
<1> HIDE DEF i
<1>1. CASE closed \/ current # i \/ i \in exited
  <2>1. Goto(c, "failClose") /\ UNCHANGED <<active, status>>
    BY <1>1 DEF Activate, i
  <2>2. "failClose" \in CallStates
    BY DEF CallStates
  <2> QED
    BY <1>0, <2>1, <2>2, OwnerFrame DEF Activate, children, contexts
<1>2. CASE ~(closed \/ current # i \/ i \in exited)
  <2>1. active' = i /\ current' = i /\ status' = "healthy" /\ Goto(c, "finish")
        /\ UNCHANGED <<closed, starting, attempt, process, closer, aborted>>
    BY <1>2 DEF Activate, children, contexts, i
  <2>2. /\ \A d \in Calls : d # c => proc'[d] = proc[d]
        /\ proc'[c].pc = "finish" /\ proc'[c].inst = i
    BY <1>0, <2>1 DEF Goto, Call, i
  <2>3. \A d \in Calls : Starter(d) => d = c
    BY <1>0, OnlyStarter DEF Rest
  <2>4. Starter(c)' /\ \A d \in Calls : (Starter(d)' => d = c) /\ ~Owner(d)'
    BY <2>2, <2>3 DEF Starter, Owner
  <2>5. OneAttempt'
    BY <1>0, <2>1, <2>4, <1>2 DEF Rest, OneAttempt
  <2>6. closer.pc = "idle"
    BY <1>2 DEF Rest, Closedness
  <2>7. active = NoInstance
    BY <1>0 DEF Rest, Roles
  <2>8. Custody'
    BY <1>0, <2>1, <2>3, <2>6, <2>7, InstancesAssumption DEF Rest, Custody, Owner, i
  <2>9. Roles'
    BY <2>1, <2>2, <2>4 DEF Roles
  <2>10. Closedness' /\ StatusIsTrue'
    BY <1>0, <1>2, <2>1, <2>6, InstancesAssumption DEF Rest, Closedness, StatusIsTrue
  <2> QED
    BY <2>5, <2>8, <2>9, <2>10 DEF Rest
<1> QED
  BY <1>1, <1>2

LEMMA FailManager ==
  ASSUME TypeOK, CallShape, Rest, NEW c \in Calls, FailClose(c) \/ FailClear(c)
  PROVE  Rest'
<1> DEFINE i == proc[c].inst
<1>0. /\ proc \in [Calls -> Call] /\ Starter(c) /\ Owner(c) /\ starting = c
      /\ proc[c].pc \in {"failClose", "failClear"} /\ i \in Instances
      /\ process \in [Instances -> {"none", "alive", "dead"}]
  BY DEF TypeOK, Starter, Owner, FailClose, FailClear, Rest, OneAttempt, CallShape, Call
<1> HIDE DEF i
<1>1. CASE FailClose(c)
  <2>1. process' = [process EXCEPT ![i] = "dead"] /\ Goto(c, "failClear")
    BY <1>1 DEF FailClose, CloseClient, i
  <2>2. "failClear" \in CallStates
    BY DEF CallStates
  <2>3. process'[i] # "alive" /\ \A j \in Instances : process'[j] = "alive" => process[j] = "alive"
    BY <1>0, <2>1
  <2>4. proc[c].pc = "failClose" /\ process'[proc[c].inst] # "alive"
        /\ UNCHANGED <<closed, status, current, active, starting, closer, aborted, attempt>>
    BY <1>1, <2>3 DEF FailClose, fields, contexts, i
  <2> QED
    BY <2>1, <2>2, <2>3, <2>4, OwnerFrame
<1>2. CASE FailClear(c)
  <2>1. /\ proc[c].pc = "failClear"
        /\ current' = IF current = i THEN NoInstance ELSE current
        /\ active' = IF active = i THEN NoInstance ELSE active
        /\ status' = IF closed THEN status ELSE "failed"
        /\ proc' = [proc EXCEPT ![c].pc = "finish", ![c].inst = NoInstance]
        /\ UNCHANGED <<closed, starting, attempt, process, closer, aborted>>
    BY <1>2 DEF FailClear, children, contexts, i
  <2>2. /\ \A d \in Calls : d # c => proc'[d] = proc[d]
        /\ proc'[c].pc = "finish" /\ proc'[c].inst = NoInstance
    BY <1>0, <2>1 DEF Call
  <2>3. \A d \in Calls : Starter(d) => d = c
    BY <1>0, OnlyStarter DEF Rest
  <2>4. Starter(c)' /\ \A d \in Calls : (Starter(d)' => d = c) /\ ~Owner(d)'
    BY <2>2, <2>3 DEF Starter, Owner
  <2>5. OneAttempt'
    BY <1>0, <2>1, <2>4 DEF Rest, OneAttempt
  <2>6. active = NoInstance /\ active' = NoInstance
    BY <1>0, <2>1 DEF Rest, Roles
  <2>7. current' = NoInstance
    BY <2>1, <2>3, <2>6 DEF Rest, Roles, Owner, i
  <2>8. Custody'
    BY <2>1, <2>3, <2>6, InstancesAssumption DEF Rest, Custody, Owner
  <2>9. Roles'
    <3>1. \A d \in Calls : proc'[d].pc = "finish" => d = c
      BY <2>4 DEF Starter
    <3> QED
      BY <2>2, <2>6, <2>7, <3>1 DEF Roles
  <2>10. Closedness' /\ StatusIsTrue'
    BY <2>1, <2>4, <2>6, <2>7 DEF Rest, Closedness, StatusIsTrue
  <2> QED
    BY <2>5, <2>8, <2>9, <2>10 DEF Rest
<1> QED
  BY <1>1, <1>2

LEMMA FinishManager ==
  ASSUME TypeOK, CallShape, Rest, NEW c \in Calls, FinishAttempt(c)
  PROVE  Rest'
<1> DEFINE i == proc[c].inst
<1>0. /\ proc \in [Calls -> Call] /\ Starter(c) /\ starting = c /\ proc[c].pc = "finish"
      /\ i \in Instances \cup {NoInstance} /\ attempt \in [Calls -> Attempt]
  BY DEF TypeOK, Starter, FinishAttempt, Rest, OneAttempt, Call, Attempt
<1> HIDE DEF i
<1>1. /\ starting' = NoCall
      /\ status' = IF i = NoInstance /\ ~closed THEN "failed" ELSE status
      /\ IF i = NoInstance THEN Leave(c, "error") ELSE Goto(c, "once")
      /\ UNCHANGED <<closed, current, active, process, closer, aborted>>
  BY <1>0 DEF FinishAttempt, children, contexts, i
<1>2. \A d \in Calls : Starter(d) => d = c
  BY <1>0, OnlyStarter DEF Rest
<1>3. \A d \in Calls : ~Starter(d)' /\ ~Owner(d)'
  <2>1. proc'[c].pc \in {"done", "once"} /\ \A d \in Calls : d # c => proc'[d] = proc[d]
    BY <1>0, <1>1 DEF Leave, Goto, Call
  <2> QED
    BY <1>2, <2>1 DEF Starter, Owner
<1>4. OneAttempt'
  BY <1>1, <1>3, CallsAssumption DEF OneAttempt
<1>5. \A d \in Calls : ~Owner(d)
  BY <1>0, <1>2 DEF Owner
<1>6. Custody'
  BY <1>1, <1>5 DEF Rest, Custody
<1>7. Roles'
  <2>1. \A d \in Calls : proc'[d].pc # "finish"
    BY <1>3 DEF Starter
  <2> QED
    BY <1>1, <1>3, <1>5, <2>1 DEF Rest, Roles
<1>8. active # NoInstance => i = active
  BY <1>0 DEF Rest, Roles, i
<1>9. i # NoInstance => status # "starting"
  BY <1>0 DEF Rest, Roles, i
<1>10. Closedness' /\ StatusIsTrue'
  BY <1>1, <1>3, <1>8, <1>9 DEF Rest, Closedness, StatusIsTrue
<1> QED
  BY <1>4, <1>6, <1>7, <1>10 DEF Rest

\* Joining and forwarding are no part of an attempt.
LEMMA OutsideManager ==
  ASSUME TypeOK, Rest, NEW c \in Calls, WaitForAttempt(c) \/ StartForward(c)
  PROVE  Rest'
<1>1. proc \in [Calls -> Call]
  BY DEF TypeOK
<1>2. ~Starter(c) /\ \A d \in Calls : d # c => proc'[d] = proc[d]
  BY <1>1 DEF WaitForAttempt, StartForward, Starter, Leave
<1>3. ~Starter(c)'
  BY <1>1 DEF WaitForAttempt, StartForward, Starter, Leave, Call
<1> QED
  BY <1>2, <1>3, ElsewhereFrame DEF WaitForAttempt, StartForward, fields, children, contexts
LEMMA ExitManager ==
  ASSUME TypeOK, Rest, NEW i \in Instances, WaitProcess(i)
  PROVE  Rest'
<1>0. /\ process[i] = "dead"
      /\ UNCHANGED <<closed, starting, attempt, process, closer, aborted, proc>>
  BY DEF WaitProcess, contexts
<1>1. \A c \in Calls : (Starter(c)' <=> Starter(c)) /\ (Owner(c)' <=> Owner(c))
  BY <1>0 DEF Starter, Owner
<1>2. CASE current = i /\ i \notin expected /\ ~closed
  <2>1. current' = NoInstance /\ active' = NoInstance /\ status' = "failed"
    BY <1>2 DEF WaitProcess
  <2>2. OneAttempt'
    BY <1>0, <1>1 DEF Rest, OneAttempt
  <2>3. Custody'
    BY <1>0, <1>1, <1>2, InstancesAssumption DEF Rest, Custody, Roles
  <2>4. Roles' /\ Closedness' /\ StatusIsTrue'
    BY <1>0, <1>1, <1>2, <2>1 DEF Rest, Roles, Closedness, StatusIsTrue
  <2> QED
    BY <2>2, <2>3, <2>4 DEF Rest
<1>3. CASE ~(current = i /\ i \notin expected /\ ~closed)
  <2>1. UNCHANGED <<current, active, status>>
    BY <1>3 DEF WaitProcess
  <2> QED
    BY <1>0, <1>1, <2>1, ManagerFrame
<1> QED
  BY <1>2, <1>3

LEMMA CloseManagerManager ==
  ASSUME TypeOK, Rest, CloseManager
  PROVE  Rest'
<1>0. /\ closer.pc = "idle" /\ closed' /\ status' = "closed"
      /\ current' = NoInstance /\ active' = NoInstance
      /\ aborted' = IF starting = NoCall THEN aborted ELSE aborted \cup {starting}
      /\ closer' = [pc |-> "client", inst |-> current, on |-> starting]
      /\ UNCHANGED <<starting, attempt, process, proc>>
  BY DEF CloseManager
<1>1. \A c \in Calls : (Starter(c)' <=> Starter(c)) /\ (Owner(c)' <=> Owner(c))
  BY <1>0 DEF Starter, Owner
<1>2. OneAttempt'
  BY <1>0, <1>1, CallsAssumption DEF Rest, OneAttempt
<1>3. Custody'
  BY <1>0, <1>1, InstancesAssumption DEF Rest, Custody, Roles
<1>4. Roles' /\ StatusIsTrue'
  BY <1>0 DEF Rest, Roles, StatusIsTrue
<1>5. current # NoInstance => \A c \in Calls : Owner(c) => proc[c].inst = current
  BY DEF Rest, Roles, OneAttempt, Owner
<1>6. Closedness'
  BY <1>0, <1>1, <1>5 DEF Closedness
<1> QED
  BY <1>2, <1>3, <1>4, <1>6 DEF Rest

LEMMA ClosingManager ==
  ASSUME TypeOK, Rest, Closing
  PROVE  Rest'
<1>0. /\ UNCHANGED <<closed, status, current, active, starting, attempt, proc, aborted>>
      /\ closer \in [pc : {"idle", "client", "attempt", "done"}, inst : Instances \cup {NoInstance},
                     on : Calls \cup {NoCall}]
      /\ process \in [Instances -> {"none", "alive", "dead"}]
  BY DEF Closing, CloseCurrent, CloseAttempt, fields, TypeOK
<1>1. \A c \in Calls : (Starter(c)' <=> Starter(c)) /\ (Owner(c)' <=> Owner(c))
  BY <1>0 DEF Starter, Owner
<1>2. OneAttempt' /\ Roles' /\ StatusIsTrue'
  BY <1>0, <1>1 DEF Rest, OneAttempt, Roles, StatusIsTrue
<1>3. CASE CloseCurrent
  <2>1. /\ closer.pc = "client" /\ closer'.pc = "attempt" /\ closer'.on = closer.on
        /\ IF closer.inst = NoInstance THEN process' = process
                                       ELSE process' = [process EXCEPT ![closer.inst] = "dead"]
    BY <1>0, <1>3 DEF CloseCurrent, CloseClient
  <2>2. Custody'
    BY <1>0, <1>1, <2>1, InstancesAssumption DEF Rest, Custody
  <2>3. Closedness'
    BY <1>0, <2>1 DEF Rest, Closedness
  <2> QED
    BY <1>2, <2>2, <2>3 DEF Rest
<1>4. CASE CloseAttempt
  <2>1. /\ closer.pc = "attempt" /\ closer'.pc = "done" /\ closer'.on = closer.on
        /\ closer.on # NoCall => attempt[closer.on].state = "done"
        /\ process' = process
    BY <1>0, <1>4 DEF CloseAttempt, children
  <2>2. Custody'
    BY <1>0, <1>1, <2>1 DEF Rest, Custody
  <2>3. starting = NoCall
    BY <1>0, <2>1 DEF Rest, OneAttempt, Closedness, TypeOK
  <2>4. Closedness'
    BY <1>0, <2>1, <2>3 DEF Rest, Closedness
  <2> QED
    BY <1>2, <2>2, <2>4 DEF Rest
<1> QED
  BY <1>3, <1>4 DEF Closing

\* Everything else touches neither the manager nor a call.
LEMMA OtherManager ==
  ASSUME TypeOK, Rest, UNCHANGED <<closed, status, current, active, starting, attempt, closer, aborted, proc>>,
         \A i \in Instances : process'[i] = "alive" => process[i] = "alive"
  PROVE  Rest'
<1>1. \A c \in Calls : (Starter(c)' <=> Starter(c)) /\ (Owner(c)' <=> Owner(c))
  BY DEF Starter, Owner
<1> QED
  BY <1>1, ManagerFrame

LEMMA ManagerNext ==
  TypeOK /\ ManagerInv /\ [Next]_vars => TypeOK' /\ ManagerInv'
<1> SUFFICES ASSUME TypeOK, CallShape, Rest, [Next]_vars PROVE Rest'
  BY NextType DEF ManagerInv, Rest
<1>1. ASSUME NEW c \in Calls, Ensure(c) \/ Run(c) PROVE Rest'
  <2>1. ASSUME Register(c) \/ Write(c) \/ CancelWrite(c) \/ TakeReply(c) \/ CancelWait(c) PROVE Rest'
    <3>1. Calling(c)
      BY <2>1, CallingSteps
    <3>2. UNCHANGED <<fields, children, contexts>>
      BY <2>1 DEF Register, Write, CancelWrite, TakeReply, CancelWait
    <3> QED
      BY <3>1, <3>2, CallingFrame DEF fields, children, contexts
  <2>2. ASSUME Initialized(c) PROVE Rest'
    <3>1. "activate" \in CallStates /\ "failClose" \in CallStates
      BY DEF CallStates
    <3>2. PICK p \in {"activate", "failClose"} : Goto(c, p)
      BY <2>2 DEF Initialized
    <3> QED
      BY <2>2, <3>1, <3>2, OwnerFrame DEF Initialized, fields, children, contexts
  <2> QED
    BY <1>1, <2>1, <2>2, EnsureManager, SpawnManager, AdoptManager, ActivateManager, FailManager,
       FinishManager, OutsideManager DEF Run
<1>2. ASSUME NEW i \in Instances,
             \/ \E id \in Ids : DispatchResponse(i, id)
             \/ DispatchNotification(i) \/ ReadFails(i) \/ CloseTransport(i) \/ Crash(i) \/ WaitProcess(i)
      PROVE  Rest'
  <2>0. process \in [Instances -> {"none", "alive", "dead"}]
    BY DEF TypeOK
  <2>1. CASE WaitProcess(i)
    BY <2>1, ExitManager
  <2>2. CASE ~WaitProcess(i)
    <3>1. /\ UNCHANGED <<fields, contexts, proc>>
          /\ process' = process \/ process' = [process EXCEPT ![i] = "dead"]
      BY <1>2, <2>2 DEF DispatchResponse, DispatchNotification, ReadFails, CloseTransport, Crash, children
    <3> QED
      BY <2>0, <3>1, OtherManager DEF fields, contexts
  <2> QED
    BY <2>1, <2>2
<1>3. ASSUME (\E c \in Calls : Cancel(c)) \/ Forwarding \/ UNCHANGED vars PROVE Rest'
  BY <1>3, OtherManager
     DEF Cancel, Forwarding, Forward, Consume, vars, fields, children, contexts
<1> QED
  BY <1>1, <1>2, <1>3, CloseManagerManager, ClosingManager DEF Next

LEMMA ManagerCorrect == Spec => [](TypeOK /\ ManagerInv)
  BY InitType, ManagerInit, ManagerNext, PTL DEF Spec

-----------------------------------------------------------------------------
(* The results                                                             *)

\* However many callers, failed attempts, crashes and cancellations there are,
\* two App Servers are never alive at once (Manager.Ensure, start, Close).
THEOREM SingleProcess == Spec => []OneProcess
<1>1. ASSUME TypeOK, ManagerInv PROVE OneProcess
  <2> DEFINE S == {i \in Instances : process[i] = "alive"}
  <2>1. ASSUME NEW i \in S, NEW j \in S PROVE i = j
    BY <1>1, InstancesAssumption DEF ManagerInv, OneAttempt, Custody, Roles, Closedness, Owner
  <2>2. CASE S = {}
    BY <2>2, FS_EmptySet DEF OneProcess
  <2>3. CASE S # {}
    <3>1. PICK x \in S : TRUE
      BY <2>3
    <3>2. S = {x}
      BY <2>1, <3>1
    <3> QED
      BY <3>2, FS_Singleton DEF OneProcess
  <2> QED
    BY <2>2, <2>3
<1> QED
  BY <1>1, ManagerCorrect, PTL

\* Health tells the truth: "healthy" when a client is handed out, "starting"
\* while an attempt is under way, "closed" for good (Manager.status).
THEOREM StatusCorrect == Spec => []StatusIsTrue
<1>1. ManagerInv => StatusIsTrue
  BY DEF ManagerInv
<1> QED
  BY <1>1, ManagerCorrect, PTL

\* When Close has returned no child is left, although it may have come between
\* any two steps of an attempt (Manager.Close).
THEOREM CloseCorrect == Spec => []CloseLeavesNothing
<1>1. ASSUME TypeOK, ManagerInv PROVE CloseLeavesNothing
  <2> SUFFICES ASSUME closer.pc = "done"
               PROVE  /\ \A i \in Instances : process[i] # "alive"
                      /\ current = NoInstance /\ active = NoInstance /\ starting = NoCall
    BY DEF CloseLeavesNothing
  <2>1. starting = NoCall /\ current = NoInstance /\ active = NoInstance
    BY <1>1 DEF ManagerInv, Closedness
  <2>2. \A c \in Calls : ~Owner(c)
    BY <1>1, <2>1, CallsAssumption DEF ManagerInv, OneAttempt, Owner
  <2> QED
    BY <1>1, <2>1, <2>2, InstancesAssumption DEF ManagerInv, Custody
<1> QED
  BY <1>1, ManagerCorrect, PTL

-----------------------------------------------------------------------------
(* The requests of a client: the invariant of the calls                    *)

\* The call has not registered its request of this kind yet.
Before(k, c) ==
  IF k = "initialize" THEN proc[c].kind = "initialize" /\ proc[c].pc \in {"idle", "spawn", "adopt", "register"}
                      ELSE proc[c].kind = "initialize" \/ proc[c].pc = "register"

\* The request of the caller is sent last, and the call ends with it.
RequestIsLast ==
  \A c \in Calls : proc[c].kind = "request" => proc[c].pc \in {"register", "write", "wait", "done"}

\* Nobody answers what was not registered, or not written.
NothingEarly ==
  /\ \A k \in Kinds, c \in Calls : Before(k, c) =>
       reply[<<k, c>>] = "none" /\ \A i \in Instances : <<k, c>> \notin wire[i]
  /\ \A c \in Calls : proc[c].pc = "write" =>
       reply[IdOf(c)] # "answer" /\ \A i \in Instances : IdOf(c) \notin wire[i]

\* A response channel is filled by the one who takes the request off the table.
PendingIsOpen == \A i \in Instances : \A id \in pending[i] : reply[id] = "none"

\* A client that is terminated has no requests.
DoneIsEmpty == \A i \in Instances : client[i] = "done" => pending[i] = {}

CallInv == RequestIsLast /\ NothingEarly /\ PendingIsOpen /\ DoneIsEmpty /\ PendingHasCaller /\ AnswerIsKept

-----------------------------------------------------------------------------
(* Frames                                                                  *)

\* A step that takes requests off the tables, fails some of them, and puts on
\* the wire what its caller has registered.
Tables ==
  /\ \A i \in Instances : pending'[i] \subseteq pending[i]
  /\ \A id \in Ids : \/ reply'[id] = reply[id]
                     \/ reply'[id] = "error" /\ \E i \in Instances : id \in pending[i] /\ id \notin pending'[i]
  /\ \A i \in Instances, k \in Kinds, d \in Calls : <<k, d>> \in wire'[i] =>
       <<k, d>> \in wire[i] \/ (~Before(k, d)' /\ proc'[d].pc # "write")
  /\ \A i \in Instances : client'[i] = "done" => client[i] = "done" \/ pending'[i] = {}

\* What such a step may do to a call.
Moved(d) ==
  /\ \A k \in Kinds : Before(k, d)' => Before(k, d)
  /\ proc'[d].kind = "request" => proc'[d].pc \in {"register", "write", "wait", "done"}
  /\ \A i \in Instances, k \in Kinds : <<k, d>> \in pending'[i] =>
       proc'[d].pc \in {"write", "wait"} /\ proc'[d].inst = i /\ proc'[d].kind = k
  /\ proc'[d].pc # "write"
  /\ proc'[d].pc = "done" /\ proc'[d].result = "error" => reply'[<<"request", d>>] # "answer"

LEMMA IdShape ==
  ASSUME NEW id \in Ids
  PROVE  id[1] \in Kinds /\ id[2] \in Calls /\ id = <<id[1], id[2]>>
  BY DEF Ids

LEMMA CallFrame ==
  ASSUME TypeOK, TypeOK', CallInv, Tables, \A d \in Calls : proc'[d] = proc[d] \/ Moved(d)
  PROVE  CallInv'
<1>0. /\ proc \in [Calls -> Call] /\ proc' \in [Calls -> Call]
      /\ pending \in [Instances -> SUBSET Ids] /\ pending' \in [Instances -> SUBSET Ids]
  BY DEF TypeOK
<1>1. \A k \in Kinds, d \in Calls : <<k, d>> \in Ids
  BY DEF Ids
<1>2. RequestIsLast'
  BY DEF CallInv, RequestIsLast, Moved
<1>3. \A k \in Kinds, d \in Calls : Before(k, d)' => Before(k, d)
  BY DEF Moved, Before
<1>4. \A k \in Kinds, d \in Calls, i \in Instances :
        <<k, d>> \in pending[i] => proc[d].pc \in {"write", "wait"} /\ proc[d].inst = i /\ proc[d].kind = k
  BY <1>1 DEF CallInv, PendingHasCaller
<1>5. \A k \in Kinds, d \in Calls, i \in Instances : Before(k, d) => <<k, d>> \notin pending[i]
  BY <1>4 DEF Before, Kinds
<1>6. NothingEarly'
  <2>1. ASSUME NEW k \in Kinds, NEW d \in Calls, Before(k, d)'
        PROVE  reply'[<<k, d>>] = "none" /\ \A i \in Instances : <<k, d>> \notin wire'[i]
    <3>1. Before(k, d)
      BY <2>1, <1>3
    <3>2. reply[<<k, d>>] = "none" /\ \A i \in Instances : <<k, d>> \notin wire[i]
      BY <3>1 DEF CallInv, NothingEarly
    <3>3. reply'[<<k, d>>] = "none"
      BY <3>1, <3>2, <1>1, <1>5 DEF Tables
    <3> QED
      BY <2>1, <3>2, <3>3 DEF Tables
  <2>2. ASSUME NEW d \in Calls, proc'[d].pc = "write"
        PROVE  reply'[IdOf(d)'] # "answer" /\ \A i \in Instances : IdOf(d)' \notin wire'[i]
    <3>1. proc'[d] = proc[d]
      BY <2>2 DEF Moved
    <3>2. /\ reply[IdOf(d)] # "answer" /\ \A i \in Instances : IdOf(d) \notin wire[i]
          /\ IdOf(d)' = IdOf(d) /\ IdOf(d) \in Ids
      BY <2>2, <3>1, <1>0, IdType DEF CallInv, NothingEarly, IdOf
    <3>3. reply'[IdOf(d)] # "answer"
      BY <3>2 DEF Tables
    <3>4. IdOf(d) = <<proc[d].kind, d>> /\ proc[d].kind \in Kinds
      BY <1>0 DEF IdOf, Call
    <3> QED
      BY <2>2, <3>2, <3>3, <3>4 DEF Tables
  <2> QED
    BY <2>1, <2>2 DEF NothingEarly
<1>7. PendingIsOpen'
  <2> SUFFICES ASSUME NEW i \in Instances, NEW id \in pending'[i] PROVE reply'[id] = "none"
    BY DEF PendingIsOpen
  <2>1. id \in pending[i] /\ id \in Ids /\ reply[id] = "none"
    BY <1>0 DEF Tables, CallInv, PendingIsOpen
  <2>2. \A j \in Instances : id \in pending[j] => j = i
    BY <2>1, <1>4, IdShape
  <2> QED
    BY <2>1, <2>2 DEF Tables
<1>8. DoneIsEmpty'
  BY <1>0 DEF CallInv, DoneIsEmpty, Tables
<1>9. PendingHasCaller'
  <2> SUFFICES ASSUME NEW i \in Instances, NEW id \in pending'[i]
               PROVE  LET q == proc'[id[2]] IN q.pc \in {"write", "wait"} /\ q.inst = i /\ q.kind = id[1]
    BY DEF PendingHasCaller
  <2>1. id \in pending[i] /\ id[1] \in Kinds /\ id[2] \in Calls /\ id = <<id[1], id[2]>>
    BY <1>0, IdShape DEF Tables
  <2>2. CASE proc'[id[2]] = proc[id[2]]
    BY <2>1, <2>2, <1>4
  <2>3. CASE Moved(id[2])
    BY <2>1, <2>3 DEF Moved
  <2> QED
    BY <2>1, <2>2, <2>3
<1>10. AnswerIsKept'
  <2> SUFFICES ASSUME NEW d \in Calls, proc'[d].pc = "done", proc'[d].result = "error"
               PROVE  reply'[<<"request", d>>] # "answer"
    BY DEF AnswerIsKept
  <2>1. CASE proc'[d] = proc[d]
    BY <2>1, <1>1 DEF CallInv, AnswerIsKept, Tables, Kinds
  <2> QED
    BY <2>1 DEF Moved
<1> QED
  BY <1>2, <1>6, <1>7, <1>8, <1>9, <1>10 DEF CallInv

\* The client is terminated, by whoever notices its end.
LEMMA TerminateTables ==
  ASSUME TypeOK, NEW i \in Instances, NEW own, Terminate(i, own), UNCHANGED wire
  PROVE  Tables /\ pending'[i] = {} /\ \A id \in own : id \in Ids => reply'[id] = reply[id]
  BY DEF TypeOK, Terminate, Tables

LEMMA CloseClientTables ==
  ASSUME TypeOK, NEW i \in Instances, CloseClient(i), UNCHANGED wire
  PROVE  Tables
  BY DEF TypeOK, CloseClient, Tables

\* A step of a call that is not inside Client.Call.
LEMMA AsideFrame ==
  ASSUME TypeOK, TypeOK', CallInv, Tables, NEW c \in Calls,
         \A d \in Calls : d # c => proc'[d] = proc[d],
         proc[c].pc \notin {"register", "write", "wait", "done"},
         proc'[c].pc \notin {"write", "wait"},
         proc'[c].kind = proc[c].kind \/ proc'[c].pc = "register",
         proc'[c].kind = "initialize" /\ proc'[c].pc \in {"idle", "spawn", "adopt", "register"} =>
             proc[c].pc \in {"idle", "spawn", "adopt"}
  PROVE  CallInv'
<1>0. proc \in [Calls -> Call] /\ pending \in [Instances -> SUBSET Ids] /\ <<"request", c>> \in Ids
  BY DEF TypeOK, Ids, Kinds
<1>1. proc[c].kind = "initialize"
  BY <1>0 DEF CallInv, RequestIsLast, Call, Kinds
<1>2. \A k \in Kinds : Before(k, c)' => Before(k, c)
  BY <1>1 DEF Before, Kinds
<1>3. \A i \in Instances, k \in Kinds : <<k, c>> \notin pending[i]
  BY <1>0 DEF CallInv, PendingHasCaller
<1>4. reply'[<<"request", c>>] # "answer"
  <2>1. reply[<<"request", c>>] = "none"
    BY <1>1 DEF CallInv, NothingEarly, Before, Kinds
  <2> QED
    BY <2>1, <1>0 DEF Tables
<1>5. Moved(c)
  BY <1>1, <1>2, <1>3, <1>4 DEF Moved, Tables
<1> QED
  BY <1>5, CallFrame

-----------------------------------------------------------------------------
(* The steps                                                               *)

LEMMA CallInit == Init => CallInv
<1> SUFFICES ASSUME Init PROVE CallInv
  OBVIOUS
<1>1. \A c \in Calls : proc[c].pc = "idle" /\ proc[c].kind = "initialize"
  BY DEF Init
<1>2. \A i \in Instances : pending[i] = {} /\ wire[i] = {} /\ client[i] = "none"
  BY DEF Init
<1>3. \A k \in Kinds, c \in Calls : reply[<<k, c>>] = "none"
  BY DEF Init, Ids
<1> QED
  BY <1>1, <1>2, <1>3
     DEF CallInv, RequestIsLast, NothingEarly, PendingIsOpen, DoneIsEmpty, PendingHasCaller, AnswerIsKept

\* The tables stay as they are.
LEMMA SameTables ==
  ASSUME TypeOK, UNCHANGED <<pending, reply, wire>>,
         \A i \in Instances : client'[i] = "done" => client[i] = "done"
  PROVE  Tables
  BY DEF Tables

\* The steps of an attempt around the call of "initialize".
LEMMA AttemptCalls ==
  ASSUME TypeOK, TypeOK', CallShape, CallInv, NEW c \in Calls,
         \/ Ensure(c) \/ WaitForAttempt(c) \/ Spawn(c) \/ Adopt(c) \/ Initialized(c) \/ Activate(c)
         \/ FailClose(c) \/ FailClear(c) \/ FinishAttempt(c) \/ StartForward(c)
  PROVE  CallInv'
<1>0. /\ proc \in [Calls -> Call] /\ client \in [Instances -> {"none", "open", "done"}]
      /\ proc[c].pc \in {"adopt", "failClose"} => proc[c].inst \in Instances
  BY DEF TypeOK, CallShape, Call
<1>1. CASE Ensure(c) \/ WaitForAttempt(c) \/ Initialized(c) \/ Activate(c) \/ FailClear(c) \/ FinishAttempt(c) \/ StartForward(c)
  <2>1. Tables
    BY <1>1, SameTables
       DEF Ensure, WaitForAttempt, Initialized, Activate, FailClear, FinishAttempt, StartForward, transport
  <2>2. \A d \in Calls : d # c => proc'[d] = proc[d]
    BY <1>0, <1>1 DEF Ensure, WaitForAttempt, Initialized, Activate, FailClear, FinishAttempt, StartForward, Goto, Leave
  <2>3. /\ proc[c].pc \notin {"register", "write", "wait", "done"}
        /\ proc'[c].pc \notin {"write", "wait"}
        /\ proc'[c].kind = proc[c].kind \/ proc'[c].pc = "register"
        /\ proc'[c].kind = "initialize" /\ proc'[c].pc \in {"idle", "spawn", "adopt", "register"} =>
             proc[c].pc \in {"idle", "spawn", "adopt"}
    BY SMTT(60), <1>0, <1>1
       DEF Ensure, WaitForAttempt, Initialized, Activate, FailClear, FinishAttempt, StartForward, Goto, Leave, Call
  <2> QED
    BY <2>1, <2>2, <2>3, AsideFrame
<1>2. CASE Spawn(c)
  <2>1. Tables
    <3>1. UNCHANGED <<pending, reply, wire>> /\ \A i \in Instances : client'[i] = "done" => client[i] = "done"
      BY <1>0, <1>2 DEF Spawn
    <3> QED
      BY <3>1, SameTables
  <2>2. /\ \A d \in Calls : d # c => proc'[d] = proc[d]
        /\ proc[c].pc = "spawn" /\ proc'[c].pc \in {"adopt", "finish"} /\ proc'[c].kind = proc[c].kind
    BY <1>0, <1>2 DEF Spawn, Goto, Call
  <2> QED
    BY <2>1, <2>2, AsideFrame
<1>3. CASE Adopt(c)
  <2>1. Tables
    BY <1>0, <1>3, SameTables, CloseClientTables DEF Adopt
  <2>2. /\ \A d \in Calls : d # c => proc'[d] = proc[d]
        /\ proc[c].pc = "adopt" /\ proc'[c].pc \in {"register", "finish"} /\ proc'[c].kind = proc[c].kind
    BY <1>0, <1>3 DEF Adopt, Goto, Call
  <2> QED
    BY <2>1, <2>2, AsideFrame
<1>4. CASE FailClose(c)
  <2>1. Tables
    BY <1>0, <1>4, CloseClientTables DEF FailClose
  <2>2. /\ \A d \in Calls : d # c => proc'[d] = proc[d]
        /\ proc[c].pc = "failClose" /\ proc'[c].pc = "failClear" /\ proc'[c].kind = proc[c].kind
    BY <1>0, <1>4 DEF FailClose, Goto, Call
  <2> QED
    BY <2>1, <2>2, AsideFrame
<1> QED
  BY <1>1, <1>2, <1>3, <1>4

\* A request is on the table of the client its caller talks to, and on no other.
LEMMA OwnTable ==
  ASSUME TypeOK, CallInv, NEW c \in Calls, NEW i \in Instances, IdOf(c) \in pending[i]
  PROVE  proc[c].pc \in {"write", "wait"} /\ proc[c].inst = i /\ reply[IdOf(c)] = "none"
  BY DEF CallInv, PendingHasCaller, PendingIsOpen, IdOf

\* Client.Call returns: its request is off the table, and an error means that
\* no answer is in the channel.
LEMMA ReturnFrame ==
  ASSUME TypeOK, TypeOK', CallInv, Tables, NEW c \in Calls, NEW w \in {"ok", "error"},
         proc[c].pc \in {"register", "write", "wait"}, Return(c, w),
         \A i \in Instances : IdOf(c) \notin pending'[i],
         w = "error" => reply'[IdOf(c)] # "answer"
  PROVE  CallInv'
<1>0. /\ proc \in [Calls -> Call] /\ proc[c].kind \in Kinds
      /\ pending \in [Instances -> SUBSET Ids]
  BY DEF TypeOK, Call
<1>1. \A d \in Calls : d # c => proc'[d] = proc[d]
  BY <1>0 DEF Return, Leave, Goto
<1>2. proc'[c].kind = proc[c].kind
  BY <1>0 DEF Return, Leave, Goto, Call
<1>3. \A i \in Instances, k \in Kinds : <<k, c>> \notin pending'[i]
  BY DEF Tables, CallInv, PendingHasCaller, IdOf
<1>4. CASE proc[c].kind = "request"
  <2>1. proc'[c].pc = "done" /\ proc'[c].result = w
    BY <1>0, <1>4 DEF Return, Leave, Call
  <2>2. Moved(c)
    BY <1>2, <1>3, <1>4, <2>1 DEF Moved, Before, IdOf, Kinds
  <2> QED
    BY <1>1, <2>2, CallFrame
<1>5. CASE proc[c].kind = "initialize"
  <2>1. proc'[c].pc \in {"initialized", "failClose"}
    BY <1>0, <1>5 DEF Return, Goto, Call
  <2>2. Moved(c)
    BY <1>2, <1>3, <1>5, <2>1 DEF Moved, Before, Kinds
  <2> QED
    BY <1>1, <2>2, CallFrame
<1> QED
  BY <1>0, <1>4, <1>5 DEF Kinds

LEMMA RegisterCalls ==
  ASSUME TypeOK, TypeOK', CallShape, CallInv, NEW c \in Calls, Register(c)
  PROVE  CallInv'
<1> DEFINE i == proc[c].inst
<1>0. /\ proc \in [Calls -> Call] /\ proc[c].pc = "register" /\ proc[c].kind \in Kinds /\ i \in Instances
      /\ pending \in [Instances -> SUBSET Ids] /\ IdOf(c) = <<proc[c].kind, c>> /\ IdOf(c) \in Ids
      /\ UNCHANGED <<client, reply, wire>>
  BY IdType DEF TypeOK, CallShape, Call, Register, IdOf
<1> HIDE DEF i
<1>1. /\ reply[IdOf(c)] = "none" /\ \A j \in Instances : IdOf(c) \notin wire[j]
      /\ \A j \in Instances : IdOf(c) \notin pending[j]
  <2>1. Before(proc[c].kind, c)
    BY <1>0 DEF Before, Kinds
  <2> QED
    BY <1>0, <2>1, OwnTable DEF CallInv, NothingEarly
<1>2. CASE CtxDone(c) \/ client[i] = "done"
  <2>1. Return(c, "error") /\ UNCHANGED pending
    BY <1>2 DEF Register, i
  <2> QED
    BY <1>0, <1>1, <2>1, SameTables, ReturnFrame
<1>3. CASE ~(CtxDone(c) \/ client[i] = "done")
  <2>1. pending' = [pending EXCEPT ![i] = @ \cup {IdOf(c)}] /\ Goto(c, "write")
    BY <1>3 DEF Register, i
  <2>2. /\ \A d \in Calls : d # c => proc'[d] = proc[d]
        /\ proc'[c].pc = "write" /\ proc'[c].kind = proc[c].kind /\ proc'[c].inst = i
    BY <1>0, <2>1 DEF Goto, Call, i
  <2>3. \A j \in Instances, id \in Ids : id \in pending'[j] => id \in pending[j] \/ (j = i /\ id = IdOf(c))
    BY <1>0, <2>1
  <2>4. RequestIsLast'
    BY <2>2 DEF CallInv, RequestIsLast
  <2>5. NothingEarly'
    <3>1. \A k \in Kinds, d \in Calls : Before(k, d)' => Before(k, d)
      BY <1>0, <2>2 DEF Before, Kinds
    <3>2. ASSUME NEW d \in Calls, proc'[d].pc = "write"
          PROVE  reply'[IdOf(d)'] # "answer" /\ \A j \in Instances : IdOf(d)' \notin wire'[j]
      BY <1>0, <1>1, <2>2, <3>2 DEF CallInv, NothingEarly, IdOf
    <3> QED
      BY <1>0, <3>1, <3>2 DEF CallInv, NothingEarly
  <2>6. PendingIsOpen'
    BY ZenonT(60), <1>0, <1>1, <2>3, TypeOK' DEF CallInv, PendingIsOpen, TypeOK
  <2>7. DoneIsEmpty'
    BY <1>0, <1>3, <2>1 DEF CallInv, DoneIsEmpty
  <2>8. PendingHasCaller'
    <3> SUFFICES ASSUME NEW j \in Instances, NEW id \in pending'[j]
                 PROVE  LET q == proc'[id[2]] IN q.pc \in {"write", "wait"} /\ q.inst = j /\ q.kind = id[1]
      BY DEF PendingHasCaller
    <3>0. id \in Ids
      BY TypeOK' DEF TypeOK
    <3>1. CASE j = i /\ id = IdOf(c)
      BY <1>0, <2>2, <3>1
    <3>2. CASE id \in pending[j]
      <4>1. proc[id[2]].pc \in {"write", "wait"} /\ proc[id[2]].inst = j /\ proc[id[2]].kind = id[1]
        BY <3>2 DEF CallInv, PendingHasCaller
      <4>2. id[2] \in Calls /\ id[2] # c
        BY <1>0, <3>0, <4>1, IdShape
      <4> QED
        BY <2>2, <4>1, <4>2
    <3> QED
      BY <2>3, <3>0, <3>1, <3>2
  <2>9. AnswerIsKept'
    BY <1>0, <2>2 DEF CallInv, AnswerIsKept
  <2> QED
    BY <2>4, <2>5, <2>6, <2>7, <2>8, <2>9 DEF CallInv
<1> QED
  BY <1>2, <1>3

\* What a write that is not stopped puts on the wire is a registered request.
LEMMA WrittenTables ==
  ASSUME TypeOK, NEW c \in Calls, NEW i \in Instances,
         wire' = [wire EXCEPT ![i] = @ \cup {IdOf(c)}], UNCHANGED <<client, reply>>,
         \A j \in Instances : pending'[j] \subseteq pending[j],
         proc'[c].kind = proc[c].kind, ~Before(proc[c].kind, c)', proc'[c].pc # "write"
  PROVE  Tables
<1>1. \A j \in Instances, id \in Ids : id \in wire'[j] => id \in wire[j] \/ id = IdOf(c)
  BY DEF TypeOK
<1>2. \A k \in Kinds, d \in Calls : <<k, d>> \in Ids
  BY DEF Ids
<1>3. \A j \in Instances, k \in Kinds, d \in Calls : <<k, d>> \in wire'[j] =>
        <<k, d>> \in wire[j] \/ (~Before(k, d)' /\ proc'[d].pc # "write")
  BY <1>1, <1>2 DEF IdOf, Before
<1> QED
  BY <1>3 DEF Tables

LEMMA WriteCalls ==
  ASSUME TypeOK, TypeOK', CallShape, CallInv, NEW c \in Calls, Write(c) \/ CancelWrite(c)
  PROVE  CallInv'
<1> DEFINE i == proc[c].inst
<1>0. /\ proc \in [Calls -> Call] /\ proc[c].pc = "write" /\ proc[c].kind \in Kinds /\ i \in Instances
      /\ pending \in [Instances -> SUBSET Ids] /\ IdOf(c) \in Ids
  BY IdType DEF TypeOK, CallShape, Call, Write, CancelWrite
<1>1. reply[IdOf(c)] # "answer" /\ \A j \in Instances : j # i => IdOf(c) \notin pending[j]
  BY <1>0, OwnTable DEF CallInv, NothingEarly
<1> HIDE DEF i
<1>2. ASSUME Goto(c, "wait"), wire' = [wire EXCEPT ![i] = @ \cup {IdOf(c)}],
             UNCHANGED <<client, closing, pending, reply>>
      PROVE  CallInv'
  <2>1. /\ \A d \in Calls : d # c => proc'[d] = proc[d]
        /\ proc'[c].pc = "wait" /\ proc'[c].kind = proc[c].kind /\ proc'[c].inst = i
    BY <1>0, <1>2 DEF Goto, Call, i
  <2>2. Tables
    BY <1>0, <1>2, <2>1, WrittenTables DEF Before, Kinds
  <2>3. Moved(c)
    BY <1>0, <1>2, <2>1 DEF Moved, Before, Kinds, CallInv, PendingHasCaller, i
  <2> QED
    BY <2>1, <2>2, <2>3, CallFrame
<1>3. ASSUME Terminate(i, {IdOf(c)}), Return(c, "error"), UNCHANGED wire
      PROVE  CallInv'
  <2>1. Tables /\ pending'[i] = {} /\ reply'[IdOf(c)] = reply[IdOf(c)]
    BY <1>0, <1>3, TerminateTables
  <2>2. \A j \in Instances : IdOf(c) \notin pending'[j]
    BY <1>1, <2>1 DEF Tables
  <2> QED
    BY <1>0, <1>1, <1>3, <2>1, <2>2, ReturnFrame
<1>4. ASSUME client[i] = "done", Return(c, "error"), UNCHANGED <<client, closing, pending, reply, wire>>
      PROVE  CallInv'
  <2>1. \A j \in Instances : IdOf(c) \notin pending'[j]
    BY <1>0, <1>1, <1>4 DEF CallInv, DoneIsEmpty
  <2> QED
    BY <1>0, <1>1, <1>4, <2>1, SameTables, ReturnFrame
<1>5. ASSUME Return(c, "error"), wire' = [wire EXCEPT ![i] = @ \cup {IdOf(c)}],
             pending' = [pending EXCEPT ![i] = @ \ {IdOf(c)}], UNCHANGED <<client, closing, reply>>
      PROVE  CallInv'
  <2>1. proc'[c].kind = proc[c].kind /\ proc'[c].pc \in {"done", "initialized", "failClose"}
        /\ (proc[c].kind = "request" => proc'[c].pc = "done")
    BY <1>0, <1>5 DEF Return, Leave, Goto, Call
  <2>2. ~Before(proc[c].kind, c)' /\ proc'[c].pc # "write"
    BY <1>0, <2>1 DEF Before, Kinds
  <2>3. \A j \in Instances : pending'[j] \subseteq pending[j] /\ IdOf(c) \notin pending'[j]
    BY <1>0, <1>1, <1>5
  <2>4. Tables
    BY <1>0, <1>5, <2>1, <2>2, <2>3, WrittenTables
  <2> QED
    BY <1>0, <1>1, <1>5, <2>3, <2>4, ReturnFrame
<1> QED
  BY <1>2, <1>3, <1>4, <1>5 DEF Write, CancelWrite, i

LEMMA WaitCalls ==
  ASSUME TypeOK, TypeOK', CallShape, CallInv, NEW c \in Calls, TakeReply(c) \/ CancelWait(c)
  PROVE  CallInv'
<1> DEFINE i == proc[c].inst
<1>0. /\ proc \in [Calls -> Call] /\ proc[c].pc = "wait" /\ i \in Instances
      /\ pending \in [Instances -> SUBSET Ids] /\ IdOf(c) \in Ids /\ reply[IdOf(c)] \in {"none", "answer", "error"}
  BY IdType DEF TypeOK, CallShape, Call, TakeReply, CancelWait
<1>1. \A j \in Instances : j # i => IdOf(c) \notin pending[j]
  BY <1>0, OwnTable
<1> HIDE DEF i
<1>2. CASE TakeReply(c)
  <2>1. Tables
    BY <1>2, SameTables DEF TakeReply, transport
  <2>2. \A j \in Instances : IdOf(c) \notin pending'[j]
    BY <1>2, OwnTable DEF TakeReply, transport
  <2>3. PICK w \in {"ok", "error"} : Return(c, w) /\ (w = "error" => reply[IdOf(c)] # "answer")
    BY <1>2 DEF TakeReply
  <2> QED
    BY <1>0, <1>2, <2>1, <2>2, <2>3, ReturnFrame DEF TakeReply, transport
<1>3. CASE CancelWait(c)
  <2>1. /\ IdOf(c) \in pending[i] /\ pending' = [pending EXCEPT ![i] = @ \ {IdOf(c)}]
        /\ Return(c, "error") /\ UNCHANGED <<client, reply, wire>>
    BY <1>3 DEF CancelWait, i
  <2>2. reply'[IdOf(c)] = "none"
    BY <1>0, <2>1, OwnTable
  <2>3. \A j \in Instances : pending'[j] \subseteq pending[j] /\ IdOf(c) \notin pending'[j]
    BY <1>0, <1>1, <2>1
  <2>4. Tables
    BY <2>1, <2>3 DEF Tables
  <2> QED
    BY <1>0, <2>1, <2>2, <2>3, <2>4, ReturnFrame
<1> QED
  BY <1>2, <1>3

-----------------------------------------------------------------------------
(* The child, and everybody else                                           *)

LEMMA DispatchCalls ==
  ASSUME TypeOK, TypeOK', CallInv, NEW i \in Instances, NEW id \in Ids, DispatchResponse(i, id)
  PROVE  CallInv'
<1>0. /\ pending \in [Instances -> SUBSET Ids] /\ wire \in [Instances -> SUBSET Ids]
      /\ reply \in [Ids -> {"none", "answer", "error"}]
      /\ proc' = proc /\ client' = client /\ id \in wire[i] /\ client[i] = "open"
      /\ wire' = [wire EXCEPT ![i] = @ \ {id}] /\ pending' = [pending EXCEPT ![i] = @ \ {id}]
      /\ \A other \in Ids : other # id \/ id \notin pending[i] => reply'[other] = reply[other]
  BY DEF TypeOK, DispatchResponse
<1>1. /\ \A j \in Instances : wire'[j] \subseteq wire[j] /\ pending'[j] \subseteq pending[j]
      /\ id \notin pending'[i]
  BY <1>0
<1>2. \A k \in Kinds, c \in Calls : <<k, c>> \in Ids
  BY DEF Ids
<1>3. \A j \in Instances : id \in pending[i] /\ id \in pending[j] => j = i
  BY DEF CallInv, PendingHasCaller
<1>4. RequestIsLast'
  BY <1>0 DEF CallInv, RequestIsLast
<1>5. NothingEarly'
  <2>1. ASSUME NEW k \in Kinds, NEW c \in Calls, Before(k, c)
        PROVE  reply'[<<k, c>>] = "none" /\ \A j \in Instances : <<k, c>> \notin wire'[j]
    BY <1>0, <1>1, <1>2, <2>1 DEF CallInv, NothingEarly
  <2>2. ASSUME NEW c \in Calls, proc[c].pc = "write"
        PROVE  reply'[IdOf(c)] # "answer" /\ \A j \in Instances : IdOf(c) \notin wire'[j]
    <3>1. IdOf(c) \in Ids
      BY IdType DEF TypeOK
    <3> QED
      BY <1>0, <1>1, <2>2, <3>1 DEF CallInv, NothingEarly
  <2>3. /\ \A k \in Kinds, c \in Calls : Before(k, c)' <=> Before(k, c)
        /\ \A c \in Calls : IdOf(c)' = IdOf(c)
    BY <1>0 DEF Before, IdOf
  <2> QED
    BY <1>0, <2>1, <2>2, <2>3 DEF NothingEarly
<1>6. PendingIsOpen'
  <2> SUFFICES ASSUME NEW j \in Instances, NEW other \in pending'[j] PROVE reply'[other] = "none"
    BY DEF PendingIsOpen
  <2>1. other \in pending[j] /\ other \in Ids /\ reply[other] = "none"
    BY <1>0, <1>1 DEF CallInv, PendingIsOpen
  <2>2. other # id \/ id \notin pending[i]
    BY <1>1, <1>3, <2>1
  <2> QED
    BY <1>0, <2>1, <2>2
<1>7. DoneIsEmpty'
  BY <1>0, <1>1 DEF CallInv, DoneIsEmpty
<1>8. PendingHasCaller'
  BY <1>0, <1>1 DEF CallInv, PendingHasCaller
<1>9. AnswerIsKept'
  <2> SUFFICES ASSUME NEW c \in Calls, proc[c].pc = "done", proc[c].result = "error"
               PROVE  reply'[<<"request", c>>] # "answer"
    BY <1>0 DEF AnswerIsKept
  <2>1. <<"request", c>> \notin pending[i]
    BY DEF CallInv, PendingHasCaller
  <2>2. reply[<<"request", c>>] # "answer" /\ <<"request", c>> \in Ids
    BY <1>2 DEF CallInv, AnswerIsKept, Kinds
  <2> QED
    BY <1>0, <2>1, <2>2
<1> QED
  BY <1>4, <1>5, <1>6, <1>7, <1>8, <1>9 DEF CallInv

\* A step that moves no call.
LEMMA StillFrame ==
  ASSUME TypeOK, TypeOK', CallInv, Tables, UNCHANGED proc
  PROVE  CallInv'
  BY CallFrame

LEMMA ElsewhereCalls ==
  ASSUME TypeOK, TypeOK', CallInv,
         \/ \E i \in Instances : DispatchNotification(i) \/ ReadFails(i) \/ CloseTransport(i) \/ Crash(i) \/ WaitProcess(i)
         \/ \E c \in Calls : Cancel(c)
         \/ Forwarding \/ CloseManager \/ Closing \/ UNCHANGED vars
  PROVE  CallInv'
<1>0. UNCHANGED <<proc, wire>>
  BY DEF DispatchNotification, ReadFails, CloseTransport, Crash, WaitProcess, Cancel, Forwarding, Forward, Consume,
         CloseManager, Closing, CloseCurrent, CloseAttempt, vars, transport
<1>1. \/ UNCHANGED <<client, pending, reply>>
      \/ \E i \in Instances : Terminate(i, {}) \/ CloseClient(i)
  BY DEF DispatchNotification, ReadFails, CloseTransport, Crash, WaitProcess, Cancel, Forwarding, Forward, Consume,
         CloseManager, Closing, CloseCurrent, CloseAttempt, vars, transport, TypeOK
<1>2. Tables
  BY <1>0, <1>1, SameTables, TerminateTables, CloseClientTables
<1> QED
  BY <1>0, <1>2, StillFrame

LEMMA CallNext ==
  TypeOK /\ CallShape /\ CallInv /\ [Next]_vars => CallInv'
<1> SUFFICES ASSUME TypeOK, CallShape, CallInv, [Next]_vars PROVE CallInv'
  OBVIOUS
<1>1. TypeOK'
  BY NextType
<1>2. ASSUME NEW c \in Calls, Ensure(c) \/ Run(c) PROVE CallInv'
  BY <1>1, <1>2, AttemptCalls, RegisterCalls, WriteCalls, WaitCalls DEF Run
<1>3. ASSUME NEW i \in Instances, NEW id \in Ids, DispatchResponse(i, id) PROVE CallInv'
  BY <1>1, <1>3, DispatchCalls
<1>4. ASSUME \/ \E i \in Instances : DispatchNotification(i) \/ ReadFails(i) \/ CloseTransport(i) \/ Crash(i) \/ WaitProcess(i)
             \/ \E c \in Calls : Cancel(c)
             \/ Forwarding \/ CloseManager \/ Closing \/ UNCHANGED vars
      PROVE  CallInv'
  BY <1>1, <1>4, ElsewhereCalls
<1> QED
  BY <1>2, <1>3, <1>4 DEF Next

-----------------------------------------------------------------------------
(* The result                                                              *)

\* A caller whose request was answered gets the answer, and every entry of a
\* client's table has a caller that waits for it, whatever cancellations,
\* crashes, broken frames and Close come between the steps of Client.Call,
\* dispatchResponse and terminate.
THEOREM CallersServed == Spec => []CallersAreServed
<1>1. CallInv => CallersAreServed
  BY DEF CallInv, CallersAreServed
<1>2. ManagerInv => CallShape
  BY DEF ManagerInv
<1> QED
  BY <1>1, <1>2, CallInit, CallNext, ManagerCorrect, PTL DEF Spec

(***************************************************************************)
(* RunnerProcess: one run of the legacy agent, for any number of lines and *)
(* faults. Who stops a run leaves its error with itself (Traced), so Run   *)
(* finds the cause when everybody has been joined.                         *)
(***************************************************************************)
CONSTANTS Orphans, MaxLines, MaxMishaps
VARIABLES stopped, agent, pipe, wrote, stop, reader, writer, persisted, main, latest, outcome, mishaps

Process == INSTANCE RunnerProcess WITH canceled <- stopped, proc <- agent, faults <- mishaps, MaxFaults <- MaxMishaps

\* Nobody reads or persists once Run has gone on.
Joined ==
  /\ stopped \in BOOLEAN /\ main \in {"readers", "wait", "closed", "decide", "done"}
  /\ DOMAIN reader = Process!Streams
  /\ \A s \in Process!Streams : /\ reader[s].at \in {"scan", "send", "done"} /\ reader[s].err \in {"none", "stream"}
                                /\ DOMAIN reader[s] = {"at", "line", "err"}
                                /\ reader[s].at # "done" => reader[s].err = "none"
  /\ DOMAIN writer = {"at", "line", "err"} /\ writer.at \in {"receive", "persist", "done"} /\ writer.err \in {"none", "canceled", "persist"}
  /\ main # "readers" => \A s \in Process!Streams : reader[s].at = "done"
  /\ main \in {"decide", "done"} => writer.at = "done"
  /\ main # "done" => outcome = "none"

\* Who stopped the run left its error with itself.
Traced ==
  /\ stop.err \in {"none", "canceled", "stream", "persist"}
  /\ stop.err = "canceled" \/ writer.err = "canceled" => stopped
  /\ stop.err = "stream" => Process!StreamFailed
  /\ stop.err = "persist" => writer.err = "persist"

\* What the run is reported with.
Told ==
  /\ stopped => outcome \in {"none", "canceled"}
  /\ stop.err \in {"stream", "persist"} => outcome \in {"none", "canceled", "stream_failed", "event_persistence_failed"}

ProcessInv == Joined /\ Traced /\ Told

\* A reader takes one step.
LEMMA ReaderStep ==
  ASSUME ProcessInv, NEW s \in Process!Streams,
         Process!Scan(s) \/ Process!ScanFails(s) \/ Process!EndOfFile(s) \/ Process!Send(s) \/ Process!Stopped(s)
  PROVE  ProcessInv'
<1>0. Joined /\ Traced /\ Told /\ main = "readers" /\ outcome = "none"
  BY DEF ProcessInv, Joined, Process!Scan, Process!ScanFails, Process!EndOfFile, Process!Send, Process!Stopped
<1>1. UNCHANGED <<stopped, main, outcome>>
  BY DEF Process!Scan, Process!ScanFails, Process!EndOfFile, Process!Send, Process!Stopped
<1>2. writer' = writer \/ writer' = [writer EXCEPT !.at = "persist", !.line = <<s, reader[s].line>>]
  BY DEF Process!Scan, Process!ScanFails, Process!EndOfFile, Process!Send, Process!Stopped
<1>3. DOMAIN writer' = {"at", "line", "err"} /\ writer'.err = writer.err /\ writer'.at \in {"receive", "persist", "done"}
  BY <1>0, <1>2 DEF Joined
<1>4. /\ reader[s].at # "done" /\ reader[s].err = "none" /\ DOMAIN reader = Process!Streams
      /\ \A b \in Process!Streams : DOMAIN reader[b] = {"at", "line", "err"}
  BY <1>0 DEF Joined, Process!Scan, Process!ScanFails, Process!EndOfFile, Process!Send, Process!Stopped
<1>5. /\ DOMAIN reader' = Process!Streams /\ DOMAIN reader'[s] = {"at", "line", "err"}
      /\ \A b \in Process!Streams \ {s} : reader'[b] = reader[b]
      /\ \/ reader'[s].at \in {"scan", "send"} /\ reader'[s].err = "none"
         \/ reader'[s].at = "done" /\ reader'[s].err \in {"none", "stream"}
  <2>1. CASE Process!Scan(s) \/ Process!Send(s)
    <3>1. \/ reader' = [reader EXCEPT ![s].at = "send", ![s].line = Head(pipe[s])]
          \/ reader' = [reader EXCEPT ![s].at = "scan", ![s].line = "none"]
      BY <2>1 DEF Process!Scan, Process!Send
    <3> QED
      BY <1>4, <3>1
  <2>2. CASE Process!ScanFails(s) \/ Process!EndOfFile(s) \/ Process!Stopped(s)
    <3>1. PICK e \in {"none", "stream"} : reader' = [reader EXCEPT ![s].at = "done", ![s].err = e]
      BY <2>2 DEF Process!ScanFails, Process!EndOfFile, Process!Stopped, Process!Ends, Process!NoErr
    <3> QED
      BY <1>4, <3>1
  <2> QED
    BY <2>1, <2>2
<1>6. stop' = stop \/ (stop' = [done |-> TRUE, err |-> "stream"] /\ reader'[s].err = "stream")
  BY <1>4 DEF Process!Scan, Process!ScanFails, Process!EndOfFile, Process!Send, Process!Stopped, Process!Terminate, Process!Ends
<1>7. Process!StreamFailed => Process!StreamFailed'
  BY <1>4, <1>5 DEF Process!StreamFailed, Process!NoErr
<1>8. reader'[s].err = "stream" => Process!StreamFailed'
  BY DEF Process!StreamFailed, Process!NoErr
<1>9. Joined'
  BY <1>0, <1>1, <1>3, <1>5 DEF Joined
<1>10. Traced'
  BY <1>0, <1>1, <1>3, <1>6, <1>7, <1>8 DEF Traced
<1>11. Told'
  BY <1>0, <1>1 DEF Told
<1> QED
  BY <1>9, <1>10, <1>11 DEF ProcessInv

\* The writer persists a line, fails or ends, and the watcher stops the run.
LEMMA WriterStep ==
  ASSUME ProcessInv, Process!Persist \/ Process!PersistFails \/ Process!WriterEnds \/ Process!Watch
  PROVE  ProcessInv'
<1>0. Joined /\ Traced /\ Told /\ main # "done" /\ outcome = "none"
  BY DEF ProcessInv, Joined, Process!Persist, Process!PersistFails, Process!WriterEnds, Process!Watch
<1>1. UNCHANGED <<stopped, main, outcome, reader>>
  BY DEF Process!Persist, Process!PersistFails, Process!WriterEnds, Process!Watch
<1>2. /\ DOMAIN writer' = {"at", "line", "err"} /\ writer'.at \in {"receive", "persist", "done"}
      /\ main = "decide" => writer'.at = "done"
  <2>1. CASE Process!Persist
    <3>1. main # "decide" /\ writer' = [writer EXCEPT !.at = "receive", !.line = <<>>]
      BY <1>0, <2>1 DEF Joined, Process!Persist
    <3> QED
      BY <1>0, <3>1 DEF Joined
  <2>2. CASE Process!PersistFails
    <3>1. PICK e \in {"canceled", "persist"} : main # "decide" /\ writer' = [at |-> "receive", line |-> <<>>, err |-> e]
      BY <1>0, <2>2 DEF Joined, Process!PersistFails
    <3> QED
      BY <3>1
  <2>3. CASE Process!WriterEnds
    <3>1. writer' = [writer EXCEPT !.at = "done"]
      BY <2>3 DEF Process!WriterEnds
    <3> QED
      BY <1>0, <3>1 DEF Joined
  <2>4. CASE Process!Watch
    BY <1>0, <2>4 DEF Joined, Process!Watch
  <2> QED
    BY <2>1, <2>2, <2>3, <2>4
<1>3. /\ writer'.err = writer.err \/ (writer.err = "none" /\ writer'.err = "canceled" /\ stopped) \/ (writer.err = "none" /\ writer'.err = "persist")
      /\ stop' = stop \/ (stop'.err = "canceled" /\ stopped) \/ (stop'.err = "persist" /\ writer'.err = "persist")
  <2>1. CASE Process!Persist \/ Process!WriterEnds
    <3>1. stop' = stop /\ (writer' = [writer EXCEPT !.at = "receive", !.line = <<>>] \/ writer' = [writer EXCEPT !.at = "done"])
      BY <2>1 DEF Process!Persist, Process!WriterEnds
    <3>2. writer'.err = writer.err
      BY <1>0, <3>1 DEF Joined
    <3> QED
      BY <3>1, <3>2
  <2>2. CASE Process!PersistFails
    <3> DEFINE e == IF stopped THEN "canceled" ELSE "persist"
    <3>1. writer.err = "none" /\ writer' = [at |-> "receive", line |-> <<>>, err |-> e]
          /\ stop' = IF stop.done THEN stop ELSE [done |-> TRUE, err |-> e]
      BY <2>2 DEF Process!PersistFails, Process!Terminate, Process!NoErr
    <3>2. writer'.err = e /\ (stop' = stop \/ stop'.err = e)
      BY <3>1
    <3> QED
      BY <3>1, <3>2
  <2>3. CASE Process!Watch
    BY <2>3 DEF Process!Watch, Process!Terminate
  <2> QED
    BY <2>1, <2>2, <2>3
<1>4. Joined'
  BY <1>0, <1>1, <1>2, <1>3 DEF Joined
<1>5. Traced'
  BY <1>0, <1>1, <1>3 DEF Traced, Process!StreamFailed
<1>6. Told'
  BY <1>0, <1>1 DEF Told
<1> QED
  BY <1>4, <1>5, <1>6 DEF ProcessInv

LEMMA ProcessNext == ProcessInv /\ [Process!Next]_(Process!vars) => ProcessInv'
<1> SUFFICES ASSUME ProcessInv, [Process!Next]_(Process!vars) PROVE ProcessInv'
  OBVIOUS
<1>0. Joined /\ Traced /\ Told
  BY DEF ProcessInv
<1>1. CASE Process!Decide
  <2>1. main = "decide" /\ main' = "done" /\ outcome' = Process!Decision /\ UNCHANGED <<stopped, agent, stop, reader, writer>>
    BY <1>1 DEF Process!Decide
  <2>2. stopped => Process!Decision = "canceled"
    BY DEF Process!Decision
  <2>3. ~stopped /\ stop.err \in {"stream", "persist"} => Process!Decision \in {"stream_failed", "event_persistence_failed"}
    BY <1>0 DEF Process!Decision, Traced, Process!NoErr
  <2>4. Told'
    BY <2>1, <2>2, <2>3 DEF Told
  <2>5. Joined' /\ Traced'
    BY <1>0, <2>1 DEF Joined, Traced, Process!StreamFailed
  <2> QED
    BY <2>4, <2>5 DEF ProcessInv
<1>2. CASE Process!ReadersJoined \/ Process!ProcessWaited \/ Process!WriterJoined
  <2>1. UNCHANGED <<stopped, stop, reader, writer, outcome>> /\ outcome = "none"
    BY <1>0, <1>2 DEF Joined, Process!ReadersJoined, Process!ProcessWaited, Process!WriterJoined
  <2>2. Joined'
    <3>1. CASE Process!ReadersJoined
      BY <1>0, <2>1, <3>1 DEF Joined, Process!ReadersJoined
    <3>2. CASE Process!ProcessWaited
      BY <1>0, <2>1, <3>2 DEF Joined, Process!ProcessWaited
    <3>3. CASE Process!WriterJoined
      BY <1>0, <2>1, <3>3 DEF Joined, Process!WriterJoined
    <3> QED
      BY <1>2, <3>1, <3>2, <3>3
  <2>3. Traced' /\ Told'
    BY <1>0, <2>1 DEF Traced, Told, Process!StreamFailed
  <2> QED
    BY <2>2, <2>3 DEF ProcessInv
<1>3. CASE Process!Cancel
  <2>1. stopped' = TRUE /\ outcome = "none" /\ UNCHANGED <<main, stop, reader, writer, outcome>>
    BY <1>0, <1>3 DEF Joined, Process!Cancel
  <2> QED
    BY <1>0, <2>1 DEF ProcessInv, Joined, Traced, Told, Process!StreamFailed
<1>4. ASSUME UNCHANGED <<stopped, main, stop, reader, writer, outcome>> PROVE ProcessInv'
  BY <1>0, <1>4 DEF ProcessInv, Joined, Traced, Told, Process!StreamFailed
<1>5. CASE Process!Exit \/ Process!ChildEnds \/ (\E s \in Process!Streams : \E k \in Process!Kinds[s] : Process!Emit(s, k)) \/ UNCHANGED Process!vars
  BY <1>4, <1>5 DEF Process!Exit, Process!ChildEnds, Process!Emit, Process!vars
<1> QED
  BY <1>1, <1>2, <1>3, <1>5, ReaderStep, WriterStep DEF Process!Next, Process!Step

\* A run that was stopped by a cancellation is reported as canceled, and one the console killed
\* for an error of its own as that, whatever the closed pipes and the canceled context make the
\* goroutines report (Run, Decide).
THEOREM CauseTold == Process!Spec => []Process!CauseIsTold
<1>1. Process!Init => ProcessInv
  <2> SUFFICES ASSUME Process!Init PROVE ProcessInv
    OBVIOUS
  <2>1. \A s \in Process!Streams : reader[s] = [at |-> "scan", line |-> "none", err |-> "none"]
    BY DEF Process!Init, Process!NoErr
  <2>2. DOMAIN reader = Process!Streams /\ writer = [at |-> "receive", line |-> <<>>, err |-> "none"] /\ stop.err = "none"
    BY DEF Process!Init, Process!NoErr
  <2>3. main = "readers" /\ outcome = "none" /\ stopped = FALSE
    BY DEF Process!Init
  <2>4. Joined
    <3>1. \A s \in Process!Streams : reader[s].at = "scan" /\ reader[s].err = "none" /\ DOMAIN reader[s] = {"at", "line", "err"}
      BY <2>1
    <3>2. DOMAIN writer = {"at", "line", "err"} /\ writer.at = "receive" /\ writer.err = "none"
      BY <2>2
    <3> QED
      BY <2>2, <2>3, <3>1, <3>2 DEF Joined
  <2> QED
    BY <2>2, <2>3, <2>4 DEF ProcessInv, Traced, Told
<1>2. ProcessInv => Process!CauseIsTold
  BY DEF ProcessInv, Traced, Told, Process!CauseIsTold
<1> QED
  BY <1>1, <1>2, ProcessNext, PTL DEF Process!Spec

(***************************************************************************)
(* TaskFeed: the events of a task on their way to the pages, for any       *)
(* number of sockets, events and broken connections.                       *)
(*                                                                         *)
(* A socket is registered before it reads, so an event is in its replay or *)
(* still on its way to it (Followed).                                      *)
(***************************************************************************)
CONSTANTS Clients, Action, MaxEvents, MaxDrops, MaxReads
VARIABLES news, runner, hub, socket, row, page, drops, reads

Feed == INSTANCE TaskFeed WITH events <- news, client <- socket

Socket == [at : {"off", "replay", "writing", "live", "broken"}, cursor : Nat, replay : Nat, got : Seq(Nat)]
Publisher == [at : {"idle", "broadcast", "publish", "over"}, event : Nat, to : SUBSET Clients, told : Nat]
Registry == [clients : SUBSET Clients, closed : BOOLEAN]
Copy == [status : {"none", "running", "completed", "failed"}, result : BOOLEAN]
Refresh == [at : {"idle", "detail", "result"}, listed : {"none", "running", "completed", "failed"}, copy : Copy, cached : Copy,
            recent : BOOLEAN, open : BOOLEAN, hydrated : BOOLEAN]

\* What the variables of the feed are.
FeedTables ==
  /\ news \in Seq({"runner", "request"}) /\ runner \in Publisher /\ hub \in Registry
  /\ socket \in [Clients -> Socket]

\* What a socket received lies in order below its cursor.
BelowCursor(c) ==
  /\ \A i \in 1..Len(socket[c].got) : socket[c].got[i] <= socket[c].cursor
  /\ \A i, j \in 1..Len(socket[c].got) : i < j => socket[c].got[i] < socket[c].got[j]

\* The news reached the socket, or the runner is still to write it there.
Reaches(c, n) == n >= runner.told \/ runner.at = "broadcast" \/ (runner.at = "publish" /\ c \in runner.to)

\* An open socket is registered, and what it has read or received reaches the news.
Followed(c) ==
  ~hub.closed => /\ socket[c].at \in {"replay", "writing", "live"} => c \in hub.clients
                 /\ socket[c].at = "writing" => Reaches(c, socket[c].replay)
                 /\ socket[c].at = "live" => Reaches(c, socket[c].cursor)

FeedInv ==
  /\ FeedTables /\ runner.told <= Len(news) /\ (runner.at = "publish" => runner.event >= runner.told)
  /\ \A c \in Clients : BelowCursor(c) /\ Followed(c)

\* A client that is not connected.
LEMMA NoClientType ==
  /\ Feed!NoClient \in Socket /\ Feed!NoClient.at = "off" /\ Feed!NoClient.got = <<>> /\ Len(Feed!NoClient.got) = 0
BY EmptySeq DEF Feed!NoClient, Socket

\* Nothing was received.
LEMMA NothingGot ==
  ASSUME NEW got, got = <<>>, NEW n
  PROVE  (\A i \in 1..Len(got) : got[i] <= n) /\ (\A i, j \in 1..Len(got) : i < j => got[i] < got[j])
<1>1. Len(got) = 0 /\ \A i \in 1..0 : FALSE
  OBVIOUS
<1> QED
  BY <1>1

LEMMA FeedInit == Feed!Init => FeedInv
<1> SUFFICES ASSUME Feed!Init PROVE FeedInv
  OBVIOUS
<1>1. FeedTables
  BY NoClientType, EmptySeq DEF Feed!Init, FeedTables, Publisher, Registry, Feed!Idle
<1>2. \A c \in Clients : socket[c] = Feed!NoClient
  BY DEF Feed!Init
<1>3. Len(news) = 0 /\ runner.told = 0 /\ runner.at = "idle"
  BY DEF Feed!Init, Feed!Idle
<1> QED
  BY <1>1, <1>2, <1>3, NoClientType DEF FeedInv, BelowCursor, Followed

\* A step of one socket.
LEMMA OneSocket ==
  ASSUME FeedTables, NEW c \in Clients, NEW s \in Socket, socket' = [socket EXCEPT ![c] = s]
  PROVE  socket' \in [Clients -> Socket] /\ socket'[c] = s /\ \A d \in Clients : d # c => socket'[d] = socket[d]
BY DEF FeedTables

\* The runner persists, reads back and ends.
LEMMA RunnerStep ==
  ASSUME FeedInv, Feed!AppendEvent \/ Feed!RequestEvent \/ Feed!Publish \/ Feed!Published \/ Feed!TaskEnds
  PROVE  FeedInv'
<1>0. FeedTables /\ runner \in Publisher /\ hub \in Registry /\ Len(news) \in Nat
  BY DEF FeedInv, FeedTables
<1>1. /\ news' \in Seq({"runner", "request"}) /\ Len(news') \in Nat /\ Len(news') >= Len(news)
      /\ hub' = hub /\ socket' = socket
  BY <1>0 DEF FeedTables, Feed!AppendEvent, Feed!RequestEvent, Feed!Publish, Feed!Published, Feed!TaskEnds, Feed!Insert
<1>2. runner' \in Publisher /\ runner'.told <= Len(news') /\ (runner'.at = "publish" => runner'.event >= runner'.told)
  <2>1. CASE Feed!AppendEvent
    <3>1. Len(news') = Len(news) + 1 /\ runner' = [runner EXCEPT !.at = "broadcast", !.told = Len(news) + 1]
      BY <1>0, <2>1 DEF FeedTables, Feed!AppendEvent, Feed!Insert
    <3> DEFINE n == Len(news) + 1
    <3>2. n \in Nat
      BY <1>0
    <3>3. Len(news') = n /\ runner' = [runner EXCEPT !.at = "broadcast", !.told = n]
      BY <3>1
    <3> HIDE DEF n
    <3>4. runner' \in Publisher /\ runner'.told = n /\ runner'.at = "broadcast"
      BY <1>0, <3>2, <3>3 DEF Publisher
    <3> QED
      BY <3>2, <3>3, <3>4
  <2>2. CASE Feed!RequestEvent
    BY <1>0, <1>1, <2>2 DEF Feed!RequestEvent, FeedInv, Publisher
  <2>3. CASE Feed!Publish
    <3> DEFINE to == IF hub.closed THEN {} ELSE hub.clients
    <3>1. to \in SUBSET Clients
      BY <1>0 DEF Registry
    <3> DEFINE n == Len(news)
    <3>2. runner' = [runner EXCEPT !.at = "publish", !.event = n, !.to = to] /\ Len(news') = n
      BY <2>3 DEF Feed!Publish
    <3>3. n \in Nat /\ runner.told \in Nat /\ runner.told <= n
      BY <1>0 DEF FeedInv, Publisher
    <3> HIDE DEF to, n
    <3>4. runner' \in Publisher /\ runner'.told = runner.told /\ runner'.event = n
      BY <1>0, <3>1, <3>2, <3>3 DEF Publisher
    <3>5. runner'.told <= Len(news') /\ runner'.event >= runner'.told
      BY <3>2, <3>3, <3>4
    <3> QED
      BY <3>4, <3>5
  <2>4. CASE Feed!Published \/ Feed!TaskEnds
    <3>1. runner' = [runner EXCEPT !.at = "idle", !.event = 0] \/ runner' = [runner EXCEPT !.at = "over"]
      BY <2>4 DEF Feed!Published, Feed!TaskEnds
    <3>2. news' = news
      BY <2>4 DEF Feed!Published, Feed!TaskEnds
    <3>3. runner'.at # "publish" /\ runner' \in Publisher /\ runner'.told = runner.told
      <4>1. CASE runner' = [runner EXCEPT !.at = "idle", !.event = 0]
        BY <1>0, <4>1 DEF Publisher
      <4>2. CASE runner' = [runner EXCEPT !.at = "over"]
        BY <1>0, <4>2 DEF Publisher
      <4> QED
        BY <3>1, <4>1, <4>2
    <3> QED
      BY <3>2, <3>3 DEF FeedInv
  <2> QED
    BY <2>1, <2>2, <2>3, <2>4
<1>3. ASSUME NEW c \in Clients PROVE Followed(c)'
  <2>0. Followed(c) /\ socket[c] \in Socket
    BY DEF FeedInv, FeedTables
  <2>1. CASE Feed!AppendEvent
    BY <1>0, <1>1, <2>0, <2>1 DEF Feed!AppendEvent, Followed, Reaches, Publisher
  <2>2. CASE Feed!RequestEvent
    BY <1>1, <2>0, <2>2 DEF Feed!RequestEvent, Followed, Reaches
  <2>3. CASE Feed!Publish
    BY <1>0, <1>1, <2>0, <2>3 DEF Feed!Publish, Followed, Reaches, Publisher
  <2>4. CASE Feed!Published \/ Feed!TaskEnds
    BY <1>0, <1>1, <2>0, <2>4 DEF Feed!Published, Feed!TaskEnds, Followed, Reaches, Publisher
  <2> QED
    BY <2>1, <2>2, <2>3, <2>4
<1>4. \A c \in Clients : BelowCursor(c)'
  BY <1>1 DEF FeedInv, BelowCursor
<1> QED
  BY <1>0, <1>1, <1>2, <1>3, <1>4 DEF FeedInv, FeedTables

\* The published event is written to a socket that has not seen it.
LEMMA WriteStep ==
  ASSUME FeedInv, NEW c \in Clients, Feed!Write(c)
  PROVE  FeedInv'
<1>0. FeedTables /\ runner \in Publisher /\ socket[c] \in Socket /\ BelowCursor(c) /\ Followed(c) /\ runner.event >= runner.told
  BY DEF FeedInv, FeedTables, Feed!Write
<1>1. news' = news /\ hub' = hub /\ runner' = [runner EXCEPT !.to = @ \ {c}] /\ runner.at = "publish"
  BY DEF Feed!Write
<1>2. runner' \in Publisher /\ runner'.told = runner.told /\ runner'.at = runner.at /\ runner'.event = runner.event /\ runner'.to = runner.to \ {c}
  BY <1>0, <1>1 DEF Publisher
<1>3. CASE socket' = socket /\ (socket[c].at # "live" \/ runner.event <= socket[c].cursor)
  <2>1. Followed(c)'
    BY <1>0, <1>1, <1>2, <1>3 DEF Followed, Reaches, Feed!Write, Publisher, Socket
  <2>2. \A d \in Clients : d # c => Followed(d)'
    BY <1>1, <1>2, <1>3 DEF FeedInv, Followed, Reaches
  <2> QED
    BY <1>1, <1>2, <1>3, <2>1, <2>2 DEF FeedInv, FeedTables, BelowCursor
<1>4. CASE /\ socket' = [socket EXCEPT ![c] = Feed!Received(c, runner.event)]
           /\ socket[c].at = "live" /\ ~(runner.event <= socket[c].cursor)
  <2> DEFINE s == Feed!Received(c, runner.event)
  <2>1. /\ s \in Socket /\ s.at = "live" /\ s.cursor = runner.event /\ Len(s.got) = Len(socket[c].got) + 1
        /\ s.got[Len(socket[c].got) + 1] = runner.event /\ \A i \in 1..Len(socket[c].got) : s.got[i] = socket[c].got[i]
    <3>1. s = [socket[c] EXCEPT !.cursor = runner.event, !.got = Append(socket[c].got, runner.event)]
      BY <1>0 DEF Feed!Received, Socket
    <3>2. runner.event \in Nat /\ socket[c].got \in Seq(Nat)
      BY <1>0 DEF Socket, Publisher
    <3> DEFINE got == Append(socket[c].got, runner.event)
    <3>3. /\ got \in Seq(Nat) /\ Len(got) = Len(socket[c].got) + 1
          /\ got[Len(socket[c].got) + 1] = runner.event /\ \A i \in 1..Len(socket[c].got) : got[i] = socket[c].got[i]
      BY <3>2
    <3> HIDE DEF got, s
    <3>4. s \in Socket /\ s.at = socket[c].at /\ s.cursor = runner.event /\ s.got = got
      BY <1>0, <3>1, <3>2, <3>3 DEF Socket, got
    <3> QED
      BY <1>4, <3>3, <3>4
  <2>2. socket' = [socket EXCEPT ![c] = s]
    BY <1>4
  <2> HIDE DEF s
  <2>3. socket' \in [Clients -> Socket] /\ socket'[c] = s /\ \A d \in Clients : d # c => socket'[d] = socket[d]
    BY <1>0, <2>1, <2>2, OneSocket
  <2>4. BelowCursor(c)'
    <3>1. Len(socket[c].got) \in Nat /\ runner.event \in Nat /\ socket[c].cursor \in Nat /\ \A i \in 1..Len(socket[c].got) : socket[c].got[i] \in Nat
      BY SMTT(60), <1>0 DEF Socket, Publisher
    <3>2. \A i \in 1..Len(s.got) : i \in 1..Len(socket[c].got) \/ i = Len(socket[c].got) + 1
      BY <2>1, <3>1
    <3>3. ASSUME NEW i \in 1..Len(socket[c].got)
          PROVE  s.got[i] = socket[c].got[i] /\ s.got[i] < runner.event /\ s.got[i] \in Nat
      <4>1. s.got[i] = socket[c].got[i] /\ socket[c].got[i] \in Nat
        BY <2>1, <3>1
      <4>2. socket[c].got[i] <= socket[c].cursor /\ socket[c].cursor < runner.event
        BY <1>0, <1>4, <3>1 DEF BelowCursor
      <4> QED
        BY <3>1, <4>1, <4>2
    <3>4. ASSUME NEW i \in 1..Len(s.got) PROVE s.got[i] <= runner.event
      <4>1. CASE i = Len(socket[c].got) + 1
        BY <2>1, <3>1, <4>1
      <4>2. CASE i \in 1..Len(socket[c].got)
        BY <3>1, <3>3, <4>2
      <4> QED
        BY <3>2, <4>1, <4>2
    <3>5. ASSUME NEW i \in 1..Len(s.got), NEW j \in 1..Len(s.got), i < j PROVE s.got[i] < s.got[j]
      <4>1. i \in 1..Len(socket[c].got)
        BY <2>1, <3>1, <3>5
      <4>2. CASE j = Len(socket[c].got) + 1
        BY <2>1, <3>3, <4>1, <4>2
      <4>3. CASE j \in 1..Len(socket[c].got)
        BY <1>0, <2>1, <3>5, <4>1, <4>3 DEF BelowCursor
      <4> QED
        BY <3>2, <4>2, <4>3
    <3> QED
      BY <2>1, <2>3, <3>4, <3>5 DEF BelowCursor
  <2>5. Followed(c)'
    BY <1>0, <1>1, <1>2, <1>4, <2>1, <2>3 DEF Followed, Reaches
  <2>6. \A d \in Clients : d # c => Followed(d)' /\ BelowCursor(d)'
    BY <1>1, <1>2, <2>3 DEF FeedInv, Followed, Reaches, BelowCursor
  <2> QED
    BY <1>1, <1>2, <2>3, <2>4, <2>5, <2>6 DEF FeedInv, FeedTables
<1> QED
  BY <1>3, <1>4 DEF Feed!Write

\* A socket connects, replays, breaks and is removed.
LEMMA SocketStep ==
  ASSUME FeedInv, NEW c \in Clients,
         Feed!Connect(c) \/ Feed!ReadEvents(c) \/ Feed!Replayed(c) \/ Feed!Breaks(c) \/ Feed!Removed(c)
  PROVE  FeedInv'
<1>0. FeedTables /\ runner \in Publisher /\ hub \in Registry /\ socket[c] \in Socket /\ BelowCursor(c) /\ Followed(c) /\ Len(news) \in Nat
  BY DEF FeedInv, FeedTables
<1>1. ASSUME NEW s \in Socket, socket' = [socket EXCEPT ![c] = s], news' = news,
             runner' = [runner EXCEPT !.to = @ \ {c}] \/ runner' = runner,
             hub' \in Registry, hub'.closed = hub.closed,
             \A d \in Clients : d # c /\ d \in hub.clients => d \in hub'.clients,
             \A i \in 1..Len(s.got) : s.got[i] <= s.cursor,
             \A i, j \in 1..Len(s.got) : i < j => s.got[i] < s.got[j],
             ~hub.closed => /\ s.at \in {"replay", "writing", "live"} => c \in hub'.clients
                            /\ s.at = "writing" => s.replay >= runner.told \/ (Reaches(c, s.replay) /\ runner' = runner)
                            /\ s.at = "live" => Reaches(c, s.cursor) /\ runner' = runner
      PROVE  FeedInv'
  <2>1. socket' \in [Clients -> Socket] /\ socket'[c] = s /\ \A d \in Clients : d # c => socket'[d] = socket[d]
    BY <1>0, <1>1, OneSocket
  <2>2. /\ runner' \in Publisher /\ runner'.told = runner.told /\ runner'.at = runner.at /\ runner'.event = runner.event
        /\ \A d \in Clients : d # c /\ d \in runner.to => d \in runner'.to
    BY <1>0, <1>1 DEF Publisher
  <2>3. BelowCursor(c)'
    BY <1>1, <2>1 DEF BelowCursor
  <2>4. Followed(c)'
    BY <1>1, <2>1, <2>2 DEF Followed, Reaches
  <2>5. \A d \in Clients : d # c => Followed(d)' /\ BelowCursor(d)'
    BY <1>1, <2>1, <2>2 DEF FeedInv, Followed, Reaches, BelowCursor
  <2> QED
    BY <1>1, <2>1, <2>2, <2>3, <2>4, <2>5 DEF FeedInv, FeedTables
<1>2. CASE Feed!Connect(c)
  <2> DEFINE s == [Feed!NoClient EXCEPT !.at = "replay"]
  <2>1. s \in Socket /\ s.at = "replay" /\ s.got = <<>>
    BY NoClientType DEF Socket
  <2>2. socket' = [socket EXCEPT ![c] = s] /\ news' = news /\ runner' = runner /\ hub' = [hub EXCEPT !.clients = @ \cup {c}]
    BY <1>2 DEF Feed!Connect, Feed!Added
  <2>3. hub' \in Registry /\ hub'.closed = hub.closed /\ hub'.clients = hub.clients \cup {c}
    BY <1>0, <2>2 DEF Registry
  <2>4. (\A i \in 1..Len(s.got) : s.got[i] <= s.cursor) /\ (\A i, j \in 1..Len(s.got) : i < j => s.got[i] < s.got[j])
    BY <2>1, NothingGot
  <2> HIDE DEF s
  <2> QED
    BY <1>1, <2>1, <2>2, <2>3, <2>4
<1>3. CASE Feed!ReadEvents(c)
  <2> DEFINE s == [socket[c] EXCEPT !.at = "writing", !.replay = Len(news)]
  <2>1. s \in Socket /\ s.at = "writing" /\ s.got = socket[c].got /\ s.cursor = socket[c].cursor /\ s.replay = Len(news)
    BY <1>0 DEF Socket
  <2>2. socket' = [socket EXCEPT ![c] = s] /\ news' = news /\ runner' = runner /\ hub' = hub
    BY <1>3 DEF Feed!ReadEvents
  <2>3. ~hub.closed => c \in hub.clients
    BY <1>0, <1>3 DEF Followed, Feed!ReadEvents
  <2>4. s.replay >= runner.told
    BY <2>1, <1>0 DEF FeedInv, Publisher
  <2> HIDE DEF s
  <2> QED
    BY <1>0, <1>1, <2>1, <2>2, <2>3, <2>4 DEF BelowCursor
<1>4. CASE Feed!Replayed(c)
  <2> DEFINE n == socket[c].replay
             got == [i \in 1..n |-> i]
             s == [at |-> "live", cursor |-> n, replay |-> 0, got |-> got]
  <2>0. n \in Nat
    BY <1>0 DEF Socket
  <2>1. got \in Seq(Nat) /\ Len(got) = n /\ \A i \in 1..n : got[i] = i
    BY <2>0
  <2>2. socket' = [socket EXCEPT ![c] = s] /\ news' = news /\ runner' = runner /\ hub' = hub
    BY <1>4 DEF Feed!Replayed
  <2> HIDE DEF got, n
  <2>3. s \in Socket /\ s.at = "live" /\ s.got = got /\ s.cursor = n
    BY <2>0, <2>1 DEF Socket
  <2>4. ~hub.closed => c \in hub.clients /\ Reaches(c, n)
    BY <1>0, <1>4 DEF Followed, Feed!Replayed, n
  <2> HIDE DEF s
  <2>5. /\ \A i \in 1..Len(s.got) : s.got[i] <= s.cursor
        /\ \A i, j \in 1..Len(s.got) : i < j => s.got[i] < s.got[j]
    BY <2>0, <2>1, <2>3
  <2> QED
    BY <1>0, <1>1, <2>2, <2>3, <2>4, <2>5
<1>5. CASE Feed!Breaks(c)
  <2> DEFINE s == [Feed!NoClient EXCEPT !.at = "broken"]
  <2>1. s \in Socket /\ s.at = "broken" /\ s.got = <<>>
    BY NoClientType DEF Socket
  <2>2. socket' = [socket EXCEPT ![c] = s] /\ news' = news /\ runner' = [runner EXCEPT !.to = @ \ {c}] /\ hub' = hub
    BY <1>5 DEF Feed!Breaks
  <2>3. (\A i \in 1..Len(s.got) : s.got[i] <= s.cursor) /\ (\A i, j \in 1..Len(s.got) : i < j => s.got[i] < s.got[j])
    BY <2>1, NothingGot
  <2> HIDE DEF s
  <2> QED
    BY <1>0, <1>1, <2>1, <2>2, <2>3
<1>6. CASE Feed!Removed(c)
  <2>1. socket' = [socket EXCEPT ![c] = Feed!NoClient] /\ news' = news /\ runner' = runner /\ hub' = [hub EXCEPT !.clients = @ \ {c}]
    BY <1>6 DEF Feed!Removed, Feed!TakenOff
  <2>2. hub' \in Registry /\ hub'.closed = hub.closed /\ hub'.clients = hub.clients \ {c}
    BY <1>0, <2>1 DEF Registry
  <2> DEFINE s == Feed!NoClient
  <2>3. s \in Socket /\ s.at = "off" /\ s.got = <<>>
    BY NoClientType
  <2>4. (\A i \in 1..Len(s.got) : s.got[i] <= s.cursor) /\ (\A i, j \in 1..Len(s.got) : i < j => s.got[i] < s.got[j])
    BY <2>3, NothingGot
  <2>5. socket' = [socket EXCEPT ![c] = s]
    BY <2>1
  <2> HIDE DEF s
  <2> QED
    BY <1>0, <1>1, <2>1, <2>2, <2>3, <2>4, <2>5
<1> QED
  BY <1>2, <1>3, <1>4, <1>5, <1>6

LEMMA FeedNext == FeedInv /\ [Feed!Next]_(Feed!vars) => FeedInv'
<1> SUFFICES ASSUME FeedInv, [Feed!Next]_(Feed!vars) PROVE FeedInv'
  OBVIOUS
<1>1. CASE Feed!Close
  <2> DEFINE s == [Feed!NoClient EXCEPT !.at = "broken"]
  <2>1. s \in Socket /\ s.got = <<>>
    BY NoClientType DEF Socket
  <2>2. socket' = [c \in Clients |-> IF socket[c].at = "live" THEN s ELSE socket[c]]
    BY <1>1 DEF Feed!Close
  <2>3. hub' \in Registry /\ hub'.closed
    BY <1>1 DEF Feed!Close, Registry
  <2> HIDE DEF s
  <2>4. socket' \in [Clients -> Socket]
    BY <2>1, <2>2 DEF FeedInv, FeedTables
  <2>5. ASSUME NEW c \in Clients PROVE BelowCursor(c)'
    <3>1. socket'[c] = s \/ socket'[c] = socket[c]
      BY <2>2
    <3>2. Len(s.got) = 0
      BY <2>1
    <3>3. CASE socket'[c] = s
      BY <3>2, <3>3 DEF BelowCursor
    <3>4. CASE socket'[c] = socket[c]
      BY <3>4 DEF FeedInv, BelowCursor
    <3> QED
      BY <3>1, <3>3, <3>4
  <2>6. \A c \in Clients : Followed(c)'
    BY <2>3 DEF Followed
  <2>7. news' = news /\ runner' = runner
    BY <1>1 DEF Feed!Close
  <2> QED
    BY <2>3, <2>4, <2>5, <2>6, <2>7 DEF FeedInv, FeedTables
<1>2. CASE Feed!NewerTasks \/ Feed!Dialog \/ Feed!List \/ Feed!Detail \/ Feed!Result \/ UNCHANGED Feed!vars
  <2>1. UNCHANGED <<news, runner, hub, socket>>
    BY <1>2 DEF Feed!NewerTasks, Feed!Dialog, Feed!List, Feed!Detail, Feed!Result, Feed!vars, Feed!feed
  <2> QED
    BY <2>1 DEF FeedInv, FeedTables, BelowCursor, Followed, Reaches
<1> QED
  BY <1>1, <1>2, RunnerStep, WriteStep, SocketStep DEF Feed!Next

LEMMA FeedHolds == Feed!Spec => []FeedInv
BY FeedInit, FeedNext, PTL DEF Feed!Spec

\* A page receives the events of a task in their order and none twice (hub.go, Write and Replay).
THEOREM EventsInOrder == Feed!Spec => []Feed!InOrder
<1>1. FeedInv => Feed!InOrder
  <2> SUFFICES ASSUME FeedInv, NEW c \in Clients PROVE \A i, j \in DOMAIN socket[c].got : i < j => socket[c].got[i] < socket[c].got[j]
    BY DEF Feed!InOrder
  <2>1. socket[c].got \in Seq(Nat) /\ BelowCursor(c)
    BY DEF FeedInv, FeedTables, Socket
  <2>2. DOMAIN socket[c].got = 1..Len(socket[c].got)
    BY <2>1
  <2> QED
    BY <2>1, <2>2 DEF BelowCursor
<1> QED
  BY <1>1, FeedHolds, PTL

\* An event that was published has reached every socket that is open, also one that connected
\* while it was written (Hub.Publish, Handler).
THEOREM NothingSleptThrough == Feed!Spec => []Feed!NewsArrives
<1>1. FeedInv => Feed!NewsArrives
  BY DEF FeedInv, Followed, Reaches, Feed!NewsArrives
<1> QED
  BY <1>1, FeedHolds, PTL

\* The task as the list sees it: what it said of the end is so, and if the task was asked for,
\* the copy was read after it.
ListInv ==
  /\ row \in [status : {"running", "completed", "failed"}, result : BOOLEAN] /\ page \in Refresh
  /\ page.at # "idle" => page.hydrated
  /\ page.listed \in Feed!Ended =>
        row.status \in Feed!Ended /\ (page.hydrated /\ page.at # "detail" => page.copy.status \in Feed!Ended)

LEMMA ListNext == ListInv /\ [Feed!Next]_(Feed!vars) => ListInv'
<1> SUFFICES ASSUME ListInv, [Feed!Next]_(Feed!vars) PROVE ListInv'
  OBVIOUS
<1>1. CASE Feed!TaskEnds
  BY <1>1 DEF Feed!TaskEnds, ListInv, Feed!Ended
<1>2. CASE Feed!List
  <2> DEFINE listed == [page EXCEPT !.listed = row.status, !.hydrated = Feed!Hydrates]
  <2>0. listed \in Refresh /\ row' = row /\ page.at = "idle" /\ Feed!Hydrates \in BOOLEAN
    BY <1>2 DEF Feed!List, Feed!Hydrates, ListInv, Refresh, Feed!Ended
  <2>1. CASE ~Feed!Hydrates
    <3>1. PICK c \in Copy : page' = [listed EXCEPT !.copy = c]
      BY <1>2, <2>1 DEF Feed!List, ListInv, Refresh, Copy
    <3> QED
      BY <2>0, <2>1, <3>1 DEF ListInv, Refresh
  <2>2. CASE Feed!Hydrates /\ Feed!ServesCopy
    <3>1. page' = [listed EXCEPT !.copy = page.cached] /\ page.cached.status \in Feed!Ended
      BY <1>2, <2>2 DEF Feed!List, Feed!ServesCopy
    <3> QED
      BY <2>0, <3>1 DEF ListInv, Refresh, Copy, Feed!Ended
  <2>3. CASE Feed!Hydrates /\ ~Feed!ServesCopy
    <3>1. page' = [listed EXCEPT !.at = "detail"]
      BY <1>2, <2>3 DEF Feed!List
    <3> QED
      BY <2>0, <2>3, <3>1 DEF ListInv, Refresh
  <2> QED
    BY <2>1, <2>2, <2>3
<1>3. CASE Feed!Detail
  <2>1. PICK s \in {row.status, page.listed} : page' = [page EXCEPT !.at = "result", !.copy = [status |-> s, result |-> FALSE]]
    BY <1>3 DEF Feed!Detail
  <2>2. s \in {"none", "running", "completed", "failed"} /\ page.at = "detail" /\ row' = row
    BY <1>3 DEF Feed!Detail, ListInv, Refresh
  <2> QED
    BY <2>1, <2>2 DEF ListInv, Refresh, Copy, Feed!Ended
<1>4. CASE Feed!Result
  <2>1. PICK r : /\ r \in {FALSE} \cup (IF page.listed \in Feed!Ended \/ Action = "montage" THEN {row.result} ELSE {})
                 /\ page' = [page EXCEPT !.at = "idle", !.copy.result = r, !.cached = [page.copy EXCEPT !.result = r]]
    BY <1>4 DEF Feed!Result
  <2>2. r \in BOOLEAN \/ r = row.result
    BY <2>1
  <2> QED
    BY <1>4, <2>1, <2>2 DEF Feed!Result, ListInv, Refresh, Copy, Feed!Ended
<1>5. CASE Feed!NewerTasks \/ Feed!Dialog
  <2>0. page.open \in BOOLEAN /\ row' = row
    BY <1>5 DEF Feed!NewerTasks, Feed!Dialog, ListInv, Refresh
  <2>1. CASE page' = [page EXCEPT !.recent = FALSE]
    BY <2>0, <2>1 DEF ListInv, Refresh
  <2>2. CASE page' = [page EXCEPT !.open = ~page.open]
    <3> DEFINE o == ~page.open
    <3>1. o \in BOOLEAN
      OBVIOUS
    <3> HIDE DEF o
    <3>2. page' = [page EXCEPT !.open = o]
      BY <2>2 DEF o
    <3> QED
      BY <2>0, <3>1, <3>2 DEF ListInv, Refresh
  <2> QED
    BY <1>5, <2>1, <2>2 DEF Feed!NewerTasks, Feed!Dialog
<1>6. CASE ~(Feed!TaskEnds \/ Feed!NewerTasks \/ Feed!Dialog \/ Feed!List \/ Feed!Detail \/ Feed!Result)
  <2>1. UNCHANGED <<row, page>>
    BY <1>6 DEF Feed!Next, Feed!vars, Feed!AppendEvent, Feed!RequestEvent, Feed!Publish, Feed!Published, Feed!Close,
                Feed!Write, Feed!Connect, Feed!ReadEvents, Feed!Replayed, Feed!Breaks, Feed!Removed
  <2> QED
    BY <2>1 DEF ListInv
<1> QED
  BY <1>1, <1>2, <1>3, <1>4, <1>5, <1>6

\* Once the list says a task has ended and the task is asked for, the page shows it so, whatever
\* copy it keeps and in whatever order its requests were answered (hydrateTasks).
THEOREM HydratedEndShown == Feed!Spec => []Feed!HydratedEndIsShown
<1>1. Feed!Init => ListInv
  BY DEF Feed!Init, ListInv, Refresh, Copy, Feed!NoCopy, Feed!Ended
<1>2. ListInv => Feed!HydratedEndIsShown
  BY DEF ListInv, Feed!HydratedEndIsShown
<1> QED
  BY <1>1, <1>2, ListNext, PTL DEF Feed!Spec
=============================================================================

----------------------- MODULE ConversationBroker_proofs -----------------------
(***************************************************************************)
(* For every set of tasks, messages, requests, workers and turns, and any  *)
(* number of restarts: the state of the conversation broker is well typed, *)
(* a finished task stays as it is, a conversation never has two open       *)
(* turns, in the store or on the App Server, and a task is bound to a turn *)
(* that was started for it (internal/conversation).  The first part types  *)
(* the processes and reads every action as a step of each task; the second *)
(* follows the critical section in which turns are opened and bound        *)
(* (deliverLocked, closeTurnCompleted and TaskTurnStarted).                *)
(***************************************************************************)
EXTENDS ConversationBroker, TaskStore_proofs, FiniteSetTheorems, SequenceTheorems,
        NaturalsInduction, WellFoundedInduction

-----------------------------------------------------------------------------
(* The invariant                                                           *)

\* The program counters each kind of process has.
Kinds(p, pc) ==
  /\ pc \in ProcStates
  /\ p \in Senders  => pc \in {"idle", "lock"} \cup (Delivering \ {"bindTask"})
  /\ p \in Requests => pc \in {"idle", "send", "lock", "failOutbox", "failTask", "failRow", "bind"} \cup Delivering
  /\ p \in Retries  => pc \in {"idle", "result", "write"}
  /\ p \in Pool     => pc \in {"idle", "check", "complete", "adopt", "result", "write", "failTurn", "retry",
                               "close", "closeStatus", "done", "next", "after", "sweep", "failOutbox",
                               "failTask"} \cup Delivering
  /\ p = Notifier   => pc \in {"idle", "fail", "inbox"}
  /\ p = Recovery   => pc \in {"idle", "reset", "interrupt", "snapshot", "recover", "failOutbox",
                               "failTask"} \cup Delivering

\* At these a process handles the end of a turn, or has a turn of the App Server at hand.
AtEnd  == {"check", "complete", "adopt", "result", "write", "failTurn", "retry", "close", "closeStatus", "done",
           "fail", "inbox"}
AtTurn == AtEnd \cup {"steer", "resteer", "record", "bindTask"}

\* What a process carries at each of its steps: the key of its message, the
\* turn, and the messages it has still to look at.
Carries(p, r) ==
  /\ p \in Senders /\ r.pc # "idle" => r.key \in Chats
  /\ p \in Requests /\ r.pc # "idle" =>
       r.key \in {p[2]} \X (IF p[1] = "enqueue" THEN {NoTurn} ELSE Turns)
  /\ r.pc \in Delivering \cup {"failOutbox"} => r.key \in Keys
  /\ r.pc \in {"bindTask", "failTask"} \/ (p = Recovery /\ r.pc = "failOutbox") => r.key \in Keys \ Chats
  /\ r.pc \in {"result", "write"} => r.key \in Tasks \X {NoTurn}
  /\ r.pc \in AtTurn => r.turn \in Turns
  /\ r.pc \in {"send", "lock", "lease", "mark", "decide"} => r.turn = NoTurn
  /\ r.pc \in {"steer", "resteer"} => Mode(r.key) # "queue"
  /\ r.pc \in {"accept", "status"} /\ IsFormal(r.key) => r.turn \in Turns
  /\ p \in Pool /\ r.pc # "sweep" => \A i \in DOMAIN r.todo : r.todo[i][2] = "queued"
  /\ p = Recovery => \A i \in DOMAIN r.todo : r.todo[i][2] \in {"pending", "queued", "sending"}

Local(p, r) == r \in Proc /\ Kinds(p, r.pc) /\ Carries(p, r)
Processes == \A p \in Procs : Local(p, proc[p])

TypeInv == TypeOK /\ Processes

-----------------------------------------------------------------------------
(* Naturals, finite sets and the lists of messages                         *)

\* Every non-empty set of naturals has a least element.
LEMMA LeastNat ==
  ASSUME NEW T \in SUBSET Nat, T # {}
  PROVE  \E n \in T : \A m \in T : n <= m
<1> DEFINE R == {x \in Nat \X Nat : x[1] < x[2]}
<1>1. IsWellFoundedOn(R, Nat)
  BY NatLessThanWellFounded DEF OpToRel
<1>2. PICK n \in T : \A y \in T : ~(<<y, n>> \in R)
  BY <1>1, WFMin
<1>3. ASSUME NEW m \in T, ~(n <= m) PROVE FALSE
  <2>1. m \in Nat /\ n \in Nat /\ m < n
    BY <1>3
  <2>2. <<m, n>> \in R
    BY <2>1
  <2> QED
    BY <1>2, <2>2
<1> QED
  BY <1>3

\* Every non-empty finite set of integers has a greatest element: a smallest
\* counterexample would lose one element and still be one.
LEMMA FiniteHasGreatest ==
  ASSUME NEW S \in SUBSET Int, IsFiniteSet(S), S # {}
  PROVE  \E n \in S : \A m \in S : m <= n
<1> DEFINE HasMax(U) == \E n \in U : \A m \in U : m <= n
           Bad == {U \in SUBSET S : U # {} /\ ~HasMax(U)}
           Sizes == {n \in Nat : \E U \in Bad : Cardinality(U) = n}
<1>1. ASSUME NEW U \in SUBSET S PROVE IsFiniteSet(U) /\ Cardinality(U) \in Nat
  BY FS_Subset, FS_CardinalityType
<1>2. ASSUME Bad # {} PROVE FALSE
  <2>1. Sizes # {}
    <3>1. PICK U \in Bad : TRUE
      BY <1>2
    <3> QED
      BY <3>1, <1>1
  <2>2. PICK n \in Sizes : \A m \in Sizes : n <= m
    BY <2>1, LeastNat
  <2>3. PICK U \in Bad : Cardinality(U) = n
    OBVIOUS
  <2>4. PICK x \in U : TRUE
    OBVIOUS
  <2>5. Cardinality(U \ {x}) = n - 1 /\ Cardinality(U \ {x}) \in Nat /\ U \ {x} \in SUBSET S
    BY <1>1, <2>3, FS_RemoveElement
  <2>6. ASSUME U \ {x} \in Bad PROVE FALSE
    <3>1. n - 1 \in Sizes
      BY <2>5, <2>6
    <3>2. n \in Nat /\ n <= n - 1
      BY <2>2, <3>1
    <3> QED
      BY <3>2
  <2>7. CASE U \ {x} = {}
    <3>1. HasMax(U)
      BY <2>4, <2>7
    <3> QED
      BY <3>1
  <2>8. CASE U \ {x} # {}
    <3>1. PICK k \in U \ {x} : \A m \in U \ {x} : m <= k
      BY <2>5, <2>6, <2>8
    <3>2. k \in Int /\ x \in Int
      OBVIOUS
    <3>3. HasMax(U)
      BY <3>1, <3>2
    <3> QED
      BY <3>3
  <2> QED
    BY <2>7, <2>8
<1> QED
  BY <1>2

\* Highest finds it.
LEMMA HighestIn ==
  ASSUME NEW S \in SUBSET Int, IsFiniteSet(S), S # {}
  PROVE  Highest(S) \in S
<1>1. PICK n \in S : \A m \in S : m <= n
  BY FiniteHasGreatest
<1> QED
  BY <1>1 DEF Highest

LEMMA ActiveTurnType ==
  ASSUME HasActive
  PROVE  ActiveTurn \in ActiveTurns /\ ActiveTurn \in Turns
<1>1. ActiveTurns \subseteq Turns /\ Turns \subseteq Int /\ IsFiniteSet(Turns)
  BY TurnsAssumption DEF ActiveTurns
<1>2. IsFiniteSet(ActiveTurns) /\ ActiveTurns \in SUBSET Int
  BY <1>1, FS_Subset
<1> QED
  BY <1>1, <1>2, HighestIn DEF ActiveTurn, HasActive

LEMMA ValidationAttemptType ==
  ASSUME NEW row \in Row
  PROVE  ValidationAttempt(row) \in Nat
<1>1. IsFiniteSet(Attempts) /\ \A a \in Attempts : a \in Nat /\ a \in Int
  BY MaxAttemptAssumption, FS_Interval DEF Attempts
<1>2. ASSUME NEW S \in SUBSET Attempts PROVE Highest(S) \in Nat
  <2>1. CASE S = {}
    BY <2>1 DEF Highest
  <2>2. CASE S # {}
    <3>1. IsFiniteSet(S)
      BY <1>1, FS_Subset
    <3>2. S \in SUBSET Int
      BY <1>1
    <3> QED
      BY <1>1, <2>2, <3>1, <3>2, HighestIn
  <2> QED
    BY <2>1, <2>2
<1>3. Open(row, "codex_execution") \in SUBSET Attempts /\ Used(row, "result_validation") \in SUBSET Attempts
  BY DEF Open, Used
<1> QED
  BY <1>2, <1>3 DEF ValidationAttempt

\* The n-th element of a set of positions is one of them.
LEMMA NthIn ==
  ASSUME NEW N \in Nat, NEW S \in SUBSET (1..N), NEW n \in 1..Cardinality(S)
  PROVE  Nth(S, n) \in S
<1> DEFINE Upto(i) == {j \in S : j <= i}
           T == {i \in 0..N : Cardinality(Upto(i)) >= n}
<1>0. IsFiniteSet(S) /\ Cardinality(S) \in Nat /\ n \in Nat /\ 1 <= n /\ n <= Cardinality(S)
  <2>1. IsFiniteSet(1..N)
    BY FS_Interval
  <2>2. IsFiniteSet(S)
    BY <2>1, FS_Subset
  <2> QED
    BY <2>2, FS_CardinalityType
<1>1. ASSUME NEW i PROVE IsFiniteSet(Upto(i)) /\ Cardinality(Upto(i)) \in Nat
  <2>1. Upto(i) \in SUBSET S
    OBVIOUS
  <2> HIDE DEF Upto
  <2> QED
    BY <1>0, <2>1, FS_Subset, FS_CardinalityType
<1>2. \A j \in S : j \in Nat /\ 1 <= j /\ j <= N
  OBVIOUS
<1>3. N \in T
  <2>1. Upto(N) = S
    BY <1>2
  <2> HIDE DEF Upto
  <2> QED
    BY <2>1, <1>0
<1>4. PICK i \in T : \A j \in T : i <= j
  <2>1. T \in SUBSET Nat /\ T # {}
    BY SMTT(60), <1>3
  <2> HIDE DEF T
  <2> QED
    BY <2>1, LeastNat
<1>5. i # 0
  <2>0. \A j \in S : ~(j <= 0)
    BY <1>2
  <2>1. Upto(0) = {}
    BY <2>0
  <2>2. Cardinality(Upto(0)) = 0
    BY <2>1, FS_EmptySet
  <2>3. ~(0 >= n)
    BY <1>0
  <2> HIDE DEF Upto
  <2> QED
    BY <2>2, <2>3
<1>6. i \in Nat /\ i - 1 \in Nat /\ Cardinality(Upto(i)) >= n /\ ~(Cardinality(Upto(i - 1)) >= n)
  <2>1. i \in 0..N /\ i - 1 \in 0..N /\ Cardinality(Upto(i)) >= n
    BY <1>4, <1>5
  <2>2. i - 1 \notin T
    <3>1. ~(i <= i - 1)
      BY <2>1
    <3> HIDE DEF T
    <3> QED
      BY <1>4, <3>1
  <2> HIDE DEF Upto
  <2> QED
    BY <2>1, <2>2
<1>7. i \in S
  <2> SUFFICES ASSUME i \notin S PROVE FALSE
    OBVIOUS
  <2>1. \A j \in S : j <= i <=> j <= i - 1
    BY <1>2, <1>6
  <2>2. Upto(i) = Upto(i - 1)
    BY <2>1
  <2> HIDE DEF Upto
  <2> QED
    BY <2>2, <1>6
<1>8. Upto(i) = Upto(i - 1) \cup {i} /\ i \notin Upto(i - 1)
  <2>1. \A j \in S : j <= i <=> j <= i - 1 \/ j = i
    BY <1>2, <1>6
  <2>2. ~(i <= i - 1) /\ i <= i
    BY <1>6
  <2> QED
    BY <1>7, <2>1, <2>2
<1> HIDE DEF Upto
<1>9. Cardinality(Upto(i)) = Cardinality(Upto(i - 1)) + 1
  BY <1>1, <1>8, FS_AddElement
<1>10. Cardinality(Upto(i)) = n
  BY <1>0, <1>1, <1>6, <1>9
<1> QED
  BY <1>7, <1>10 DEF Nth, Upto

\* A list of messages: each with the state in which it was listed.
LEMMA SnapshotType ==
  ASSUME TypeOK, NEW states \in SUBSET OutboxStates
  PROVE  /\ Snapshot(states) \in Seq(Keys \X OutboxStates)
         /\ \A i \in DOMAIN Snapshot(states) :
              /\ Snapshot(states)[i] \in Keys \X OutboxStates
              /\ Snapshot(states)[i][2] \in states
              /\ outbox[Snapshot(states)[i][1]].state = Snapshot(states)[i][2]
<1> DEFINE listed == InState(states)
           m == Cardinality(listed)
           entry(n) == <<created[Nth(listed, n)], outbox[created[Nth(listed, n)]].state>>
<1>1. created \in Seq(Keys) /\ outbox \in [Keys -> [state : OutboxStates, turn : Turns \cup {NoTurn}]]
  BY DEF TypeOK
<1>2. DOMAIN created = 1..Len(created) /\ Len(created) \in Nat
  BY <1>1, LenProperties
<1>3. listed \in SUBSET (1..Len(created))
  BY <1>2 DEF InState
<1>4. m \in Nat
  <2>1. IsFiniteSet(1..Len(created))
    BY <1>2, FS_Interval
  <2>2. IsFiniteSet(listed)
    BY <1>3, <2>1, FS_Subset
  <2> QED
    BY <2>2, FS_CardinalityType
<1>5. ASSUME NEW n \in 1..m
      PROVE  /\ entry(n) \in Keys \X OutboxStates
             /\ entry(n)[2] \in states
             /\ outbox[entry(n)[1]].state = entry(n)[2]
  <2>1. Nth(listed, n) \in listed
    BY <1>2, <1>3, <1>5, NthIn
  <2>2. created[Nth(listed, n)] \in Keys /\ outbox[created[Nth(listed, n)]].state \in states
    BY <1>1, <1>2, <2>1, ElementOfSeq DEF InState
  <2> QED
    BY <1>1, <2>2
<1>6. Snapshot(states) = [n \in 1..m |-> entry(n)]
  BY DEF Snapshot
<1> HIDE DEF entry, m
<1>7. [n \in 1..m |-> entry(n)] \in Seq(Keys \X OutboxStates)
  BY <1>4, <1>5, IsASeq
<1> QED
  BY <1>5, <1>6, <1>7
-----------------------------------------------------------------------------
(* Processes                                                               *)

LEMMA KindsDiffer ==
  /\ Senders \cap (Requests \cup Retries \cup Pool \cup {Notifier, Recovery}) = {}
  /\ Requests \cap (Retries \cup Pool \cup {Notifier, Recovery}) = {}
  /\ Retries \cap (Pool \cup {Notifier, Recovery}) = {}
  /\ Pool \cap {Notifier, Recovery} = {}
  /\ Notifier # Recovery
  /\ Procs = Senders \cup Requests \cup Retries \cup Pool \cup {Notifier, Recovery}
  BY DEF Senders, Requests, Retries, Pool, Notifier, Recovery, Procs

LEMMA ProcType ==
  ASSUME TypeInv, NEW p \in Procs
  PROVE  /\ proc \in [Procs -> Proc] /\ Local(p, proc[p])
         /\ proc[p] \in Proc /\ Kinds(p, proc[p].pc) /\ Carries(p, proc[p])
  BY DEF TypeInv, TypeOK, Processes, Local

LEMMA ProcessStep ==
  ASSUME TypeInv, NEW p \in Procs, NEW r, Local(p, r), proc' = [proc EXCEPT ![p] = r]
  PROVE  proc' \in [Procs -> Proc] /\ Processes'
<1>1. proc \in [Procs -> Proc] /\ \A q \in Procs : Local(q, proc[q])
  BY DEF TypeInv, TypeOK, Processes
<1>2. \A q \in Procs : proc'[q] = IF q = p THEN r ELSE proc[q]
  BY <1>1
<1> QED
  BY <1>1, <1>2 DEF Processes, Local

LEMMA GotoStep ==
  ASSUME TypeInv, NEW p \in Procs, NEW pc, Goto(p, pc), Local(p, [proc[p] EXCEPT !.pc = pc])
  PROVE  proc' \in [Procs -> Proc] /\ Processes'
<1>1. proc' = [proc EXCEPT ![p] = [proc[p] EXCEPT !.pc = pc]]
  BY DEF Goto
<1> QED
  BY <1>1, ProcessStep

LEMMA EmptyList == <<>> \in Seq(Keys \X OutboxStates) /\ DOMAIN <<>> = {}
  OBVIOUS

LEMMA IdleLocal ==
  ASSUME NEW p \in Procs
  PROVE  Local(p, Idle) /\ Idle \in Proc /\ Idle.todo = <<>> /\ Idle.turn = NoTurn
<1>1. Idle \in Proc
  BY EmptyList DEF Idle, Proc, ProcStates, OutboxStates
<1> QED
  BY <1>1, EmptyList, KindsDiffer DEF Local, Kinds, Carries, Idle, ProcStates, Delivering, AtTurn, AtEnd

LEMMA FinishStep ==
  ASSUME TypeInv, NEW p \in Procs, Finish(p)
  PROVE  proc' \in [Procs -> Proc] /\ Processes'
  BY IdleLocal, ProcessStep DEF Finish

\* A process that begins something with a key.
LEMMA BeginLocal ==
  ASSUME NEW p \in Procs, NEW r \in Proc, Kinds(p, r.pc), r.todo = <<>>,
         r.pc \notin Delivering \cup {"idle", "sweep", "failOutbox", "failTask"},
         p \in Senders => r.key \in Chats,
         p \in Requests => r.key \in {p[2]} \X (IF p[1] = "enqueue" THEN {NoTurn} ELSE Turns),
         r.pc \in {"result", "write"} => r.key \in Tasks \X {NoTurn},
         r.pc \in AtTurn => r.turn \in Turns,
         r.pc \in {"send", "lock"} => r.turn = NoTurn
  PROVE  Local(p, r)
<1>1. Carries(p, r)
  BY EmptyList DEF Carries, Delivering, AtTurn, AtEnd
<1> QED
  BY <1>1 DEF Local

\* The messages left after the next one.
LEMMA TailType ==
  ASSUME NEW todo \in Seq(Keys \X OutboxStates), todo # <<>>
  PROVE  /\ Head(todo) \in Keys \X OutboxStates /\ Head(todo) = todo[1] /\ 1 \in DOMAIN todo
         /\ Tail(todo) \in Seq(Keys \X OutboxStates)
         /\ \A i \in DOMAIN Tail(todo) : i + 1 \in DOMAIN todo /\ Tail(todo)[i] = todo[i + 1]
         /\ \A good : (\A i \in DOMAIN todo : todo[i][2] \in good) =>
              (\A i \in DOMAIN Tail(todo) : Tail(todo)[i][2] \in good)
<1>1. /\ DOMAIN todo = 1..Len(todo) /\ Len(todo) \in Nat
      /\ Tail(todo) \in Seq(Keys \X OutboxStates)
      /\ DOMAIN Tail(todo) = 1..Len(Tail(todo))
      /\ Len(Tail(todo)) = Len(todo) - 1
      /\ \A i \in 1..Len(Tail(todo)) : Tail(todo)[i] = todo[i + 1]
      /\ Head(todo) = todo[1] /\ Len(todo) # 0
  BY LenProperties, HeadTailProperties, EmptySeq
<1>2. 1 \in DOMAIN todo /\ \A i \in DOMAIN Tail(todo) : i + 1 \in DOMAIN todo
  BY <1>1
<1>3. Head(todo) \in Keys \X OutboxStates
  BY <1>1, <1>2, ElementOfSeq
<1> QED
  BY <1>1, <1>2, <1>3

\* The end of a delivery.
LEMMA ExitStep ==
  ASSUME TypeInv, NEW p \in Procs, NEW ok \in BOOLEAN, proc[p].pc \in Delivering, Exit(p, ok)
  PROVE  /\ proc' \in [Procs -> Proc] /\ Processes'
         /\ mutex' \in Procs \cup {None} /\ lease' \in {"free", "mine", "other"}
<1> DEFINE r == AfterDelivery(p, ok)
<1>1. proc[p] \in Proc /\ Kinds(p, proc[p].pc) /\ Carries(p, proc[p])
  BY ProcType
<1>2. Local(p, Idle)
  BY IdleLocal
<1>3. Local(p, r)
  <2>1. CASE p \in Senders
    <3>1. r = Idle
      BY <2>1, KindsDiffer DEF AfterDelivery
    <3> QED
      BY <1>2, <3>1
  <2>2. CASE p \in Requests
    <3>1. CASE ok /\ proc[p].turn = NoTurn
      <4>1. r = Idle
        BY <2>2, <3>1, KindsDiffer DEF AfterDelivery
      <4> QED
        BY <1>2, <4>1
    <3>2. CASE ok /\ proc[p].turn # NoTurn
      <4>1. r = [proc[p] EXCEPT !.pc = "bind"]
        BY <2>2, <3>2, KindsDiffer DEF AfterDelivery
      <4> QED
        BY ZenonT(60), <1>1, <2>2, <3>2, <4>1, KindsDiffer
        DEF Local, Kinds, Carries, Proc, ProcStates, Delivering, AtTurn, AtEnd
    <3>3. CASE ~ok
      <4>1. r = [proc[p] EXCEPT !.pc = "failOutbox"]
        BY <2>2, <3>3, KindsDiffer DEF AfterDelivery
      <4> QED
        BY <1>1, <2>2, <4>1, KindsDiffer
        DEF Local, Kinds, Carries, Proc, ProcStates, Delivering, AtTurn, AtEnd
    <3> QED
      BY <3>1, <3>2, <3>3
  <2>3. CASE p \in Pool
    <3>1. CASE ok
      <4>1. r = Idle
        BY <2>3, <3>1, KindsDiffer DEF AfterDelivery
      <4> QED
        BY <1>2, <4>1
    <3>2. CASE ~ok
      <4>1. r = [proc[p] EXCEPT !.pc = "failOutbox"]
        BY <2>3, <3>2, KindsDiffer DEF AfterDelivery
      <4> QED
        BY <1>1, <2>3, <4>1, KindsDiffer
        DEF Local, Kinds, Carries, Proc, ProcStates, Delivering, AtTurn, AtEnd
    <3> QED
      BY <3>1, <3>2
  <2>4. CASE p = Recovery
    <3>1. CASE ok \/ ~IsFormal(proc[p].key)
      <4>1. r = Idle
        BY <2>4, <3>1, KindsDiffer DEF AfterDelivery
      <4> QED
        BY <1>2, <4>1
    <3>2. CASE ~(ok \/ ~IsFormal(proc[p].key))
      <4>1. r = [proc[p] EXCEPT !.pc = "failOutbox", !.todo = <<>>]
        BY <2>4, <3>2, KindsDiffer DEF AfterDelivery
      <4>2. proc[p].key \in Keys \ Chats
        BY <1>1, <3>2 DEF Carries, IsFormal
      <4>3. r \in Proc /\ r.pc = "failOutbox" /\ r.key = proc[p].key /\ r.todo = <<>>
        BY <1>1, <4>1, EmptyList DEF Proc, ProcStates
      <4> HIDE DEF r
      <4>4. Kinds(p, r.pc) /\ Carries(p, r)
        BY <2>4, <4>2, <4>3, KindsDiffer, EmptyList DEF Kinds, Carries, ProcStates, Delivering, AtTurn, AtEnd
      <4> QED
        BY <4>3, <4>4 DEF Local
    <3> QED
      BY <3>1, <3>2
  <2> QED
    BY <1>1, <2>1, <2>2, <2>3, <2>4, KindsDiffer DEF Kinds, Delivering
<1> HIDE DEF r
<1>4. proc' = [proc EXCEPT ![p] = r]
  BY DEF Exit, r
<1> QED
  BY <1>3, <1>4, ProcessStep DEF Exit, TypeInv, TypeOK

-----------------------------------------------------------------------------
(* Rows                                                                    *)

\* The writes that keep to one task.
LEMMA FailIfLiveType ==
  ASSUME TypeOK, NEW t, FailIfLive(t)
  PROVE  rows' \in [Tasks -> Row]
  BY EndWrites DEF TypeOK, FailIfLive, Written

LEMMA FailBoundTurnType ==
  ASSUME TypeOK, NEW x, FailBoundTurn(x)
  PROVE  rows' \in [Tasks -> Row]
  BY EndWrites DEF TypeOK, FailBoundTurn, Written

LEMMA PersistFailureType ==
  ASSUME TypeOK, NEW t, NEW x, PersistFailure(t, x)
  PROVE  rows' \in [Tasks -> Row]
  BY EndWrites DEF TypeOK, PersistFailure, Written

-----------------------------------------------------------------------------
(* Type correctness of each step: requests                                 *)

LEMMA InsertType ==
  ASSUME TypeOK, NEW k \in Keys, NEW state \in {"queued", "pending"}, Insert(k, state)
  PROVE  created' \in Seq(Keys) /\ outbox' \in [Keys -> [state : OutboxStates, turn : Turns \cup {NoTurn}]]
<1>1. created' \in Seq(Keys)
  BY AppendProperties DEF Insert, TypeOK
<1>2. outbox' \in [Keys -> [state : OutboxStates, turn : Turns \cup {NoTurn}]]
  BY ZenonT(60) DEF Insert, TypeOK, OutboxStates
<1> QED
  BY <1>1, <1>2

LEMMA SendType ==
  ASSUME TypeInv, NEW c \in Clients, Send(c)
  PROVE  TypeInv'
<1> DEFINE p == <<"client", c>>
           k == ChatOf[c]
<1>1. p \in Procs /\ p \in Senders /\ k \in Chats /\ k \in Keys
  BY ChatAssumption, KindsDiffer DEF Senders, Keys
<1>2. proc' \in [Procs -> Proc] /\ Processes'
  <2>1. CASE proc' = proc
    BY <2>1 DEF TypeInv, TypeOK, Processes
  <2>2. CASE proc' = [proc EXCEPT ![p] = [Idle EXCEPT !.pc = "lock", !.key = k]]
    <3> DEFINE r == [Idle EXCEPT !.pc = "lock", !.key = k]
    <3>1. r \in Proc /\ r.pc = "lock" /\ r.key = k /\ r.turn = NoTurn /\ r.todo = <<>>
      BY <1>1, IdleLocal DEF Idle, Proc, ProcStates
    <3> HIDE DEF r
    <3>2. Local(p, r)
      BY <1>1, <3>1, BeginLocal, KindsDiffer DEF Kinds, ProcStates, Delivering, AtTurn, AtEnd
    <3> QED
      BY <1>1, <2>2, <3>2, ProcessStep DEF r
  <2> QED
    BY <2>1, <2>2 DEF Send
<1>3. created' \in Seq(Keys) /\ outbox' \in [Keys -> [state : OutboxStates, turn : Turns \cup {NoTurn}]]
  BY <1>1, InsertType DEF Send, TypeInv, TypeOK, OutboxStates
<1> QED
  BY <1>2, <1>3 DEF Send, TypeInv, TypeOK, remote

LEMMA DeliverType ==
  ASSUME TypeInv, NEW c \in Clients, Deliver(c)
  PROVE  TypeInv'
<1> DEFINE p == <<"client", c>>
           q == proc[p]
           now == outbox[q.key].state
<1>1. p \in Procs /\ p \in Senders
  BY KindsDiffer DEF Senders
<1>2. q \in Proc /\ Kinds(p, q.pc) /\ Carries(p, q) /\ q.pc = "lock"
  BY <1>1, ProcType DEF Deliver
<1>3. q.key \in Chats /\ q.key \in Keys
  BY <1>1, <1>2 DEF Carries, Keys
<1>4. CASE Finish(p) /\ UNCHANGED mutex
  BY <1>1, <1>4, FinishStep DEF Deliver, TypeInv, TypeOK, store, remote
<1>5. CASE mutex' = p /\ proc' = [proc EXCEPT ![p].pc = "lease", ![p].seen = now]
  <2> DEFINE r == [q EXCEPT !.pc = "lease", !.seen = now]
  <2>1. proc' = [proc EXCEPT ![p] = r]
    BY <1>5
  <2>2. now \in OutboxStates
    BY <1>3 DEF TypeInv, TypeOK
  <2>3. Local(p, r)
    BY ZenonT(60), <1>1, <1>2, <1>3, <2>2, KindsDiffer
    DEF Local, Kinds, Carries, Proc, ProcStates, Delivering, AtTurn, AtEnd
  <2>4. proc' \in [Procs -> Proc] /\ Processes'
    BY <1>1, <2>1, <2>3, ProcessStep
  <2> QED
    BY <1>1, <1>5, <2>4 DEF Deliver, TypeInv, TypeOK, store, remote
<1> QED
  BY <1>4, <1>5 DEF Deliver

LEMMA EnqueueType ==
  ASSUME TypeInv, NEW t \in Tasks, Enqueue(t)
  PROVE  TypeInv'
<1> DEFINE p == <<"enqueue", t>>
           r == [Idle EXCEPT !.pc = "send", !.key = <<t, NoTurn>>]
<1>1. p \in Procs /\ p \in Requests /\ <<t, NoTurn>> \in Keys
  BY KindsDiffer DEF Requests, Keys
<1>2. r \in Proc /\ r.pc = "send" /\ r.key = <<t, NoTurn>> /\ r.turn = NoTurn /\ r.todo = <<>>
  BY <1>1, IdleLocal DEF Idle, Proc, ProcStates
<1>3. Local(p, r)
  <2> HIDE DEF r
  <2> QED
    BY <1>1, <1>2, BeginLocal, KindsDiffer DEF Kinds, ProcStates, Delivering, AtTurn, AtEnd
<1>6. proc' \in [Procs -> Proc] /\ Processes'
  BY <1>1, <1>3, ProcessStep DEF Enqueue
<1>4. rows' \in [Tasks -> Row]
  BY ProgressWrites DEF Enqueue, TypeInv, TypeOK, Written
<1> QED
  BY <1>4, <1>6 DEF Enqueue, TypeInv, TypeOK, remote

LEMMA ResumeType ==
  ASSUME TypeInv, NEW t \in Tasks, Resume(t)
  PROVE  TypeInv'
<1> DEFINE p == <<"resume", t>>
           k == <<t, rows[t].turn>>
           r == [Idle EXCEPT !.pc = "send", !.key = k]
<1>0. rows[t] \in Row /\ rows[t].turn \in Turns
  BY DEF Resume, TypeInv, TypeOK, Row
<1>1. p \in Procs /\ p \in Requests /\ k \in Keys
  BY <1>0, KindsDiffer DEF Requests, Keys
<1>2. r \in Proc /\ r.pc = "send" /\ r.key = k /\ r.turn = NoTurn /\ r.todo = <<>>
  BY <1>1, IdleLocal DEF Idle, Proc, ProcStates
<1>3. Local(p, r)
  <2> HIDE DEF r
  <2> QED
    BY <1>0, <1>1, <1>2, BeginLocal, KindsDiffer DEF Kinds, ProcStates, Delivering, AtTurn, AtEnd
<1>6. proc' \in [Procs -> Proc] /\ Processes'
  BY <1>1, <1>3, ProcessStep DEF Resume
<1>4. rows' \in [Tasks -> Row]
  BY ProgressWrites DEF Resume, TypeInv, TypeOK, Written
<1>5. created' \in Seq(Keys) /\ outbox' \in [Keys -> [state : OutboxStates, turn : Turns \cup {NoTurn}]]
  BY <1>1, InsertType DEF Resume, TypeInv
<1> QED
  BY <1>4, <1>5, <1>6 DEF Resume, TypeInv, TypeOK, remote


-----------------------------------------------------------------------------
(* Steps that only move a process on                                       *)

\* While it delivers: what the next step needs is at hand.
LEMMA DeliveringMoves ==
  ASSUME NEW p \in Procs, NEW q, Local(p, q), NEW from, NEW to, q.pc = from,
         <<from, to>> \in {<<"lease", "mark">>, <<"mark", "decide">>, <<"decide", "refuse">>,
                          <<"decide", "start">>, <<"steer", "accept">>, <<"resteer", "accept">>,
                          <<"steer", "refuse">>, <<"steer", "start">>, <<"resteer", "refuse">>,
                          <<"start", "restart">>, <<"start", "refuse">>, <<"restart", "refuse">>,
                          <<"record", "accept">>, <<"accept", "status">>}
  PROVE  Local(p, [q EXCEPT !.pc = to])
<1> DEFINE r == [q EXCEPT !.pc = to]
<1>1. q \in Proc /\ Kinds(p, q.pc) /\ Carries(p, q)
  BY DEF Local
<1>2. \/ from \in Delivering /\ to \in Delivering \ {"lease", "mark", "decide", "steer", "resteer", "record", "bindTask"}
      \/ from = "lease" /\ to = "mark"
      \/ from = "mark" /\ to = "decide"
  BY DEF Delivering
<1>3. to = "status" => from = "accept"
  OBVIOUS
<1>4. to = "accept" => from \in {"steer", "resteer", "record"}
  OBVIOUS
<1>5. r \in Proc /\ r.pc = to /\ r.key = q.key /\ r.turn = q.turn /\ r.todo = q.todo
  BY <1>1, <1>2 DEF Proc, ProcStates, Delivering
<1> HIDE DEF r
<1>6. Kinds(p, to)
  BY <1>1, <1>2 DEF Kinds, ProcStates, Delivering
<1>7. Carries(p, r)
  BY <1>1, <1>2, <1>3, <1>4, <1>5, <1>6, KindsDiffer DEF Carries, Kinds, Delivering, AtTurn, AtEnd
<1> QED
  BY <1>5, <1>6, <1>7 DEF Local, r

\* A message of a task goes on to the task, the failed message of a chat does not.
LEMMA FormalMoves ==
  ASSUME NEW p \in Procs, NEW q, Local(p, q)
  PROVE  /\ q.pc = "failOutbox" /\ IsFormal(q.key) => Local(p, [q EXCEPT !.pc = "failTask"])
         /\ q.pc = "failOutbox" /\ ~IsFormal(q.key) => Local(p, [q EXCEPT !.pc = "after"])
         /\ q.pc = "failTask" /\ p \in Requests => Local(p, [q EXCEPT !.pc = "failRow"])
         /\ q.pc = "failTask" /\ p \in Pool => Local(p, [q EXCEPT !.pc = "after"])
         /\ q.pc = "failTask" /\ p = Recovery => Local(p, [q EXCEPT !.pc = "recover"])
<1>1. q \in Proc /\ Kinds(p, q.pc) /\ Carries(p, q)
  BY DEF Local
<1>2. q.pc \in {"failOutbox", "failTask"} => p \in Requests \cup Pool \cup {Recovery}
  BY <1>1, KindsDiffer DEF Kinds, Delivering
<1>3. p \in Requests /\ q.pc # "idle" => IsFormal(q.key)
  BY <1>1, KeysAssumption DEF Carries, Requests, IsFormal
<1>4. ASSUME NEW pc \in {"failTask", "failRow", "after", "recover"}, Kinds(p, pc),
             q.pc \in {"failOutbox", "failTask"}, pc = "failTask" => q.key \in Keys \ Chats
      PROVE  Local(p, [q EXCEPT !.pc = pc])
  <2> DEFINE r == [q EXCEPT !.pc = pc]
  <2>1. r \in Proc /\ r.pc = pc /\ r.key = q.key /\ r.turn = q.turn /\ r.todo = q.todo
    BY <1>1 DEF Proc, ProcStates
  <2> HIDE DEF r
  <2>2. Carries(p, r)
    BY <1>1, <1>4, <2>1 DEF Carries, Delivering, AtTurn, AtEnd
  <2> QED
    BY <1>4, <2>1, <2>2 DEF Local, r
<1>5. ASSUME NEW pc \in {"failTask", "failRow", "after", "recover"},
             \/ pc = "failTask" /\ p \in Requests \cup Pool \cup {Recovery}
             \/ pc = "failRow" /\ p \in Requests
             \/ pc = "after" /\ p \in Pool
             \/ pc = "recover" /\ p = Recovery
      PROVE  Kinds(p, pc)
  BY <1>5, KindsDiffer DEF Kinds, ProcStates, Delivering
<1>6. q.pc = "failOutbox" => q.key \in Keys
  BY <1>1 DEF Carries
<1>7. p = Recovery /\ q.pc = "failOutbox" => q.key \in Keys \ Chats
  BY <1>1 DEF Carries
<1> QED
  BY <1>2, <1>3, <1>4, <1>5, <1>6, <1>7 DEF IsFormal

\* The notifier, the workers and the recovery.
LEMMA EndingMoves ==
  ASSUME NEW p \in Procs, NEW q, Local(p, q), NEW from, NEW to, q.pc = from,
         <<from, to>> \in ({"check"} \X {"adopt", "complete", "close"})
           \cup ({"complete", "adopt"} \X {"close", "failTurn", "retry"})
           \cup ({"result", "write"} \X {"close", "failTurn"})
           \cup {<<"failTurn", "retry">>, <<"close", "closeStatus">>, <<"closeStatus", "done">>,
                 <<"done", "next">>, <<"fail", "inbox">>, <<"reset", "interrupt">>,
                 <<"interrupt", "snapshot">>},
         from \in {"result", "write"} => p \in Pool
  PROVE  Local(p, [q EXCEPT !.pc = to])
<1> DEFINE r == [q EXCEPT !.pc = to]
<1>1. q \in Proc /\ Kinds(p, q.pc) /\ Carries(p, q)
  BY DEF Local
<1>2. /\ to \in {"adopt", "complete", "close", "failTurn", "retry", "closeStatus", "done", "next", "inbox",
                "interrupt", "snapshot"}
      /\ from # "idle" /\ from # "sweep"
      /\ to \in AtTurn => from \in AtTurn
      /\ to = "inbox" <=> from = "fail"
      /\ to \in {"interrupt", "snapshot"} <=> from \in {"reset", "interrupt"}
  BY DEF AtTurn, AtEnd
<1>3. r \in Proc /\ r.pc = to /\ r.key = q.key /\ r.turn = q.turn /\ r.todo = q.todo
  BY <1>1, <1>2 DEF Proc, ProcStates
<1> HIDE DEF r
<1>4. /\ to = "inbox" => p = Notifier
      /\ to \in {"interrupt", "snapshot"} => p = Recovery
      /\ to \notin {"inbox", "interrupt", "snapshot"} => p \in Pool
  BY <1>1, <1>2, KindsDiffer DEF Kinds, Delivering
<1>5. Kinds(p, to)
  BY <1>2, <1>4, KindsDiffer DEF Kinds, ProcStates, Delivering
<1>6. Carries(p, r)
  BY <1>1, <1>2, <1>3, <1>4, KindsDiffer DEF Carries, Delivering, AtTurn, AtEnd
<1> QED
  BY <1>3, <1>5, <1>6 DEF Local, r
-----------------------------------------------------------------------------
(* Type correctness of each step: the delivery of a task's message         *)

\* A request goes on with its key.
LEMMA RequestLocal ==
  ASSUME NEW p \in Requests, p \in Procs, NEW q, Local(p, q), q.pc # "idle",
         NEW r \in Proc, r.key = q.key, r.todo = q.todo,
         r.pc \in {"lock", "lease", "failOutbox", "bind"}, r.pc \in {"lock", "lease"} => r.turn = NoTurn
  PROVE  Local(p, r)
<1>1. Kinds(p, r.pc)
  BY KindsDiffer DEF Kinds, ProcStates, Delivering
<1>2. r.key \in Keys
  BY DEF Local, Carries, Requests, Keys
<1>3. Carries(p, r)
  BY <1>2, KindsDiffer DEF Local, Carries, Delivering, AtTurn, AtEnd
<1> QED
  BY <1>1, <1>3 DEF Local

LEMMA SendTaskType ==
  ASSUME TypeInv, NEW p \in Procs, SendTask(p)
  PROVE  TypeInv'
<1> DEFINE q == proc[p]
           k == q.key
<1>1. q \in Proc /\ Local(p, q) /\ q.pc = "send" /\ q.turn = NoTurn /\ p \in Requests /\ k \in Keys
  <2>1. q \in Proc /\ Local(p, q) /\ q.pc = "send"
    BY ProcType DEF SendTask
  <2>2. p \in Requests
    BY <2>1, KindsDiffer DEF Local, Kinds, Delivering
  <2> QED
    BY <2>1, <2>2 DEF Local, Carries, Requests, Keys
<1>2. outbox[k] \in [state : OutboxStates, turn : Turns \cup {NoTurn}]
  BY <1>1 DEF TypeInv, TypeOK
<1>3. ASSUME NEW pc \in {"lock", "failOutbox"}, Goto(p, pc)
      PROVE  proc' \in [Procs -> Proc] /\ Processes'
  <2> DEFINE r == [q EXCEPT !.pc = pc]
  <2>1. r \in Proc /\ r.pc = pc /\ r.key = k /\ r.turn = NoTurn /\ r.todo = q.todo
    BY <1>1 DEF Proc, ProcStates
  <2> HIDE DEF r
  <2>2. Local(p, r)
    BY <1>1, <2>1, RequestLocal
  <2> QED
    BY <1>3, <2>2, GotoStep DEF r
<1>4. ASSUME proc' = [proc EXCEPT ![p].pc = "bind", ![p].turn = outbox[k].turn]
      PROVE  proc' \in [Procs -> Proc] /\ Processes'
  <2> DEFINE r == [q EXCEPT !.pc = "bind", !.turn = outbox[k].turn]
  <2>1. r \in Proc /\ r.pc = "bind" /\ r.key = k /\ r.todo = q.todo
    BY <1>1, <1>2 DEF Proc, ProcStates
  <2> HIDE DEF r
  <2>2. Local(p, r)
    BY <1>1, <2>1, RequestLocal
  <2>3. proc' = [proc EXCEPT ![p] = r]
    BY <1>4 DEF r
  <2> QED
    BY <2>2, <2>3, ProcessStep
<1>5. proc' \in [Procs -> Proc] /\ Processes'
  BY <1>3, <1>4, FinishStep DEF SendTask
<1>6. created' \in Seq(Keys) /\ outbox' \in [Keys -> [state : OutboxStates, turn : Turns \cup {NoTurn}]]
  BY <1>1, InsertType DEF SendTask, TypeInv, TypeOK
<1> QED
  BY <1>5, <1>6 DEF SendTask, TypeInv, TypeOK, remote

LEMMA DeliverTaskType ==
  ASSUME TypeInv, NEW p \in Procs, DeliverTask(p)
  PROVE  TypeInv'
<1> DEFINE q == proc[p]
           k == q.key
           now == outbox[k].state
<1>1. q \in Proc /\ Local(p, q) /\ q.pc = "lock" /\ q.turn = NoTurn /\ p \in Requests /\ k \in Keys
  <2>1. q \in Proc /\ Local(p, q) /\ q.pc = "lock" /\ p \in Requests
    BY ProcType DEF DeliverTask
  <2> QED
    BY <2>1 DEF Local, Carries, Requests, Keys
<1>2. outbox[k] \in [state : OutboxStates, turn : Turns \cup {NoTurn}]
  BY <1>1 DEF TypeInv, TypeOK
<1>3. ASSUME proc' = [proc EXCEPT ![p].pc = "bind", ![p].turn = outbox[k].turn]
      PROVE  proc' \in [Procs -> Proc] /\ Processes'
  <2> DEFINE r == [q EXCEPT !.pc = "bind", !.turn = outbox[k].turn]
  <2>1. r \in Proc /\ r.pc = "bind" /\ r.key = k /\ r.todo = q.todo
    BY <1>1, <1>2 DEF Proc, ProcStates
  <2> HIDE DEF r
  <2>2. Local(p, r)
    BY <1>1, <2>1, RequestLocal
  <2>3. proc' = [proc EXCEPT ![p] = r]
    BY <1>3 DEF r
  <2> QED
    BY <2>2, <2>3, ProcessStep
<1>4. ASSUME proc' = [proc EXCEPT ![p].pc = "lease", ![p].seen = now]
      PROVE  proc' \in [Procs -> Proc] /\ Processes'
  <2> DEFINE r == [q EXCEPT !.pc = "lease", !.seen = now]
  <2>1. r \in Proc /\ r.pc = "lease" /\ r.key = k /\ r.turn = NoTurn /\ r.todo = q.todo
    BY <1>1, <1>2 DEF Proc, ProcStates, Delivering
  <2> HIDE DEF r
  <2>2. Local(p, r)
    BY <1>1, <2>1, RequestLocal
  <2>3. proc' = [proc EXCEPT ![p] = r]
    BY <1>4 DEF r
  <2> QED
    BY <2>2, <2>3, ProcessStep
<1>5. proc' \in [Procs -> Proc] /\ Processes'
  BY <1>3, <1>4, FinishStep DEF DeliverTask
<1> QED
  BY <1>5 DEF DeliverTask, TypeInv, TypeOK, store, remote

LEMMA CancelType ==
  ASSUME TypeInv, NEW t \in Tasks, Cancel(t)
  PROVE  TypeInv'
<1>1. rows' \in [Tasks -> Row]
  BY EndWrites DEF Cancel, TypeInv, TypeOK, Written
<1> QED
  BY <1>1 DEF Cancel, TypeInv, TypeOK, Processes, remote

\* A delivery that goes on, as the holder of the mutex.
LEMMA DeliveryGoesOn ==
  ASSUME TypeInv, NEW p \in Procs, NEW to, Goto(p, to),
         <<proc[p].pc, to>> \in {<<"lease", "mark">>, <<"mark", "decide">>, <<"decide", "refuse">>,
                          <<"decide", "start">>, <<"steer", "accept">>, <<"resteer", "accept">>,
                          <<"steer", "refuse">>, <<"steer", "start">>, <<"resteer", "refuse">>,
                          <<"start", "restart">>, <<"start", "refuse">>, <<"restart", "refuse">>,
                          <<"record", "accept">>, <<"accept", "status">>}
  PROVE  proc' \in [Procs -> Proc] /\ Processes'
<1>1. Local(p, [proc[p] EXCEPT !.pc = to])
  BY ProcType, DeliveringMoves
<1> QED
  BY <1>1, GotoStep

\* The message a delivery is about.
LEMMA DeliveredKey ==
  ASSUME TypeInv, NEW p \in Procs, proc[p].pc \in Delivering
  PROVE  /\ proc[p].key \in Keys
         /\ outbox[proc[p].key] \in [state : OutboxStates, turn : Turns \cup {NoTurn}]
         /\ outbox[proc[p].key].state \in OutboxStates
         /\ proc[p].turn \in Turns \cup {NoTurn} /\ proc[p].seen \in OutboxStates
         /\ proc[p].pc \in AtTurn => proc[p].turn \in Turns
<1>1. proc[p] \in Proc /\ proc[p].key \in Keys
  BY ProcType DEF Carries
<1> QED
  BY <1>1, ProcType DEF TypeInv, TypeOK, Proc, Carries

LEMMA SetOutboxType ==
  ASSUME TypeOK, NEW k \in Keys, NEW expected, NEW next \in OutboxStates, NEW x \in Turns \cup {NoTurn},
         SetOutbox(k, expected, next, x)
  PROVE  outbox' \in [Keys -> [state : OutboxStates, turn : Turns \cup {NoTurn}]]
  BY DEF SetOutbox, TypeOK

LEMMA AcquireLeaseType ==
  ASSUME TypeInv, NEW p \in Procs, AcquireLease(p)
  PROVE  TypeInv'
<1>1. proc[p].pc = "lease" /\ proc[p].pc \in Delivering
  BY DEF AcquireLease, Delivering
<1>2. CASE Exit(p, FALSE)
  BY <1>1, <1>2, ExitStep DEF AcquireLease, TypeInv, TypeOK, store, remote
<1>3. CASE lease' = "mine" /\ Goto(p, "mark") /\ UNCHANGED mutex
  <2>1. proc' \in [Procs -> Proc] /\ Processes'
    BY <1>1, <1>3, DeliveryGoesOn
  <2> QED
    BY <1>3, <2>1 DEF AcquireLease, TypeInv, TypeOK, store, remote
<1> QED
  BY <1>2, <1>3 DEF AcquireLease

LEMMA MarkSendingType ==
  ASSUME TypeInv, NEW p \in Procs, MarkSending(p)
  PROVE  TypeInv'
<1> DEFINE q == proc[p]
           r == [q EXCEPT !.pc = "decide", !.seen = "sending"]
<1>1. q.pc = "mark" /\ q.pc \in Delivering /\ q \in Proc /\ Local(p, q)
  BY ProcType DEF MarkSending, Delivering
<1>2. q.key \in Keys /\ outbox[q.key].state \in OutboxStates
  BY <1>1, DeliveredKey
<1>3. CASE Exit(p, FALSE) /\ UNCHANGED outbox
  BY <1>1, <1>3, ExitStep DEF MarkSending, TypeInv, TypeOK, remote
<1>4. CASE /\ SetOutbox(q.key, q.seen, "sending", NoTurn) /\ proc' = [proc EXCEPT ![p] = r]
           /\ UNCHANGED <<mutex, lease>>
  <2>1. Local(p, r)
    <3>1. Local(p, [q EXCEPT !.pc = "decide"])
      BY <1>1, DeliveringMoves
    <3> DEFINE m == [q EXCEPT !.pc = "decide"]
    <3>2. /\ r \in Proc /\ r.pc = m.pc /\ r.key = m.key /\ r.turn = m.turn /\ r.todo = m.todo
      BY <1>1 DEF Proc, ProcStates, Delivering, OutboxStates
    <3>3. Local(p, m)
      BY <3>1
    <3> HIDE DEF r, m
    <3> QED
      BY <3>2, <3>3 DEF Local, Carries
  <2>2. proc' \in [Procs -> Proc] /\ Processes'
    BY <1>4, <2>1, ProcessStep
  <2>3. outbox' \in [Keys -> [state : OutboxStates, turn : Turns \cup {NoTurn}]]
    BY <1>2, <1>4, SetOutboxType DEF TypeInv, OutboxStates
  <2> QED
    BY <1>4, <2>2, <2>3 DEF MarkSending, TypeInv, TypeOK, remote
<1>5. CASE Goto(p, "decide") /\ UNCHANGED <<outbox, mutex, lease>>
  <2>1. proc' \in [Procs -> Proc] /\ Processes'
    BY <1>1, <1>5, DeliveryGoesOn
  <2> QED
    BY <1>5, <2>1 DEF MarkSending, TypeInv, TypeOK, remote
<1> QED
  BY <1>3, <1>4, <1>5 DEF MarkSending

\* A message that is not queued joins the active turn.
LEMMA JoinLocal ==
  ASSUME TypeInv, NEW p \in Procs, HasActive, Mode(proc[p].key) # "queue",
         NEW from, NEW to, proc[p].pc = from, <<from, to>> \in {<<"decide", "steer">>, <<"steer", "resteer">>},
         proc' = [proc EXCEPT ![p].pc = to, ![p].turn = ActiveTurn]
  PROVE  proc' \in [Procs -> Proc] /\ Processes'
<1> DEFINE q == proc[p]
           r == [q EXCEPT !.pc = to, !.turn = ActiveTurn]
<1>1. q \in Proc /\ Local(p, q) /\ q.key \in Keys
  BY ProcType, DeliveredKey DEF Delivering
<1>2. ActiveTurn \in Turns
  BY ActiveTurnType
<1>3. r \in Proc /\ r.pc = to /\ r.key = q.key /\ r.turn = ActiveTurn /\ r.todo = q.todo
  BY <1>1, <1>2 DEF Proc, ProcStates, Delivering
<1>4. proc' = [proc EXCEPT ![p] = r]
  OBVIOUS
<1> HIDE DEF r
<1>5. Kinds(p, to)
  BY <1>1 DEF Local, Kinds, ProcStates, Delivering
<1>6. Carries(p, r)
  BY <1>1, <1>2, <1>3, <1>5, KindsDiffer DEF Local, Carries, Kinds, Delivering, AtTurn, AtEnd
<1> QED
  BY <1>3, <1>4, <1>5, <1>6, ProcessStep DEF Local

LEMMA DecideType ==
  ASSUME TypeInv, NEW p \in Procs, Decide(p)
  PROVE  TypeInv'
<1> DEFINE q == proc[p]
<1>1. q.pc = "decide" /\ q.pc \in Delivering /\ q.key \in Keys
  BY DeliveredKey DEF Decide, Delivering
<1>2. CASE \E ok \in BOOLEAN : Exit(p, ok) /\ outbox' \in [Keys -> [state : OutboxStates, turn : Turns \cup {NoTurn}]]
  BY <1>1, <1>2, ExitStep DEF Decide, TypeInv, TypeOK, remote
<1>3. CASE (Goto(p, "refuse") \/ Goto(p, "start")) /\ UNCHANGED <<outbox, mutex, lease>>
  <2>1. proc' \in [Procs -> Proc] /\ Processes'
    BY <1>1, <1>3, DeliveryGoesOn
  <2> QED
    BY <1>3, <2>1 DEF Decide, TypeInv, TypeOK, remote
<1>4. CASE /\ Mode(q.key) # "queue" /\ HasActive
           /\ proc' = [proc EXCEPT ![p].pc = "steer", ![p].turn = ActiveTurn]
           /\ UNCHANGED <<outbox, mutex, lease>>
  <2>1. proc' \in [Procs -> Proc] /\ Processes'
    BY <1>1, <1>4, JoinLocal
  <2> QED
    BY <1>4, <2>1 DEF Decide, TypeInv, TypeOK, remote
<1>5. CASE SetOutbox(q.key, "sending", "queued", NoTurn) /\ Exit(p, TRUE)
  BY <1>1, <1>2, <1>5, SetOutboxType DEF TypeInv, OutboxStates
<1>6. CASE \E ok \in BOOLEAN : Exit(p, ok) /\ UNCHANGED outbox
  BY <1>2, <1>6 DEF TypeInv, TypeOK
<1> QED
  BY <1>3, <1>4, <1>5, <1>6 DEF Decide
LEMMA SteerAcceptedType ==
  ASSUME TypeInv, NEW p \in Procs, SteerAccepted(p)
  PROVE  TypeInv'
<1>1. proc[p].pc \in {"steer", "resteer"} /\ proc[p].key \in Keys
  BY DeliveredKey DEF SteerAccepted, Delivering
<1>2. proc' \in [Procs -> Proc] /\ Processes'
  BY <1>1, DeliveryGoesOn DEF SteerAccepted
<1> QED
  BY <1>1, <1>2 DEF SteerAccepted, TypeInv, TypeOK, store

LEMMA SteerStaleType ==
  ASSUME TypeInv, NEW p \in Procs, SteerStale(p)
  PROVE  TypeInv'
<1> DEFINE q == proc[p]
<1>1. q.pc \in {"steer", "resteer"} /\ Mode(q.key) # "queue"
  BY ProcType DEF SteerStale, Carries
<1>2. proc' \in [Procs -> Proc] /\ Processes'
  <2>1. CASE /\ q.pc = "steer" /\ HasActive
             /\ proc' = [proc EXCEPT ![p].pc = "resteer", ![p].turn = ActiveTurn]
    BY <1>1, <2>1, JoinLocal
  <2>2. CASE q.pc = "steer" /\ (Goto(p, "refuse") \/ Goto(p, "start"))
    BY <2>2, DeliveryGoesOn
  <2>3. CASE q.pc = "resteer" /\ Goto(p, "refuse")
    BY <2>3, DeliveryGoesOn
  <2> QED
    BY <2>1, <2>2, <2>3 DEF SteerStale
<1> QED
  BY <1>2 DEF SteerStale, TypeInv, TypeOK, store, remote

\* The App Server has a lowest turn that is not used.
LEMMA LowestUnused ==
  ASSUME Unused # {}
  PROVE  NextTurn \in Turns /\ server[NextTurn] = "none"
<1>1. Unused \in SUBSET Nat
  BY TurnsAssumption DEF Unused
<1>2. \E y \in Unused : \A z \in Unused : y <= z
  BY <1>1, LeastNat
<1> QED
  BY <1>2 DEF Unused, NextTurn

LEMMA StartAcceptedType ==
  ASSUME TypeInv, NEW p \in Procs, StartAccepted(p)
  PROVE  TypeInv'
<1> DEFINE q == proc[p]
           x == NextTurn
           r == [q EXCEPT !.pc = "record", !.turn = x]
<1>1. q \in Proc /\ Local(p, q) /\ q.pc \in {"start", "restart"} /\ q.key \in Keys
  BY ProcType, DeliveredKey DEF StartAccepted, Delivering
<1>2. x \in Turns
  BY LowestUnused DEF StartAccepted
<1>3. /\ server' = [server EXCEPT ![x] = "live"] /\ starter' = [starter EXCEPT ![x] = q.key]
      /\ sent' = [sent EXCEPT ![q.key] = @ + 1] /\ proc' = [proc EXCEPT ![p] = r]
  BY DEF StartAccepted
<1>4. Local(p, r)
  <2>1. r \in Proc /\ r.pc = "record" /\ r.key = q.key /\ r.turn = x /\ r.todo = q.todo
    BY <1>1, <1>2 DEF Proc, ProcStates, Delivering
  <2> HIDE DEF r
  <2>2. Kinds(p, "record")
    BY <1>1 DEF Local, Kinds, ProcStates, Delivering
  <2>3. Carries(p, r)
    BY <1>1, <1>2, <2>1, <2>2, KindsDiffer DEF Local, Carries, Kinds, Delivering, AtTurn, AtEnd
  <2> QED
    BY <2>1, <2>2, <2>3 DEF Local
<1>5. proc' \in [Procs -> Proc] /\ Processes'
  BY <1>3, <1>4, ProcessStep
<1>6. sent' \in [Keys -> Nat]
  BY <1>1, <1>3 DEF TypeInv, TypeOK
<1>7. starter' \in [Turns -> Keys \cup {None}] /\ server' \in [Turns -> ServerStates]
  BY <1>1, <1>2, <1>3 DEF TypeInv, TypeOK, ServerStates
<1> QED
  BY <1>5, <1>6, <1>7 DEF StartAccepted, TypeInv, TypeOK, store

LEMMA CallRefusedType ==
  ASSUME TypeInv, NEW p \in Procs, CallRefused(p)
  PROVE  TypeInv'
<1>1. proc' \in [Procs -> Proc] /\ Processes'
  BY DeliveryGoesOn DEF CallRefused
<1> QED
  BY <1>1 DEF CallRefused, TypeInv, TypeOK, store, remote

LEMMA ThreadMissingType ==
  ASSUME TypeInv, NEW p \in Procs, ThreadMissing(p)
  PROVE  TypeInv'
<1>1. proc' \in [Procs -> Proc] /\ Processes'
  BY DeliveryGoesOn DEF ThreadMissing
<1> QED
  BY <1>1 DEF ThreadMissing, TypeInv, TypeOK, store, remote

LEMMA RecordTurnType ==
  ASSUME TypeInv, NEW p \in Procs, RecordTurn(p)
  PROVE  TypeInv'
<1>1. proc' \in [Procs -> Proc] /\ Processes'
  BY DeliveryGoesOn DEF RecordTurn
<1> QED
  BY <1>1 DEF RecordTurn, TypeInv, TypeOK, remote

LEMMA AcceptType ==
  ASSUME TypeInv, NEW p \in Procs, Accept(p)
  PROVE  TypeInv'
<1> DEFINE q == proc[p]
<1>1. q.pc = "accept" /\ q.pc \in Delivering /\ q.key \in Keys /\ q.turn \in Turns \cup {NoTurn}
  BY DeliveredKey DEF Accept, Delivering
<1>2. CASE Exit(p, FALSE) /\ UNCHANGED outbox
  BY <1>1, <1>2, ExitStep DEF Accept, TypeInv, TypeOK, remote
<1>3. CASE /\ SetOutbox(q.key, "sending", "accepted", q.turn) /\ Goto(p, "status")
           /\ UNCHANGED <<mutex, lease>>
  <2>1. proc' \in [Procs -> Proc] /\ Processes'
    BY <1>1, <1>3, DeliveryGoesOn
  <2>2. outbox' \in [Keys -> [state : OutboxStates, turn : Turns \cup {NoTurn}]]
    BY <1>1, <1>3, SetOutboxType DEF TypeInv, OutboxStates
  <2> QED
    BY <1>3, <2>1, <2>2 DEF Accept, TypeInv, TypeOK, remote
<1> QED
  BY <1>2, <1>3 DEF Accept

LEMMA MarkRunningType ==
  ASSUME TypeInv, NEW p \in Procs, MarkRunning(p)
  PROVE  TypeInv'
<1> DEFINE q == proc[p]
           r == [q EXCEPT !.pc = "bindTask"]
<1>1. q.pc = "status" /\ q.pc \in Delivering /\ q \in Proc /\ Local(p, q)
  BY ProcType DEF MarkRunning, Delivering
<1>2. CASE Exit(p, TRUE)
  BY <1>1, <1>2, ExitStep DEF MarkRunning, TypeInv, TypeOK, remote
<1>3. CASE IsFormal(q.key) /\ Goto(p, "bindTask") /\ UNCHANGED <<mutex, lease>>
  <2>1. q.key \in Keys /\ q.key \notin Chats /\ p \notin Senders
    BY <1>1, <1>3 DEF Local, Carries, IsFormal
  <2>2. r \in Proc /\ r.pc = "bindTask" /\ r.key = q.key /\ r.turn = q.turn /\ r.todo = q.todo
    BY <1>1 DEF Proc, ProcStates, Delivering
  <2>3. Local(p, r)
    <3> HIDE DEF r
    <3>1. Kinds(p, "bindTask")
      BY <1>1, <2>1 DEF Local, Kinds, ProcStates, Delivering
    <3>2. Carries(p, r)
      BY <1>1, <1>3, <2>1, <2>2, <3>1, KindsDiffer DEF Local, Carries, Kinds, Delivering, AtTurn, AtEnd
    <3> QED
      BY <2>2, <3>1, <3>2 DEF Local
  <2>4. proc' \in [Procs -> Proc] /\ Processes'
    BY <1>3, <2>3, GotoStep
  <2> QED
    BY <1>3, <2>4 DEF MarkRunning, TypeInv, TypeOK, remote
<1> QED
  BY <1>2, <1>3 DEF MarkRunning

\* The key of a message of a task names one of the tasks.
LEMMA TaskOfKey ==
  ASSUME NEW k \in Keys \ Chats
  PROVE  TaskOf(k) \in Tasks /\ k[2] \in Turns \cup {NoTurn} /\ k = <<TaskOf(k), k[2]>>
  BY DEF Keys, TaskOf

LEMMA BindTaskType ==
  ASSUME TypeInv, NEW p \in Procs, BindTask(p)
  PROVE  TypeInv'
<1> DEFINE q == proc[p]
           t == TaskOf(q.key)
<1>1. q.pc = "bindTask" /\ q.pc \in Delivering /\ q.key \in Keys \ Chats /\ q.turn \in Turns \cup {NoTurn}
  BY ProcType, DeliveredKey DEF BindTask, Delivering, Carries
<1>2. t \in Tasks
  BY <1>1, TaskOfKey
<1>3. rows \in [Tasks -> Row] /\ rows[t] \in Row
  BY <1>2 DEF TypeInv, TypeOK
<1>4. q.turn \in Turns
  BY <1>1, ProcType DEF Carries, AtTurn
<1>5. StartAppServerTurn(rows[t], q.turn) \in Row
  BY <1>3, <1>4, ProgressWrites DEF Written
<1>6. rows' \in [Tasks -> Row]
  BY <1>2, <1>3, <1>5, FailIfLiveType DEF BindTask, TypeInv
<1>7. \E ok \in BOOLEAN : Exit(p, ok)
  BY DEF BindTask
<1> QED
  BY <1>1, <1>6, <1>7, ExitStep DEF BindTask, TypeInv, TypeOK, remote

LEMMA RefuseType ==
  ASSUME TypeInv, NEW p \in Procs, Refuse(p)
  PROVE  TypeInv'
<1>1. proc[p].pc = "refuse" /\ proc[p].pc \in Delivering /\ proc[p].key \in Keys
  BY DeliveredKey DEF Refuse, Delivering
<1>2. outbox' \in [Keys -> [state : OutboxStates, turn : Turns \cup {NoTurn}]]
  BY <1>1, SetOutboxType DEF Refuse, TypeInv, TypeOK, OutboxStates
<1> QED
  BY <1>1, <1>2, ExitStep DEF Refuse, TypeInv, TypeOK, remote

LEMMA FailDeliveryType ==
  ASSUME TypeInv, NEW p \in Procs, FailDelivery(p)
  PROVE  TypeInv'
<1> DEFINE q == proc[p]
<1>1. q.pc = "failOutbox" /\ Local(p, q) /\ q.key \in Keys
  BY ProcType DEF FailDelivery, Carries
<1>2. proc' \in [Procs -> Proc] /\ Processes'
  <2>1. CASE IsFormal(q.key)
    BY <1>1, <2>1, FormalMoves, GotoStep DEF FailDelivery
  <2>2. CASE ~IsFormal(q.key)
    BY <1>1, <2>2, FormalMoves, GotoStep DEF FailDelivery
  <2> QED
    BY <2>1, <2>2
<1>3. outbox' \in [Keys -> [state : OutboxStates, turn : Turns \cup {NoTurn}]]
  BY ZenonT(60), <1>1 DEF FailDelivery, TypeInv, TypeOK, OutboxStates
<1> QED
  BY <1>2, <1>3 DEF FailDelivery, TypeInv, TypeOK, remote

\* It goes on, or a worker or the recovery returns.
LEMMA FailTaskDeliveryGoes ==
  ASSUME TypeInv, NEW p \in Procs, FailTaskDelivery(p)
  PROVE  /\ p \in Requests \cup Pool \cup {Recovery} /\ proc[p].pc = "failTask"
         /\ \/ /\ mutex' = mutex /\ FailIfLive(TaskOf(proc[p].key))
               /\ \/ p \in Requests /\ Goto(p, "failRow")
                  \/ p \in Pool /\ Goto(p, "after")
                  \/ p = Recovery /\ Goto(p, "recover")
            \/ Finish(p) /\ rows' = rows /\ mutex' = IF p \in Pool THEN None ELSE mutex
<1>1. proc[p].pc = "failTask" /\ p \in Requests \cup Pool \cup {Recovery}
  BY ProcType, KindsDiffer DEF FailTaskDelivery, Kinds, Delivering
<1>2. CASE Finish(p) /\ rows' = rows /\ mutex' = IF p \in Pool THEN None ELSE mutex
  BY <1>1, <1>2
<1>3. CASE /\ mutex' = mutex /\ FailIfLive(TaskOf(proc[p].key))
           /\ Goto(p, CASE p \in Requests -> "failRow" [] p \in Pool -> "after" [] p = Recovery -> "recover")
  <2>1. CASE p \in Requests
    BY <1>1, <1>3, <2>1, KindsDiffer
  <2>2. CASE p \in Pool
    BY <1>1, <1>3, <2>2, KindsDiffer
  <2>3. CASE p = Recovery
    BY <1>1, <1>3, <2>3, KindsDiffer
  <2> QED
    BY <1>1, <2>1, <2>2, <2>3
<1> QED
  BY <1>2, <1>3 DEF FailTaskDelivery

LEMMA FailTaskDeliveryType ==
  ASSUME TypeInv, NEW p \in Procs, FailTaskDelivery(p)
  PROVE  TypeInv'
<1>1. Local(p, proc[p]) /\ proc[p].pc = "failTask"
  BY ProcType, FailTaskDeliveryGoes
<1>2. proc' \in [Procs -> Proc] /\ Processes'
  BY <1>1, FailTaskDeliveryGoes, FormalMoves, GotoStep, FinishStep
<1>3. rows' \in [Tasks -> Row] /\ mutex' \in {mutex, None}
  BY FailIfLiveType, FailTaskDeliveryGoes DEF TypeInv, TypeOK
<1> QED
  BY <1>2, <1>3 DEF FailTaskDelivery, TypeInv, TypeOK, remote

LEMMA FailRowType ==
  ASSUME TypeInv, NEW p \in Procs, FailRow(p)
  PROVE  TypeInv'
<1>1. rows' \in [Tasks -> Row]
  <2>1. CASE FailIfLive(TaskOf(proc[p].key))
    BY <2>1, FailIfLiveType DEF TypeInv
  <2>2. CASE ~FailIfLive(TaskOf(proc[p].key))
    BY <2>2, EndWrites DEF FailRow, TypeInv, TypeOK, Written
  <2> QED
    BY <2>1, <2>2
<1>2. proc' \in [Procs -> Proc] /\ Processes'
  BY FinishStep DEF FailRow
<1> QED
  BY <1>1, <1>2 DEF FailRow, TypeInv, TypeOK, remote

LEMMA BindReceiptType ==
  ASSUME TypeInv, NEW p \in Procs, BindReceipt(p)
  PROVE  TypeInv'
<1> DEFINE q == proc[p]
           t == TaskOf(q.key)
<1>1. q.turn \in Turns \cup {NoTurn}
  BY ProcType DEF Proc
<1>2. rows' \in [Tasks -> Row]
  <2>1. CASE UNCHANGED rows
    BY <2>1 DEF TypeInv, TypeOK
  <2>2. CASE rows' = [rows EXCEPT ![t].turn = q.turn]
    <3>1. ASSUME NEW row \in Row PROVE [row EXCEPT !.turn = q.turn] \in Row
      BY <1>1 DEF Row
    <3> QED
      BY <2>2, <3>1 DEF TypeInv, TypeOK
  <2>3. CASE FailIfLive(t)
    BY <2>3, FailIfLiveType DEF TypeInv
  <2> QED
    BY <2>1, <2>2, <2>3 DEF BindReceipt
<1>3. proc' \in [Procs -> Proc] /\ Processes'
  BY FinishStep DEF BindReceipt
<1> QED
  BY <1>2, <1>3 DEF BindReceipt, TypeInv, TypeOK, remote
-----------------------------------------------------------------------------
(* Type correctness of each step: the end of a turn                        *)

LEMMA ServerEndsType ==
  ASSUME TypeInv, NEW x \in Turns, ServerEnds(x)
  PROVE  TypeInv'
<1>1. server' \in [Turns -> ServerStates]
  BY DEF ServerEnds, TypeInv, TypeOK, ServerStates
<1> QED
  BY <1>1 DEF ServerEnds, TypeInv, TypeOK, Processes, store

LEMMA NotifyType ==
  ASSUME TypeInv, NEW x \in Turns, Notify(x)
  PROVE  TypeInv'
<1> DEFINE pc == IF server[x] = "error" THEN "fail" ELSE "inbox"
           r == [Idle EXCEPT !.pc = pc, !.turn = x]
<1>1. Notifier \in Procs
  BY KindsDiffer
<1>2. pc \in {"fail", "inbox"}
  OBVIOUS
<1>3. proc' \in [Procs -> Proc] /\ Processes'
  <2>1. CASE proc' = proc
    BY <2>1 DEF TypeInv, TypeOK, Processes
  <2>2. CASE proc' = [proc EXCEPT ![Notifier] = r]
    <3> HIDE DEF pc
    <3>1. r \in Proc /\ r.pc = pc /\ r.turn = x /\ r.todo = <<>>
      BY <1>1, <1>2, IdleLocal DEF Proc, ProcStates
    <3> HIDE DEF r
    <3>2. Local(Notifier, r)
      BY <1>1, <1>2, <3>1, BeginLocal, KindsDiffer DEF Kinds, ProcStates, Delivering, AtTurn, AtEnd
    <3> QED
      BY <1>1, <2>2, <3>2, ProcessStep
  <2> QED
    BY <2>1, <2>2 DEF Notify
<1>4. server' \in [Turns -> ServerStates]
  BY DEF Notify, TypeInv, TypeOK, ServerStates
<1> QED
  BY <1>3, <1>4 DEF Notify, TypeInv, TypeOK, store

\* A step of a process that changes nothing else of it than its place.
LEMMA EndingGoesOn ==
  ASSUME TypeInv, NEW p \in Procs, NEW to, Goto(p, to),
         <<proc[p].pc, to>> \in ({"check"} \X {"adopt", "complete", "close"})
           \cup ({"complete", "adopt"} \X {"close", "failTurn", "retry"})
           \cup ({"result", "write"} \X {"close", "failTurn"})
           \cup {<<"failTurn", "retry">>, <<"close", "closeStatus">>, <<"closeStatus", "done">>,
                 <<"done", "next">>, <<"fail", "inbox">>, <<"reset", "interrupt">>,
                 <<"interrupt", "snapshot">>},
         proc[p].pc \in {"result", "write"} => p \in Pool
  PROVE  proc' \in [Procs -> Proc] /\ Processes'
<1>1. Local(p, [proc[p] EXCEPT !.pc = to])
  BY ProcType, EndingMoves
<1> QED
  BY <1>1, GotoStep

LEMMA NotifyFailureType ==
  ASSUME TypeInv, NotifyFailure
  PROVE  TypeInv'
<1>1. proc' \in [Procs -> Proc] /\ Processes'
  BY EndingGoesOn, KindsDiffer DEF NotifyFailure
<1>2. rows' \in [Tasks -> Row]
  BY FailBoundTurnType DEF NotifyFailure, TypeInv
<1> QED
  BY <1>1, <1>2 DEF NotifyFailure, TypeInv, TypeOK, remote

LEMMA PersistCompletionType ==
  ASSUME TypeInv, PersistCompletion
  PROVE  TypeInv'
<1>1. proc' \in [Procs -> Proc] /\ Processes'
  BY FinishStep, KindsDiffer DEF PersistCompletion
<1>2. inbox' \in [Turns -> {"none", "pending", "processing", "done"}]
  BY DEF PersistCompletion, TypeInv, TypeOK
<1> QED
  BY <1>1, <1>2 DEF PersistCompletion, TypeInv, TypeOK, remote

LEMMA ClaimType ==
  ASSUME TypeInv, NEW w \in Workers, NEW x \in Turns, Claim(w, x)
  PROVE  TypeInv'
<1> DEFINE p == <<"worker", w>>
           r == [Idle EXCEPT !.pc = "check", !.turn = x]
<1>1. p \in Pool /\ p \in Procs
  BY KindsDiffer DEF Pool
<1>2. r \in Proc /\ r.pc = "check" /\ r.turn = x /\ r.todo = <<>>
  BY <1>1, IdleLocal DEF Proc, ProcStates
<1>3. Local(p, r)
  <2> HIDE DEF r
  <2> QED
    BY <1>1, <1>2, BeginLocal, KindsDiffer DEF Kinds, ProcStates, Delivering, AtTurn, AtEnd
<1>4. proc' \in [Procs -> Proc] /\ Processes'
  BY <1>1, <1>3, ProcessStep DEF Claim
<1>5. inbox' \in [Turns -> {"none", "pending", "processing", "done"}]
  BY DEF Claim, TypeInv, TypeOK
<1> QED
  BY <1>4, <1>5 DEF Claim, TypeInv, TypeOK, remote

LEMMA CheckType ==
  ASSUME TypeInv, NEW p \in Procs, Check(p)
  PROVE  TypeInv'
<1>1. \E to \in {"adopt", "complete", "close"} : Goto(p, to) /\ proc[p].pc = "check"
  BY DEF Check
<1>2. proc' \in [Procs -> Proc] /\ Processes'
  BY <1>1, EndingGoesOn
<1> QED
  BY <1>2 DEF Check, TypeInv, TypeOK, store, remote

\* The task a turn is bound to.
LEMMA BoundTaskIn ==
  ASSUME NEW x, BoundTo(x) # {}
  PROVE  BoundTask(x) \in Tasks /\ rows[BoundTask(x)].turn = x
  BY DEF BoundTo, BoundTask

\* A process that validates a result: the worker that claimed it or a retry.
LEMMA ClaimLocal ==
  ASSUME NEW p \in Pool \cup Retries, p \in Procs, NEW q, Local(p, q), q.pc \notin {"idle", "sweep"} \/ q = Idle,
         NEW r \in Proc, r.pc = "result", r.key \in Tasks \X {NoTurn}, r.turn \in Turns, r.todo = q.todo
  PROVE  Local(p, r)
<1>1. Kinds(p, "result")
  BY KindsDiffer DEF Kinds, ProcStates, Delivering
<1>2. p \in Pool => \A i \in DOMAIN r.todo : r.todo[i][2] = "queued"
  BY EmptyList DEF Local, Carries, Idle
<1>3. Carries(p, r)
  BY <1>2, KindsDiffer DEF Carries, Delivering, AtTurn, AtEnd
<1> QED
  BY <1>1, <1>3 DEF Local

LEMMA CompleteTurnType ==
  ASSUME TypeInv, NEW p \in Procs, CompleteTurn(p)
  PROVE  TypeInv'
<1> DEFINE q == proc[p]
           x == q.turn
           t == BoundTask(x)
<1>1. q.pc \in {"complete", "adopt"} /\ q \in Proc /\ Local(p, q) /\ p \in Pool /\ x \in Turns
  <2>1. q.pc \in {"complete", "adopt"} /\ q \in Proc /\ Local(p, q)
    BY ProcType DEF CompleteTurn
  <2> QED
    BY <2>1, KindsDiffer DEF Local, Kinds, Carries, Delivering, AtTurn, AtEnd
<1>2. CASE \E to \in {"close", "failTurn", "retry"} : Goto(p, to) /\ UNCHANGED rows
  <2>1. proc' \in [Procs -> Proc] /\ Processes'
    BY <1>1, <1>2, EndingGoesOn
  <2> QED
    BY <1>2, <2>1 DEF CompleteTurn, TypeInv, TypeOK, remote
<1>3. CASE /\ BoundTo(x) # {}
           /\ rows' = [rows EXCEPT ![t] = ClaimAppServerResult(@)]
           /\ proc' = [proc EXCEPT ![p].pc = "result", ![p].v = ValidationAttempt(rows[t]),
                                   ![p].key = <<t, NoTurn>>]
  <2> DEFINE v == ValidationAttempt(rows[t])
             r == [q EXCEPT !.pc = "result", !.v = v, !.key = <<t, NoTurn>>]
  <2>1. t \in Tasks /\ rows[t] \in Row
    BY <1>3, BoundTaskIn DEF TypeInv, TypeOK
  <2>2. v \in Nat
    BY <2>1, ValidationAttemptType
  <2>3. proc' = [proc EXCEPT ![p] = r]
    BY <1>3
  <2>4. Local(p, r)
    <3> HIDE DEF v
    <3>1. /\ r \in Proc /\ r.pc = "result" /\ r.key = <<t, NoTurn>> /\ r.turn = x /\ r.todo = q.todo
      BY <1>1, <2>1, <2>2 DEF Proc, ProcStates, Keys
    <3> HIDE DEF r
    <3> QED
      BY <1>1, <2>1, <3>1, ClaimLocal
  <2> HIDE DEF r
  <2>5. proc' \in [Procs -> Proc] /\ Processes'
    BY <2>3, <2>4, ProcessStep
  <2>6. rows' \in [Tasks -> Row]
    BY <1>3, <2>1, ProgressWrites DEF TypeInv, TypeOK, Written
  <2> QED
    BY <2>5, <2>6 DEF CompleteTurn, TypeInv, TypeOK, remote
<1> QED
  BY <1>2, <1>3 DEF CompleteTurn

LEMMA RetryOutputType ==
  ASSUME TypeInv, NEW t \in Tasks, RetryOutput(t), rows[t].transport = "app_server"
  PROVE  TypeInv'
<1> DEFINE p == <<"retry", t>>
           v == ValidationAttempt(rows[t])
           r == [Idle EXCEPT !.pc = "result", !.turn = rows[t].turn, !.v = v, !.key = <<t, NoTurn>>]
<1>1. p \in Retries /\ p \in Procs
  BY KindsDiffer DEF Retries
<1>2. rows[t] \in Row /\ rows[t].turn \in Turns
  BY DEF RetryOutput, CanClaimOutputInvalidRetry, TypeInv, TypeOK, Row
<1>3. v \in Nat
  BY <1>2, ValidationAttemptType
<1>4. proc' = [proc EXCEPT ![p] = r]
  BY DEF RetryOutput
<1> HIDE DEF v
<1>5. Local(p, r)
  <2>1. /\ r \in Proc /\ r.pc = "result" /\ r.key = <<t, NoTurn>> /\ r.turn = rows[t].turn /\ r.todo = Idle.todo
    BY ZenonT(60), <1>1, <1>2, <1>3, IdleLocal DEF Proc, ProcStates, Keys
  <2> HIDE DEF r
  <2> QED
    BY <1>1, <1>2, <2>1, IdleLocal, ClaimLocal
<1> HIDE DEF r
<1>6. proc' \in [Procs -> Proc] /\ Processes'
  BY <1>1, <1>4, <1>5, ProcessStep
<1>7. rows' \in [Tasks -> Row]
  BY <1>2, ProgressWrites DEF RetryOutput, TypeInv, TypeOK, Written
<1> QED
  BY <1>6, <1>7 DEF RetryOutput, TypeInv, TypeOK, remote

LEMMA AfterResultStep ==
  ASSUME TypeInv, NEW p \in Procs, NEW ok \in BOOLEAN, proc[p].pc \in {"result", "write"}, AfterResult(p, ok)
  PROVE  proc' \in [Procs -> Proc] /\ Processes'
<1>1. CASE p \in Retries
  BY <1>1, IdleLocal, ProcessStep DEF AfterResult
<1>2. CASE p \notin Retries
  <2>1. p \in Pool
    BY <1>2, ProcType, KindsDiffer DEF Kinds, Delivering
  <2>2. \E to \in {"close", "failTurn"} : Goto(p, to)
    BY <1>2 DEF AfterResult, Goto
  <2> QED
    BY <2>1, <2>2, EndingGoesOn
<1> QED
  BY <1>1, <1>2

LEMMA ResultRejectedType ==
  ASSUME TypeInv, NEW p \in Procs, ResultRejected(p)
  PROVE  TypeInv'
<1> DEFINE t == TaskOf(proc[p].key)
<1>1. proc' \in [Procs -> Proc] /\ Processes'
  BY AfterResultStep DEF ResultRejected
<1>2. rows' \in [Tasks -> Row]
  <2>1. CASE PersistFailure(t, proc[p].turn)
    BY <2>1, PersistFailureType DEF TypeInv
  <2>2. CASE \E error \in Errors : rows' = [rows EXCEPT ![t] = WriteFailure(@, proc[p].v, error)]
    <3>1. PICK error \in Errors : rows' = [rows EXCEPT ![t] = WriteFailure(@, proc[p].v, error)]
      BY <2>2
    <3>2. ASSUME NEW row \in Row PROVE WriteFailure(row, proc[p].v, error) \in Row
      BY EndWrites DEF Written
    <3> QED
      BY <3>1, <3>2 DEF TypeInv, TypeOK
  <2> QED
    BY <2>1, <2>2 DEF ResultRejected, Errors
<1> QED
  BY <1>1, <1>2 DEF ResultRejected, TypeInv, TypeOK, remote

LEMMA ResultAcceptedType ==
  ASSUME TypeInv, NEW p \in Procs, ResultAccepted(p)
  PROVE  TypeInv'
<1> DEFINE q == proc[p]
           t == TaskOf(q.key)
<1>1. q.pc = "result" /\ q \in Proc /\ Local(p, q) /\ q.v \in Nat
  BY ProcType DEF ResultAccepted, Proc
<1>2. CASE /\ CanBeginAssetCommit(rows[t], q.v)
           /\ rows' = [rows EXCEPT ![t] = BeginAssetCommit(@, q.v)]
           /\ \E end \in Endings \cap {"awaiting_input", "completed"} :
                proc' = [proc EXCEPT ![p].pc = "write", ![p].outcome = end]
  <2>1. PICK end \in {"awaiting_input", "completed"} :
          proc' = [proc EXCEPT ![p] = [q EXCEPT !.pc = "write", !.outcome = end]]
    BY <1>2
  <2> DEFINE r == [q EXCEPT !.pc = "write", !.outcome = end]
  <2>2. r \in Proc /\ r.pc = "write" /\ r.key = q.key /\ r.turn = q.turn /\ r.todo = q.todo
    BY <1>1 DEF Proc, ProcStates
  <2>3. proc' = [proc EXCEPT ![p] = r]
    BY <2>1
  <2> HIDE DEF r
  <2>4. p \in Pool \cup Retries
    BY <1>1, KindsDiffer DEF Local, Kinds, Delivering
  <2>5. Kinds(p, "write")
    BY <2>4, KindsDiffer DEF Kinds, ProcStates, Delivering
  <2>6. Carries(p, r)
    BY <1>1, <2>2, <2>4, KindsDiffer DEF Local, Carries, Delivering, AtTurn, AtEnd
  <2>7. proc' \in [Procs -> Proc] /\ Processes'
    BY <2>2, <2>3, <2>5, <2>6, ProcessStep DEF Local
  <2>8. rows' \in [Tasks -> Row]
    BY <1>1, <1>2, PhaseWrites DEF TypeInv, TypeOK, Written
  <2> QED
    BY <2>7, <2>8 DEF ResultAccepted, TypeInv, TypeOK, remote
<1>3. CASE PersistFailure(t, q.turn) /\ AfterResult(p, FALSE)
  <2>1. proc' \in [Procs -> Proc] /\ Processes'
    BY <1>1, <1>3, AfterResultStep
  <2>2. rows' \in [Tasks -> Row]
    BY <1>3, PersistFailureType DEF TypeInv
  <2> QED
    BY <2>1, <2>2 DEF ResultAccepted, TypeInv, TypeOK, remote
<1> QED
  BY <1>2, <1>3 DEF ResultAccepted

LEMMA WriteResultType ==
  ASSUME TypeInv, NEW p \in Procs, WriteResult(p)
  PROVE  TypeInv'
<1> DEFINE q == proc[p]
           t == TaskOf(q.key)
<1>1. q.pc = "write" /\ q.outcome \in {"awaiting_input", "completed"}
  BY ProcType DEF WriteResult, Proc
<1>2. proc' \in [Procs -> Proc] /\ Processes'
  BY AfterResultStep DEF WriteResult
<1>3. rows' \in [Tasks -> Row]
  <2>1. CASE PersistFailure(t, q.turn)
    BY <2>1, PersistFailureType DEF TypeInv
  <2>2. CASE rows' = [rows EXCEPT ![t] = WriteSuccess(@, q.v, q.outcome)]
    BY <1>1, <2>2, EndWrites DEF TypeInv, TypeOK, Written
  <2> QED
    BY <2>1, <2>2 DEF WriteResult
<1> QED
  BY <1>2, <1>3 DEF WriteResult, TypeInv, TypeOK, remote

LEMMA FailTurnType ==
  ASSUME TypeInv, NEW p \in Procs, FailTurn(p)
  PROVE  TypeInv'
<1>1. proc' \in [Procs -> Proc] /\ Processes'
  BY EndingGoesOn DEF FailTurn
<1>2. rows' \in [Tasks -> Row]
  BY FailBoundTurnType DEF FailTurn, TypeInv
<1> QED
  BY <1>1, <1>2 DEF FailTurn, TypeInv, TypeOK, remote

LEMMA RetryCompletionType ==
  ASSUME TypeInv, NEW p \in Procs, RetryCompletion(p)
  PROVE  TypeInv'
<1>1. proc' \in [Procs -> Proc] /\ Processes'
  BY FinishStep DEF RetryCompletion
<1>2. inbox' \in [Turns -> {"none", "pending", "processing", "done"}]
  BY DEF RetryCompletion, TypeInv, TypeOK
<1> QED
  BY <1>1, <1>2 DEF RetryCompletion, TypeInv, TypeOK, remote

LEMMA CloseTurnType ==
  ASSUME TypeInv, NEW p \in Procs, CloseTurn(p)
  PROVE  TypeInv'
<1>1. proc' \in [Procs -> Proc] /\ Processes'
  BY EndingGoesOn DEF CloseTurn
<1>2. turnRow' \in [Turns -> {"none", "running", "completed", "failed"}]
  BY DEF CloseTurn, TypeInv, TypeOK
<1> QED
  BY <1>1, <1>2 DEF CloseTurn, TypeInv, TypeOK, remote

LEMMA CloseStatusType ==
  ASSUME TypeInv, NEW p \in Procs, CloseStatus(p)
  PROVE  TypeInv'
<1>1. proc' \in [Procs -> Proc] /\ Processes'
  BY EndingGoesOn DEF CloseStatus
<1> QED
  BY <1>1 DEF CloseStatus, TypeInv, TypeOK, remote

LEMMA CompleteCompletionType ==
  ASSUME TypeInv, NEW p \in Procs, CompleteCompletion(p)
  PROVE  TypeInv'
<1>1. proc' \in [Procs -> Proc] /\ Processes'
  BY EndingGoesOn, FinishStep DEF CompleteCompletion
<1>2. inbox' \in [Turns -> {"none", "pending", "processing", "done"}]
  BY DEF CompleteCompletion, TypeInv, TypeOK
<1> QED
  BY <1>1, <1>2 DEF CompleteCompletion, TypeInv, TypeOK, remote

LEMMA RequeueStaleType ==
  ASSUME TypeInv, NEW x \in Turns, RequeueStale(x)
  PROVE  TypeInv'
<1>1. inbox' \in [Turns -> {"none", "pending", "processing", "done"}]
  BY DEF RequeueStale, TypeInv, TypeOK
<1> QED
  BY <1>1 DEF RequeueStale, TypeInv, TypeOK, Processes, remote
-----------------------------------------------------------------------------
(* Type correctness of each step: the queue after a turn, and a restart    *)

LEMMA ListPendingType ==
  ASSUME TypeInv, NEW p \in Procs, ListPending(p)
  PROVE  TypeInv'
<1> DEFINE q == proc[p]
           list == Snapshot({"queued"})
           r == [q EXCEPT !.pc = "after", !.turn = NoTurn, !.todo = list]
<1>1. q.pc = "next" /\ q \in Proc /\ Local(p, q)
  BY ProcType DEF ListPending
<1>2. p \in Pool
  BY <1>1, KindsDiffer DEF Local, Kinds, Delivering
<1>3. list \in Seq(Keys \X OutboxStates) /\ \A i \in DOMAIN list : list[i][2] = "queued"
  BY SnapshotType DEF TypeInv, OutboxStates
<1>4. proc' = [proc EXCEPT ![p] = r]
  BY DEF ListPending
<1> HIDE DEF list
<1>5. r \in Proc /\ r.pc = "after" /\ r.todo = list
  BY <1>1, <1>3 DEF Proc, ProcStates
<1> HIDE DEF r
<1>6. Kinds(p, "after")
  BY <1>2, KindsDiffer DEF Kinds, ProcStates
<1>7. Carries(p, r)
  BY <1>2, <1>3, <1>5, KindsDiffer DEF Carries, Delivering, AtTurn, AtEnd
<1>8. proc' \in [Procs -> Proc] /\ Processes'
  BY <1>4, <1>5, <1>6, <1>7, ProcessStep DEF Local
<1> QED
  BY <1>8 DEF ListPending, TypeInv, TypeOK, store, remote

\* A process that takes the next message of its list, or drops it.
LEMMA NextMessageLocal ==
  ASSUME NEW p \in Pool \cup {Recovery}, p \in Procs, NEW q, Local(p, q), q.todo # <<>>, q.pc \in {"after", "recover"},
         NEW r \in Proc, r.todo = Tail(q.todo),
         \/ r.pc = q.pc
         \/ r.pc = "lease" /\ r.key = Head(q.todo)[1] /\ r.turn = NoTurn
         \/ r.pc = "failTask" /\ r.key = Head(q.todo)[1] /\ IsFormal(r.key)
  PROVE  Local(p, r)
<1>1. q \in Proc /\ Kinds(p, q.pc) /\ Carries(p, q) /\ q.todo \in Seq(Keys \X OutboxStates)
  BY DEF Local, Proc
<1>2. Head(q.todo) \in Keys \X OutboxStates /\ Head(q.todo)[1] \in Keys
  BY <1>1, TailType
<1>3. p \in Pool => \A i \in DOMAIN r.todo : r.todo[i][2] = "queued"
  <2>1. p \in Pool => \A i \in DOMAIN q.todo : q.todo[i][2] \in {"queued"}
    BY <1>1, KindsDiffer DEF Carries
  <2>2. p \in Pool => \A i \in DOMAIN Tail(q.todo) : Tail(q.todo)[i][2] \in {"queued"}
    BY <1>1, <2>1, TailType
  <2> QED
    BY <2>2
<1>4. p = Recovery => \A i \in DOMAIN r.todo : r.todo[i][2] \in {"pending", "queued", "sending"}
  <2>1. p = Recovery => \A i \in DOMAIN q.todo : q.todo[i][2] \in {"pending", "queued", "sending"}
    BY <1>1 DEF Carries
  <2>2. p = Recovery => \A i \in DOMAIN Tail(q.todo) : Tail(q.todo)[i][2] \in {"pending", "queued", "sending"}
    BY <1>1, <2>1, TailType
  <2> QED
    BY <2>2
<1>5. Kinds(p, r.pc)
  BY <1>1, KindsDiffer DEF Kinds, ProcStates, Delivering
<1>6. Carries(p, r)
  BY <1>2, <1>3, <1>4, KindsDiffer DEF Carries, Delivering, AtTurn, AtEnd, IsFormal
<1> QED
  BY <1>5, <1>6 DEF Local

LEMMA NextPendingType ==
  ASSUME TypeInv, NEW p \in Procs, NextPending(p)
  PROVE  TypeInv'
<1> DEFINE q == proc[p]
           k == Head(q.todo)[1]
           state == Head(q.todo)[2]
<1>1. q.pc = "after" /\ q \in Proc /\ Local(p, q) /\ q.todo # <<>> /\ q.todo \in Seq(Keys \X OutboxStates)
  BY ProcType DEF NextPending, Proc
<1>2. p \in Pool
  BY <1>1, KindsDiffer DEF Local, Kinds, Delivering
<1>3. k \in Keys /\ state \in OutboxStates /\ Tail(q.todo) \in Seq(Keys \X OutboxStates)
  BY <1>1, TailType
<1>4. CASE /\ proc' = [proc EXCEPT ![p] = [q EXCEPT !.pc = "lease", !.key = k, !.seen = state,
                                                    !.turn = NoTurn, !.todo = Tail(q.todo)]]
           /\ UNCHANGED <<outbox, mutex>>
  <2> DEFINE r == [q EXCEPT !.pc = "lease", !.key = k, !.seen = state, !.turn = NoTurn, !.todo = Tail(q.todo)]
  <2>1. r \in Proc /\ r.pc = "lease" /\ r.key = k /\ r.turn = NoTurn /\ r.todo = Tail(q.todo)
    BY <1>1, <1>3 DEF Proc, ProcStates, Delivering
  <2>2. proc' = [proc EXCEPT ![p] = r]
    BY <1>4
  <2> HIDE DEF r
  <2>3. proc' \in [Procs -> Proc] /\ Processes'
    BY <1>1, <1>2, <2>1, <2>2, NextMessageLocal, ProcessStep
  <2> QED
    BY <1>4, <2>3 DEF NextPending, TypeInv, TypeOK, remote
<1>5. CASE /\ SetOutbox(k, state, "failed", NoTurn) /\ proc' = [proc EXCEPT ![p].todo = Tail(@)]
           /\ UNCHANGED mutex
  <2> DEFINE r == [q EXCEPT !.todo = Tail(@)]
  <2>1. r \in Proc /\ r.pc = q.pc /\ r.todo = Tail(q.todo)
    BY <1>1, <1>3 DEF Proc
  <2>2. proc' = [proc EXCEPT ![p] = r]
    BY <1>5
  <2> HIDE DEF r
  <2>3. proc' \in [Procs -> Proc] /\ Processes'
    BY <1>1, <1>2, <2>1, <2>2, NextMessageLocal, ProcessStep
  <2>4. outbox' \in [Keys -> [state : OutboxStates, turn : Turns \cup {NoTurn}]]
    BY <1>3, <1>5, SetOutboxType DEF TypeInv, OutboxStates
  <2> QED
    BY <1>5, <2>3, <2>4 DEF NextPending, TypeInv, TypeOK, remote
<1>6. CASE Finish(p) /\ mutex' = None /\ UNCHANGED outbox
  BY <1>6, FinishStep DEF NextPending, TypeInv, TypeOK, remote
<1> QED
  BY <1>4, <1>5, <1>6 DEF NextPending

LEMMA ListFailedType ==
  ASSUME TypeInv, NEW p \in Procs, ListFailed(p)
  PROVE  TypeInv'
<1> DEFINE q == proc[p]
           list == Snapshot({"failed"})
           r == [q EXCEPT !.pc = "sweep", !.todo = list]
<1>1. q.pc = "after" /\ q \in Proc /\ Local(p, q)
  BY ProcType DEF ListFailed
<1>2. p \in Pool
  BY <1>1, KindsDiffer DEF Local, Kinds, Delivering
<1>3. list \in Seq(Keys \X OutboxStates)
  BY SnapshotType DEF TypeInv, OutboxStates
<1>4. proc' = [proc EXCEPT ![p] = r]
  BY DEF ListFailed
<1> HIDE DEF list
<1>5. r \in Proc /\ r.pc = "sweep"
  BY <1>1, <1>3 DEF Proc, ProcStates
<1> HIDE DEF r
<1>6. Kinds(p, "sweep")
  BY <1>2, KindsDiffer DEF Kinds, ProcStates
<1>7. Carries(p, r)
  BY <1>2, <1>5, KindsDiffer DEF Carries, Delivering, AtTurn, AtEnd
<1>8. proc' \in [Procs -> Proc] /\ Processes'
  BY <1>4, <1>5, <1>6, <1>7, ProcessStep DEF Local
<1> QED
  BY <1>8 DEF ListFailed, TypeInv, TypeOK, store, remote

LEMMA SweepFailedType ==
  ASSUME TypeInv, NEW p \in Procs, SweepFailed(p)
  PROVE  TypeInv'
<1> DEFINE q == proc[p]
           r == [q EXCEPT !.todo = Tail(@)]
<1>1. q.pc = "sweep" /\ q \in Proc /\ Local(p, q) /\ q.todo \in Seq(Keys \X OutboxStates)
  BY ProcType DEF SweepFailed, Proc
<1>2. p \in Pool
  BY <1>1, KindsDiffer DEF Local, Kinds, Delivering
<1>3. CASE Finish(p) /\ mutex' = None /\ UNCHANGED rows
  BY <1>3, FinishStep DEF SweepFailed, TypeInv, TypeOK, remote
<1>4. CASE q.todo # <<>> /\ proc' = [proc EXCEPT ![p].todo = Tail(@)]
  <2>1. r \in Proc /\ r.pc = "sweep"
    BY <1>1, <1>4, TailType DEF Proc
  <2>2. proc' = [proc EXCEPT ![p] = r]
    BY <1>4
  <2> HIDE DEF r
  <2>3. Carries(p, r)
    BY <1>2, <2>1, KindsDiffer DEF Carries, Delivering, AtTurn, AtEnd
  <2>4. proc' \in [Procs -> Proc] /\ Processes'
    BY <1>1, <2>1, <2>2, <2>3, ProcessStep DEF Local
  <2>5. rows' \in [Tasks -> Row]
    BY <1>4, FailIfLiveType DEF SweepFailed, TypeInv, TypeOK
  <2> QED
    BY <1>4, <2>4, <2>5 DEF SweepFailed, TypeInv, TypeOK, remote
<1> QED
  BY <1>3, <1>4 DEF SweepFailed

LEMMA ExpireLeaseType ==
  ASSUME TypeInv, ExpireLease
  PROVE  TypeInv'
  BY DEF ExpireLease, TypeInv, TypeOK, Processes, store, remote

LEMMA RestartType ==
  ASSUME TypeInv, Restart
  PROVE  TypeInv'
<1>1. rows' \in [Tasks -> Row]
  <2>1. ASSUME NEW t \in Tasks
        PROVE  InterruptInFlight(rows[t], HasOpenInbox(rows[t].turn), HasUnsent(t)) \in Row
    <3>1. rows[t] \in Row /\ HasOpenInbox(rows[t].turn) \in BOOLEAN /\ HasUnsent(t) \in BOOLEAN
      BY DEF TypeInv, TypeOK, HasOpenInbox, HasUnsent
    <3> QED
      BY <3>1, RestartWrites
  <2> QED
    BY <2>1 DEF Restart
<1> DEFINE r == [Idle EXCEPT !.pc = "reset"]
<1>2. Local(Recovery, r) /\ r \in Proc
  <2>1. r \in Proc /\ r.pc = "reset" /\ r.todo = <<>>
    BY KindsDiffer, IdleLocal DEF Proc, ProcStates
  <2> HIDE DEF r
  <2> QED
    BY <2>1, BeginLocal, KindsDiffer DEF Kinds, ProcStates, Delivering, AtTurn, AtEnd
<1>3. proc' = [p \in Procs |-> IF p = Recovery THEN r ELSE Idle]
  BY DEF Restart
<1> HIDE DEF r
<1>4. proc' \in [Procs -> Proc] /\ Processes'
  BY <1>2, <1>3, IdleLocal DEF Processes, Local
<1>5. server' \in [Turns -> ServerStates] /\ epoch' \subseteq Turns
  BY DEF Restart, TypeInv, TypeOK, ServerStates
<1>6. restarts' \in 0..MaxRestart
  BY BoundsAssumption DEF Restart, TypeInv, TypeOK
<1>7. mutex' \in Procs \cup {None} /\ lease' \in {"free", "mine", "other"}
  BY DEF Restart, TypeInv, TypeOK
<1> QED
  BY <1>1, <1>4, <1>5, <1>6, <1>7 DEF Restart, TypeInv, TypeOK

LEMMA ResetProcessingType ==
  ASSUME TypeInv, ResetProcessing
  PROVE  TypeInv'
<1>1. proc' \in [Procs -> Proc] /\ Processes'
  BY EndingGoesOn, KindsDiffer DEF ResetProcessing
<1>2. inbox' \in [Turns -> {"none", "pending", "processing", "done"}]
  BY DEF ResetProcessing, TypeInv, TypeOK
<1> QED
  BY <1>1, <1>2 DEF ResetProcessing, TypeInv, TypeOK, remote

LEMMA InterruptTurnsType ==
  ASSUME TypeInv, InterruptTurns
  PROVE  TypeInv'
<1>1. proc' \in [Procs -> Proc] /\ Processes'
  BY EndingGoesOn, KindsDiffer DEF InterruptTurns
<1>2. turnRow' \in [Turns -> {"none", "running", "completed", "failed"}] /\ status' \in {"idle", "running"}
  BY DEF InterruptTurns, TypeInv, TypeOK
<1> QED
  BY <1>1, <1>2 DEF InterruptTurns, TypeInv, TypeOK, remote

\* The recovery's list: what was being sent, and what waits unless a turn is open.
LEMMA RecoverableList ==
  ASSUME TypeOK
  PROVE  LET list == Snapshot({"sending"}) \o (IF HasActive THEN <<>> ELSE Snapshot({"pending", "queued"}))
         IN  /\ list \in Seq(Keys \X OutboxStates)
             /\ \A i \in DOMAIN list : /\ list[i] \in Keys \X OutboxStates
                                       /\ list[i][2] \in {"pending", "queued", "sending"}
                                       /\ outbox[list[i][1]].state = list[i][2]
<1> DEFINE a == Snapshot({"sending"})
           b == IF HasActive THEN <<>> ELSE Snapshot({"pending", "queued"})
           Good(e) == /\ e \in Keys \X OutboxStates /\ e[2] \in {"pending", "queued", "sending"}
                      /\ outbox[e[1]].state = e[2]
<1>1. a \in Seq(Keys \X OutboxStates) /\ \A i \in DOMAIN a : Good(a[i])
  BY SnapshotType DEF OutboxStates
<1>2. b \in Seq(Keys \X OutboxStates) /\ \A i \in DOMAIN b : Good(b[i])
  BY SnapshotType, EmptyList DEF OutboxStates
<1> HIDE DEF a, b
<1>3. /\ a \o b \in Seq(Keys \X OutboxStates) /\ Len(a \o b) = Len(a) + Len(b)
      /\ \A i \in 1..Len(a) + Len(b) : (a \o b)[i] = IF i <= Len(a) THEN a[i] ELSE b[i - Len(a)]
  BY <1>1, <1>2, ConcatProperties
<1>4. /\ DOMAIN a = 1..Len(a) /\ DOMAIN b = 1..Len(b) /\ Len(a) \in Nat /\ Len(b) \in Nat
      /\ DOMAIN (a \o b) = 1..Len(a) + Len(b)
  BY <1>1, <1>2, <1>3, LenProperties
<1>5. ASSUME NEW i \in DOMAIN (a \o b) PROVE Good((a \o b)[i])
  <2> HIDE DEF Good
  <2>1. CASE i <= Len(a)
    BY <1>1, <1>3, <1>4, <2>1
  <2>2. CASE ~(i <= Len(a))
    BY <1>2, <1>3, <1>4, <2>2
  <2> QED
    BY <2>1, <2>2
<1> QED
  BY <1>3, <1>5 DEF a, b

LEMMA ListRecoverableType ==
  ASSUME TypeInv, ListRecoverable
  PROVE  TypeInv'
<1> DEFINE q == proc[Recovery]
           list == Snapshot({"sending"}) \o (IF HasActive THEN <<>> ELSE Snapshot({"pending", "queued"}))
           r == [q EXCEPT !.pc = "recover", !.todo = list]
<1>0. Recovery \in Procs
  BY KindsDiffer
<1>1. q.pc = "snapshot" /\ q \in Proc /\ Local(Recovery, q)
  BY <1>0, ProcType DEF ListRecoverable
<1>2. list \in Seq(Keys \X OutboxStates) /\ \A i \in DOMAIN list : list[i][2] \in {"pending", "queued", "sending"}
  BY RecoverableList DEF TypeInv
<1>3. proc' = [proc EXCEPT ![Recovery] = r]
  BY DEF ListRecoverable
<1> HIDE DEF list
<1>4. r \in Proc /\ r.pc = "recover" /\ r.todo = list
  BY <1>1, <1>2 DEF Proc, ProcStates
<1> HIDE DEF r
<1>5. Kinds(Recovery, "recover")
  BY <1>0, KindsDiffer DEF Kinds, ProcStates
<1>6. Carries(Recovery, r)
  BY <1>0, <1>2, <1>4, KindsDiffer DEF Carries, Delivering, AtTurn, AtEnd
<1>7. proc' \in [Procs -> Proc] /\ Processes'
  BY <1>0, <1>3, <1>4, <1>5, <1>6, ProcessStep DEF Local
<1> QED
  BY <1>7 DEF ListRecoverable, TypeInv, TypeOK, store, remote

LEMMA RecoverSendingType ==
  ASSUME TypeInv, RecoverSending
  PROVE  TypeInv'
<1> DEFINE q == proc[Recovery]
           k == Head(q.todo)[1]
           lost == outbox[k].state = "sending"
           pc == IF lost /\ IsFormal(k) THEN "failTask" ELSE "recover"
           r == [q EXCEPT !.pc = pc, !.key = k, !.todo = Tail(q.todo)]
<1>0. Recovery \in Procs /\ Recovery \in Pool \cup {Recovery}
  BY KindsDiffer
<1>1. q.pc = "recover" /\ q \in Proc /\ Local(Recovery, q) /\ q.todo # <<>> /\ q.todo \in Seq(Keys \X OutboxStates)
  BY <1>0, ProcType DEF RecoverSending, Proc
<1>2. k \in Keys /\ Tail(q.todo) \in Seq(Keys \X OutboxStates)
  BY <1>1, TailType
<1>3. /\ proc' = [proc EXCEPT ![Recovery] = r]
      /\ outbox' = IF lost THEN [outbox EXCEPT ![k].state = "failed"] ELSE outbox
  BY DEF RecoverSending
<1>4. r \in Proc /\ r.pc = pc /\ r.key = k /\ r.todo = Tail(q.todo) /\ pc \in {"failTask", "recover"}
      /\ (pc = "failTask" => IsFormal(k))
  BY ZenonT(60), <1>1, <1>2 DEF Proc, ProcStates
<1> HIDE DEF r, pc
<1>5. Local(Recovery, r)
  BY <1>0, <1>1, <1>4, NextMessageLocal
<1>6. proc' \in [Procs -> Proc] /\ Processes'
  BY <1>0, <1>3, <1>5, ProcessStep
<1>7. outbox' \in [Keys -> [state : OutboxStates, turn : Turns \cup {NoTurn}]]
  <2> HIDE DEF k, lost
  <2>1. CASE lost
    BY ZenonT(60), <1>2, <1>3, <2>1 DEF TypeInv, TypeOK, OutboxStates
  <2>2. CASE ~lost
    BY <1>3, <2>2 DEF TypeInv, TypeOK
  <2> QED
    BY <2>1, <2>2
<1> QED
  BY <1>6, <1>7 DEF RecoverSending, TypeInv, TypeOK, remote

LEMMA RecoverUnsentType ==
  ASSUME TypeInv, RecoverUnsent
  PROVE  TypeInv'
<1> DEFINE q == proc[Recovery]
           k == Head(q.todo)[1]
           state == Head(q.todo)[2]
<1>0. Recovery \in Procs /\ Recovery \in Pool \cup {Recovery}
  BY KindsDiffer
<1>1. q.pc = "recover" /\ q \in Proc /\ Local(Recovery, q) /\ q.todo # <<>> /\ q.todo \in Seq(Keys \X OutboxStates)
  BY <1>0, ProcType DEF RecoverUnsent, Proc
<1>2. k \in Keys /\ state \in OutboxStates /\ Tail(q.todo) \in Seq(Keys \X OutboxStates)
  BY <1>1, TailType
<1>3. CASE /\ mutex' = Recovery
           /\ proc' = [proc EXCEPT ![Recovery] = [q EXCEPT !.pc = "lease", !.key = k, !.seen = state,
                                                    !.turn = NoTurn, !.todo = Tail(q.todo)]]
           /\ UNCHANGED outbox
  <2> DEFINE r == [q EXCEPT !.pc = "lease", !.key = k, !.seen = state, !.turn = NoTurn, !.todo = Tail(q.todo)]
  <2>1. r \in Proc /\ r.pc = "lease" /\ r.key = k /\ r.turn = NoTurn /\ r.todo = Tail(q.todo)
    BY <1>1, <1>2 DEF Proc, ProcStates, Delivering
  <2>2. proc' = [proc EXCEPT ![Recovery] = r]
    BY <1>3
  <2> HIDE DEF r
  <2>3. proc' \in [Procs -> Proc] /\ Processes'
    BY <1>0, <1>1, <2>1, <2>2, NextMessageLocal, ProcessStep
  <2> QED
    BY <1>0, <1>3, <2>3 DEF RecoverUnsent, TypeInv, TypeOK, remote
<1>4. CASE /\ SetOutbox(k, state, "failed", NoTurn) /\ proc' = [proc EXCEPT ![Recovery].todo = Tail(@)]
           /\ UNCHANGED mutex
  <2> DEFINE r == [q EXCEPT !.todo = Tail(@)]
  <2>1. r \in Proc /\ r.pc = q.pc /\ r.todo = Tail(q.todo)
    BY <1>1, <1>2 DEF Proc
  <2>2. proc' = [proc EXCEPT ![Recovery] = r]
    BY <1>4
  <2> HIDE DEF r
  <2>3. proc' \in [Procs -> Proc] /\ Processes'
    BY <1>0, <1>1, <2>1, <2>2, NextMessageLocal, ProcessStep
  <2>4. outbox' \in [Keys -> [state : OutboxStates, turn : Turns \cup {NoTurn}]]
    BY <1>2, <1>4, SetOutboxType DEF TypeInv, OutboxStates
  <2> QED
    BY <1>4, <2>3, <2>4 DEF RecoverUnsent, TypeInv, TypeOK, remote
<1>5. CASE Finish(Recovery) /\ UNCHANGED <<outbox, mutex>>
  BY <1>0, <1>5, FinishStep DEF RecoverUnsent, TypeInv, TypeOK, remote
<1> QED
  BY <1>3, <1>4, <1>5 DEF RecoverUnsent

LEMMA EndRecoveryType ==
  ASSUME TypeInv, EndRecovery
  PROVE  TypeInv'
  BY FinishStep, KindsDiffer DEF EndRecovery, TypeInv, TypeOK, store, remote
-----------------------------------------------------------------------------
(* The life of a task                                                      *)

AppServerTasks == \A t \in Tasks : rows[t].transport = "app_server"

Becomes(t, state, turn, error) ==
  rows'[t].status = state /\ rows'[t].turn = turn /\ rows'[t].error = error

\* What a step may do to a task: who may change its status, its turn or its
\* error, and from where.
TaskStep(t) ==
  LET row == rows[t] IN
  /\ rows'[t] \in Row
  /\ rows'[t].transport = row.transport
  /\ \/ Becomes(t, row.status, row.turn, row.error)
     \/ Enqueue(t) /\ row.status = "absent" /\ Becomes(t, "queued", row.turn, row.error)
     \/ Resume(t) /\ row.status = "awaiting_input" /\ Becomes(t, "resuming", NoTurn, "none")
     \/ /\ RetryOutput(t) /\ row.status = "failed" /\ row.error = "output_invalid" /\ row.turn \in Turns
        /\ Becomes(t, "resuming", row.turn, "none")
     \/ \E p \in Procs :
          /\ BindTask(p) /\ TaskOf(proc[p].key) = t /\ proc[p].turn \in Turns
          /\ row.status = IF IsResume(proc[p].key) THEN "resuming" ELSE "queued"
          /\ Becomes(t, "running", proc[p].turn, row.error)
     \/ \E p \in Requests :
          /\ BindReceipt(p) /\ p[2] = t /\ row.turn = NoTurn
          /\ Becomes(t, row.status, proc[p].turn, row.error)
     \/ /\ row.status \notin Finished \cup {"absent"}
        /\ \E end \in {"failed", "canceled", "interrupted"} : Becomes(t, end, row.turn, "other")
     \/ /\ row.status = "resuming" /\ row.turn \in Turns
        /\ \/ \E error \in Errors : Becomes(t, "failed", row.turn, error)
           \/ \E end \in {"awaiting_input", "completed"} : Becomes(t, end, row.turn, "none")
     \/ row.status = "running" /\ row.turn \in Turns /\ Becomes(t, "resuming", row.turn, row.error)
     \/ /\ Restart /\ row.status = "resuming" /\ row.turn \in Turns
        /\ Becomes(t, "running", row.turn, row.error)

TaskSteps == \A t \in Tasks : TaskStep(t)

LEMMA RowIn ==
  ASSUME TypeInv, NEW t \in Tasks
  PROVE  rows \in [Tasks -> Row] /\ rows[t] \in Row /\ rows[t].turn \in Turns \cup {NoTurn}
  BY DEF TypeInv, TypeOK, Row

LEMMA SameRows ==
  ASSUME TypeInv, rows' = rows
  PROVE  TaskSteps
  BY RowIn DEF TaskSteps, TaskStep, Becomes

\* A step that writes the row of one task.
LEMMA OneRow ==
  ASSUME TypeInv, NEW t \in Tasks, NEW row, rows' = [rows EXCEPT ![t] = row], TaskStep(t)
  PROVE  TaskSteps
<1>1. ASSUME NEW u \in Tasks, u # t PROVE TaskStep(u)
  <2>1. rows'[u] = rows[u] /\ rows[u] \in Row
    BY <1>1, RowIn
  <2> QED
    BY <2>1 DEF TaskStep, Becomes
<1> QED
  BY <1>1 DEF TaskSteps

\* A task that is not finished fails.
LEMMA EndsStep ==
  ASSUME TypeInv, NEW t \in Tasks, rows[t].status \notin Finished \cup {"absent"},
         rows' = [rows EXCEPT ![t] = FailTask(@)] \/ rows' = [rows EXCEPT ![t] = CancelTask(@)]
           \/ rows' = [rows EXCEPT ![t] = FailAppServerTurn(@)] \/ rows' = [rows EXCEPT ![t] = FailQueuedTask(@)]
  PROVE  TaskSteps
<1>1. PICK end \in {"failed", "canceled"} : \E row :
        rows' = [rows EXCEPT ![t] = row] /\ Written(row, rows[t], end, rows[t].turn, "other")
  BY RowIn, EndWrites
<1>2. PICK row : rows' = [rows EXCEPT ![t] = row] /\ Written(row, rows[t], end, rows[t].turn, "other")
  BY <1>1
<1>3. rows'[t] = row
  BY <1>2, RowIn
<1>4. TaskStep(t)
  BY <1>2, <1>3 DEF TaskStep, Becomes, Written
<1> QED
  BY <1>2, <1>4, OneRow

LEMMA FailIfLiveStep ==
  ASSUME TypeInv, NEW t, FailIfLive(t)
  PROVE  TaskSteps
<1>1. CASE t \notin Tasks
  <2>1. rows' = rows
    BY <1>1 DEF FailIfLive, TypeInv, TypeOK
  <2> QED
    BY <2>1, SameRows
<1>2. CASE t \in Tasks /\ CanFailTask(rows[t])
  BY <1>2, EndsStep DEF FailIfLive, CanFailTask
<1>3. CASE ~CanFailTask(rows[t])
  BY <1>3, SameRows DEF FailIfLive
<1> QED
  BY <1>1, <1>2, <1>3

LEMMA LiveIsNotFinished ==
  ASSUME NEW row, NEW x, OwnsLiveTurn(row, x)
  PROVE  row.status \notin Finished \cup {"absent"}
  BY DEF OwnsLiveTurn, Finished

LEMMA FailBoundTurnStep ==
  ASSUME TypeInv, NEW x, FailBoundTurn(x)
  PROVE  TaskSteps
<1>1. CASE BoundTo(x) # {} /\ OwnsLiveTurn(rows[BoundTask(x)], x)
  BY <1>1, BoundTaskIn, LiveIsNotFinished, EndsStep DEF FailBoundTurn
<1>2. CASE ~(BoundTo(x) # {} /\ OwnsLiveTurn(rows[BoundTask(x)], x))
  BY <1>2, SameRows DEF FailBoundTurn
<1> QED
  BY <1>1, <1>2

LEMMA PersistFailureStep ==
  ASSUME TypeInv, NEW t \in Tasks, NEW x, PersistFailure(t, x)
  PROVE  TaskSteps
<1>1. CASE OwnsLiveTurn(rows[t], x)
  BY <1>1, LiveIsNotFinished, EndsStep DEF PersistFailure
<1>2. CASE ~OwnsLiveTurn(rows[t], x)
  BY <1>2, SameRows DEF PersistFailure
<1> QED
  BY <1>1, <1>2

LEMMA EnqueueRows ==
  ASSUME TypeInv, NEW t \in Tasks, Enqueue(t)
  PROVE  TaskSteps
<1>1. rows' = [rows EXCEPT ![t] = AdmitQueuedTask(rows[t])] /\ rows[t].status = "absent"
  BY DEF Enqueue
<1>2. Written(AdmitQueuedTask(rows[t]), rows[t], "queued", rows[t].turn, rows[t].error)
  BY RowIn, ProgressWrites
<1>3. rows'[t] = AdmitQueuedTask(rows[t])
  BY <1>1, RowIn
<1>4. TaskStep(t)
  BY <1>1, <1>2, <1>3 DEF TaskStep, Becomes, Written
<1> QED
  BY <1>1, <1>4, OneRow

LEMMA ResumeRows ==
  ASSUME TypeInv, NEW t \in Tasks, Resume(t)
  PROVE  TaskSteps
<1>1. rows' = [rows EXCEPT ![t] = BeginAppServerResume(rows[t])] /\ rows[t].status = "awaiting_input"
  BY DEF Resume, CanBeginAppServerResume
<1>2. Written(BeginAppServerResume(rows[t]), rows[t], "resuming", NoTurn, "none")
  BY RowIn, ProgressWrites
<1>3. rows'[t] = BeginAppServerResume(rows[t])
  BY <1>1, RowIn
<1>4. TaskStep(t)
  BY <1>1, <1>2, <1>3 DEF TaskStep, Becomes, Written
<1> QED
  BY <1>1, <1>4, OneRow

LEMMA CancelRows ==
  ASSUME TypeInv, NEW t \in Tasks, Cancel(t)
  PROVE  TaskSteps
  BY EndsStep DEF Cancel, CanCancelTask

LEMMA BindTaskRows ==
  ASSUME TypeInv, AppServerTasks, NEW p \in Procs, BindTask(p)
  PROVE  TaskSteps
<1> DEFINE q == proc[p]
           t == TaskOf(q.key)
           mixed == \/ rows[t].status = "resuming" /\ ~IsResume(q.key)
                    \/ rows[t].status = "queued" /\ IsResume(q.key)
<1>1. t \in Tasks /\ q.turn \in Turns /\ rows[t] \in Row
  BY ProcType, TaskOfKey, RowIn DEF BindTask, Carries, AtTurn
<1>2. CASE UNCHANGED rows \/ FailIfLive(t)
  BY <1>2, SameRows, FailIfLiveStep
<1>3. CASE ~mixed /\ CanStartAppServerTurn(rows[t], q.turn) /\ rows' = [rows EXCEPT ![t] = StartAppServerTurn(@, q.turn)]
  <2>1. rows'[t] = StartAppServerTurn(rows[t], q.turn)
    BY <1>1, <1>3, RowIn
  <2>2. CASE TurnAlreadyStarted(rows[t], q.turn)
    <3>1. rows' = rows
      BY <1>1, <1>3, <2>2, RowIn, ProgressWrites
    <3> QED
      BY <3>1, SameRows
  <2>3. CASE ~TurnAlreadyStarted(rows[t], q.turn)
    <3>1. Written(StartAppServerTurn(rows[t], q.turn), rows[t], "running", q.turn, rows[t].error)
      BY <1>1, <2>3, ProgressWrites
    <3>2. rows[t].status = IF IsResume(q.key) THEN "resuming" ELSE "queued"
      BY <1>3, <2>3 DEF CanStartAppServerTurn
    <3>3. TaskStep(t)
      BY <1>1, <2>1, <3>1, <3>2 DEF TaskStep, Becomes, Written
    <3> QED
      BY <1>1, <1>3, <3>3, OneRow
  <2> QED
    BY <2>2, <2>3
<1> QED
  BY <1>2, <1>3 DEF BindTask

\* A request's key is that of its task.
LEMMA RequestKey ==
  ASSUME TypeInv, NEW p \in Requests, proc[p].pc # "idle"
  PROVE  /\ p \in Procs /\ p[2] \in Tasks /\ TaskOf(proc[p].key) = p[2]
         /\ proc[p].key = <<p[2], proc[p].key[2]>> /\ proc[p].key \in Keys \ Chats
         /\ IsResume(proc[p].key) <=> p[1] = "resume"
         /\ p[1] = "enqueue" \/ p[1] = "resume"
         /\ proc[p].key[2] \in IF p[1] = "enqueue" THEN {NoTurn} ELSE Turns
<1>1. p \in Procs /\ Carries(p, proc[p])
  BY KindsDiffer, ProcType
<1>2. p[2] \in Tasks /\ p[1] \in {"enqueue", "resume"}
  BY DEF Requests
<1>3. proc[p].key \in {p[2]} \X (IF p[1] = "enqueue" THEN {NoTurn} ELSE Turns)
  BY <1>1 DEF Carries
<1>4. proc[p].key \in Keys /\ proc[p].key \notin Chats
  BY <1>2, <1>3, KeysAssumption DEF Keys
<1> QED
  BY <1>1, <1>2, <1>3, <1>4, NoTurnAssumption DEF TaskOf, IsResume

LEMMA FailTaskDeliveryRows ==
  ASSUME TypeInv, NEW p \in Procs, FailTaskDelivery(p)
  PROVE  TaskSteps
  BY FailTaskDeliveryGoes, FailIfLiveStep, SameRows

LEMMA FailRowRows ==
  ASSUME TypeInv, NEW p \in Procs, FailRow(p)
  PROVE  TaskSteps
<1>1. p \in Requests /\ proc[p].pc # "idle"
  BY ProcType, KindsDiffer DEF FailRow, Kinds, Delivering
<1> DEFINE t == TaskOf(proc[p].key)
<1>2. t \in Tasks
  BY <1>1, RequestKey
<1>3. CASE FailIfLive(t)
  BY <1>3, FailIfLiveStep
<1>4. CASE CanFailQueuedTask(rows[t]) /\ rows' = [rows EXCEPT ![t] = FailQueuedTask(@)]
  BY <1>2, <1>4, EndsStep DEF CanFailQueuedTask, Finished
<1>5. CASE rows' = rows
  BY <1>5, SameRows
<1> QED
  BY <1>3, <1>4, <1>5 DEF FailRow

LEMMA BindReceiptRows ==
  ASSUME TypeInv, NEW p \in Procs, BindReceipt(p)
  PROVE  TaskSteps
<1>1. p \in Requests /\ proc[p].pc # "idle"
  BY ProcType, KindsDiffer DEF BindReceipt, Kinds, Delivering
<1> DEFINE t == TaskOf(proc[p].key)
<1>2. t \in Tasks /\ t = p[2] /\ rows[t] \in Row /\ proc[p].turn \in Turns \cup {NoTurn}
  BY <1>1, RequestKey, RowIn, ProcType DEF Proc
<1>3. CASE UNCHANGED rows \/ FailIfLive(t)
  BY <1>3, SameRows, FailIfLiveStep
<1>4. CASE rows[t].turn = NoTurn /\ rows' = [rows EXCEPT ![t].turn = proc[p].turn]
  <2>1. rows' = [rows EXCEPT ![t] = [rows[t] EXCEPT !.turn = proc[p].turn]]
    BY <1>4
  <2>2. rows'[t] = [rows[t] EXCEPT !.turn = proc[p].turn]
    BY <1>2, <2>1, RowIn
  <2>3. rows'[t] \in Row /\ rows'[t].transport = rows[t].transport
          /\ Becomes(t, rows[t].status, proc[p].turn, rows[t].error)
    BY <1>2, <2>2 DEF Row, Becomes
  <2>4. TaskStep(t)
    BY <1>1, <1>2, <1>4, <2>3 DEF TaskStep
  <2> QED
    BY <1>2, <2>1, <2>4, OneRow
<1> QED
  BY <1>3, <1>4 DEF BindReceipt

LEMMA NotifyFailureRows ==
  ASSUME TypeInv, NotifyFailure
  PROVE  TaskSteps
  BY FailBoundTurnStep DEF NotifyFailure

LEMMA FailTurnRows ==
  ASSUME TypeInv, NEW p \in Procs, FailTurn(p)
  PROVE  TaskSteps
  BY FailBoundTurnStep DEF FailTurn

LEMMA CompleteTurnRows ==
  ASSUME TypeInv, NEW p \in Procs, CompleteTurn(p)
  PROVE  TaskSteps
<1> DEFINE x == proc[p].turn
           t == BoundTask(x)
<1>1. CASE rows' = rows
  BY <1>1, SameRows
<1>2. CASE /\ BoundTo(x) # {} /\ rows[t].status = "running"
           /\ rows' = [rows EXCEPT ![t] = ClaimAppServerResult(rows[t])]
  <2>1. t \in Tasks /\ rows[t].turn = x /\ rows[t] \in Row
    BY <1>2, BoundTaskIn, RowIn
  <2>2. x \in Turns
    BY ProcType DEF CompleteTurn, Carries, AtTurn, AtEnd
  <2>3. rows'[t] = ClaimAppServerResult(rows[t])
    BY <1>2, <2>1, RowIn
  <2>4. Written(ClaimAppServerResult(rows[t]), rows[t], "resuming", rows[t].turn, rows[t].error)
    BY <2>1, ProgressWrites
  <2>5. TaskStep(t)
    BY <1>2, <2>1, <2>2, <2>3, <2>4 DEF TaskStep, Becomes, Written
  <2> QED
    BY <1>2, <2>1, <2>5, OneRow
<1> QED
  BY <1>1, <1>2 DEF CompleteTurn

LEMMA RetryOutputRows ==
  ASSUME TypeInv, AppServerTasks, NEW t \in Tasks, RetryOutput(t)
  PROVE  TaskSteps
<1>1. /\ rows' = [rows EXCEPT ![t] = ClaimOutputInvalidRetry(rows[t])]
      /\ rows[t].status = "failed" /\ rows[t].error = "output_invalid" /\ rows[t].turn \in Turns
      /\ rows[t].transport = "app_server" /\ rows[t] \in Row
  BY RowIn DEF RetryOutput, CanClaimOutputInvalidRetry, AppServerTasks
<1>2. Written(ClaimOutputInvalidRetry(rows[t]), rows[t], "resuming", rows[t].turn, "none")
  BY <1>1, ProgressWrites
<1>3. rows'[t] = ClaimOutputInvalidRetry(rows[t])
  BY <1>1, RowIn
<1>4. TaskStep(t)
  BY <1>1, <1>2, <1>3 DEF TaskStep, Becomes, Written
<1> QED
  BY <1>1, <1>4, OneRow

\* A process that has a result at hand has the task's turn as well: its claim
\* names a turn, and holds only while the task is in it.
LEMMA ValidatorHolds ==
  ASSUME TypeInv, NEW p \in Procs, proc[p].pc \in {"result", "write"}
  PROVE  /\ TaskOf(proc[p].key) \in Tasks /\ proc[p].turn \in Turns /\ rows[TaskOf(proc[p].key)] \in Row
         /\ HoldsResultClaim(rows[TaskOf(proc[p].key)], proc[p].turn) =>
              /\ rows[TaskOf(proc[p].key)].status = "resuming"
              /\ rows[TaskOf(proc[p].key)].turn = proc[p].turn
<1>1. proc[p].key \in Tasks \X {NoTurn} /\ proc[p].turn \in Turns
  BY ProcType DEF Carries, AtTurn, AtEnd
<1> QED
  BY <1>1, RowIn, NoTurnAssumption DEF TaskOf, HoldsResultClaim

LEMMA ResultRejectedRows ==
  ASSUME TypeInv, NEW p \in Procs, ResultRejected(p)
  PROVE  TaskSteps
<1> DEFINE t == TaskOf(proc[p].key)
           q == proc[p]
<1>1. t \in Tasks /\ q.turn \in Turns /\ rows[t] \in Row
  BY ValidatorHolds DEF ResultRejected
<1>2. CASE PersistFailure(t, q.turn)
  BY <1>1, <1>2, PersistFailureStep
<1>3. CASE ~PersistFailure(t, q.turn)
  <2>1. PICK error \in Errors : rows' = [rows EXCEPT ![t] = WriteFailure(rows[t], q.v, error)]
    BY <1>3 DEF ResultRejected, Errors
  <2>2. rows[t].status = "resuming" /\ rows[t].turn = q.turn
    BY <1>3, ValidatorHolds DEF ResultRejected, CanWriteFailure
  <2>3. Written(WriteFailure(rows[t], q.v, error), rows[t], "failed", rows[t].turn, error)
    BY <1>1, EndWrites
  <2>4. rows'[t] = WriteFailure(rows[t], q.v, error)
    BY <1>1, <2>1, RowIn
  <2>5. TaskStep(t)
    BY <1>1, <2>2, <2>3, <2>4 DEF TaskStep, Becomes, Written
  <2> QED
    BY <1>1, <2>1, <2>5, OneRow
<1> QED
  BY <1>2, <1>3

LEMMA ResultAcceptedRows ==
  ASSUME TypeInv, NEW p \in Procs, ResultAccepted(p)
  PROVE  TaskSteps
<1> DEFINE t == TaskOf(proc[p].key)
           q == proc[p]
<1>1. t \in Tasks /\ rows[t] \in Row
  BY ValidatorHolds DEF ResultAccepted
<1>2. CASE PersistFailure(t, q.turn)
  BY <1>1, <1>2, PersistFailureStep
<1>3. CASE rows' = [rows EXCEPT ![t] = BeginAssetCommit(rows[t], q.v)]
  <2>1. Written(BeginAssetCommit(rows[t], q.v), rows[t], rows[t].status, rows[t].turn, rows[t].error)
    BY <1>1, PhaseWrites
  <2>2. rows'[t] = BeginAssetCommit(rows[t], q.v)
    BY <1>1, <1>3, RowIn
  <2>3. TaskStep(t)
    BY <2>1, <2>2 DEF TaskStep, Becomes, Written
  <2> QED
    BY <1>1, <1>3, <2>3, OneRow
<1> QED
  BY <1>2, <1>3 DEF ResultAccepted

LEMMA WriteResultRows ==
  ASSUME TypeInv, NEW p \in Procs, WriteResult(p)
  PROVE  TaskSteps
<1> DEFINE t == TaskOf(proc[p].key)
           q == proc[p]
<1>1. t \in Tasks /\ q.turn \in Turns /\ rows[t] \in Row /\ q.outcome \in {"awaiting_input", "completed"}
  BY ValidatorHolds, ProcType DEF WriteResult, Proc
<1>2. CASE PersistFailure(t, q.turn)
  BY <1>1, <1>2, PersistFailureStep
<1>3. CASE CanWriteSuccess(rows[t], q.v, q.turn) /\ rows' = [rows EXCEPT ![t] = WriteSuccess(rows[t], q.v, q.outcome)]
  <2>1. rows[t].status = "resuming" /\ rows[t].turn = q.turn
    BY <1>3, ValidatorHolds DEF WriteResult, CanWriteSuccess
  <2>2. Written(WriteSuccess(rows[t], q.v, q.outcome), rows[t], q.outcome, rows[t].turn, "none")
    BY <1>1, EndWrites
  <2>3. rows'[t] = WriteSuccess(rows[t], q.v, q.outcome)
    BY <1>1, <1>3, RowIn
  <2>4. TaskStep(t)
    BY <1>1, <2>1, <2>2, <2>3 DEF TaskStep, Becomes, Written
  <2> QED
    BY <1>1, <1>3, <2>4, OneRow
<1> QED
  BY <1>2, <1>3 DEF WriteResult

LEMMA SweepFailedRows ==
  ASSUME TypeInv, NEW p \in Procs, SweepFailed(p)
  PROVE  TaskSteps
  BY FailIfLiveStep, SameRows DEF SweepFailed

LEMMA RestartRows ==
  ASSUME TypeInv, Restart
  PROVE  TaskSteps
<1> SUFFICES ASSUME NEW t \in Tasks PROVE TaskStep(t)
  BY DEF TaskSteps
<1> DEFINE row == rows[t]
           new == InterruptInFlight(row, HasOpenInbox(row.turn), HasUnsent(t))
<1>1. row \in Row /\ row.turn \in Turns \cup {NoTurn} /\ rows'[t] = new
  BY RowIn DEF Restart
<1>2. HasOpenInbox(row.turn) \in BOOLEAN /\ HasUnsent(t) \in BOOLEAN
  BY DEF HasOpenInbox, HasUnsent
<1>3. /\ new \in Row /\ new.transport = row.transport /\ new.turn = row.turn
      /\ row.status \notin {"running", "resuming"} => new = row
      /\ row.status \in {"running", "resuming"} => new.status \in {"running", "resuming", "interrupted"}
      /\ new.status = "running" /\ row.status = "resuming" => row.turn # NoTurn
      /\ new.status = "resuming" => new = row
      /\ new.status = "interrupted" /\ row.status # "interrupted" => new.error = "other"
      /\ new.status # "interrupted" => new.error = row.error
  BY <1>1, <1>2, RestartWrites
<1> HIDE DEF new
<1>4. "interrupted" \in Finished /\ {"running", "resuming"} \cap (Finished \cup {"absent"}) = {}
  BY DEF Finished
<1>5. CASE row.status \in {"running", "resuming"} /\ new.status = "interrupted"
  BY <1>1, <1>3, <1>4, <1>5 DEF TaskStep, Becomes
<1>6. CASE new.status = row.status /\ new.error = row.error
  BY <1>1, <1>3, <1>6 DEF TaskStep, Becomes
<1>7. CASE row.status = "resuming" /\ new.status = "running"
  BY <1>1, <1>3, <1>7 DEF TaskStep, Becomes
<1> QED
  BY <1>3, <1>5, <1>6, <1>7
\* The initial state.
LEMMA InitType ==
  ASSUME Init
  PROVE  TypeInv /\ AppServerTasks
<1>1. AbsentRow("app_server") \in Row
  BY AbsentRowType DEF Transports
<1>2. AbsentRow("app_server").transport = "app_server"
  BY DEF AbsentRow
<1>3. rows \in [Tasks -> Row] /\ AppServerTasks
  BY <1>1, <1>2 DEF Init, AppServerTasks
<1>4. proc \in [Procs -> Proc] /\ Processes
  BY IdleLocal DEF Init, Processes
<1>5. restarts \in 0..MaxRestart
  BY BoundsAssumption DEF Init
<1>6. /\ outbox \in [Keys -> [state : OutboxStates, turn : Turns \cup {NoTurn}]]
      /\ created \in Seq(Keys)
  BY DEF Init, OutboxStates
<1>7. /\ turnRow \in [Turns -> {"none", "running", "completed", "failed"}]
      /\ inbox \in [Turns -> {"none", "pending", "processing", "done"}]
      /\ server \in [Turns -> ServerStates] /\ starter \in [Turns -> Keys \cup {None}]
      /\ sent \in [Keys -> Nat] /\ epoch \subseteq Turns
  BY DEF Init, ServerStates
<1> QED
  BY <1>3, <1>4, <1>5, <1>6, <1>7 DEF Init, TypeInv, TypeOK

\* Every step of the broker is one of its actions, and keeps the types.
LEMMA NextType ==
  ASSUME TypeInv, AppServerTasks, [Next]_vars
  PROVE  TypeInv'
<1>1. CASE UNCHANGED vars
  BY <1>1 DEF vars, store, remote, TypeInv, TypeOK, Processes
<1>2. ASSUME NEW c \in Clients, Send(c) \/ Deliver(c) PROVE TypeInv'
  BY <1>2, SendType, DeliverType
<1>3. ASSUME NEW t \in Tasks, Enqueue(t) \/ Resume(t) \/ Cancel(t) \/ RetryOutput(t) PROVE TypeInv'
  BY <1>3, EnqueueType, ResumeType, CancelType, RetryOutputType DEF AppServerTasks
<1>4. ASSUME NEW p \in Procs, Step(p) PROVE TypeInv'
  BY <1>4,
     SendTaskType, DeliverTaskType, AcquireLeaseType, MarkSendingType, DecideType,
     SteerAcceptedType, SteerStaleType, StartAcceptedType, CallRefusedType, ThreadMissingType,
     RecordTurnType, AcceptType, MarkRunningType, BindTaskType, RefuseType, FailDeliveryType,
     FailTaskDeliveryType, FailRowType, BindReceiptType, CheckType, CompleteTurnType,
     ResultRejectedType, ResultAcceptedType, WriteResultType, FailTurnType, RetryCompletionType,
     CloseTurnType, CloseStatusType, CompleteCompletionType, ListPendingType, NextPendingType,
     ListFailedType, SweepFailedType
  DEF Step
<1>5. ASSUME NEW w \in Workers, NEW x \in Turns, Claim(w, x) PROVE TypeInv'
  BY <1>5, ClaimType
<1>6. ASSUME NEW x \in Turns, ServerEnds(x) \/ RequeueStale(x) PROVE TypeInv'
  BY <1>6, ServerEndsType, RequeueStaleType
<1>7. CASE Notifying
  BY <1>7, NotifyType, NotifyFailureType, PersistCompletionType DEF Notifying
<1>8. CASE Recovering
  BY <1>8, ResetProcessingType, InterruptTurnsType, ListRecoverableType, RecoverSendingType,
     RecoverUnsentType, EndRecoveryType DEF Recovering
<1>9. CASE ExpireLease \/ Restart
  BY <1>9, ExpireLeaseType, RestartType
<1> QED
  BY <1>1, <1>2, <1>3, <1>4, <1>5, <1>6, <1>7, <1>8, <1>9 DEF Next

\* Every step of the broker takes every task one step through its life.
LEMMA NextRows ==
  ASSUME TypeInv, AppServerTasks, [Next]_vars
  PROVE  TaskSteps
<1>1. CASE UNCHANGED vars
  BY <1>1, SameRows DEF vars, store
<1>2. ASSUME NEW c \in Clients, Send(c) \/ Deliver(c) PROVE TaskSteps
  BY <1>2, SameRows DEF Send, Deliver, store
<1>3. ASSUME NEW t \in Tasks, Enqueue(t) \/ Resume(t) \/ Cancel(t) \/ RetryOutput(t) PROVE TaskSteps
  BY <1>3, EnqueueRows, ResumeRows, CancelRows, RetryOutputRows
<1>4. ASSUME NEW p \in Procs, Step(p) PROVE TaskSteps
  <2>1. CASE BindTask(p) \/ FailTaskDelivery(p) \/ FailRow(p) \/ BindReceipt(p) \/ CompleteTurn(p)
             \/ ResultRejected(p) \/ ResultAccepted(p) \/ WriteResult(p) \/ FailTurn(p) \/ SweepFailed(p)
    BY <2>1,
       BindTaskRows, FailTaskDeliveryRows, FailRowRows, BindReceiptRows, CompleteTurnRows,
       ResultRejectedRows, ResultAcceptedRows, WriteResultRows, FailTurnRows, SweepFailedRows
  <2>2. CASE ~(BindTask(p) \/ FailTaskDelivery(p) \/ FailRow(p) \/ BindReceipt(p) \/ CompleteTurn(p)
               \/ ResultRejected(p) \/ ResultAccepted(p) \/ WriteResult(p) \/ FailTurn(p) \/ SweepFailed(p))
    <3>1. rows' = rows
      BY <1>4, <2>2
      DEF Step, store,
          SendTask, DeliverTask, AcquireLease, MarkSending, Decide, SteerAccepted, SteerStale,
          StartAccepted, CallRefused, ThreadMissing, RecordTurn, Accept, MarkRunning, Refuse,
          FailDelivery, Check, RetryCompletion, CloseTurn, CloseStatus, CompleteCompletion,
          ListPending, NextPending, ListFailed
    <3> QED
      BY <3>1, SameRows
  <2> QED
    BY <2>1, <2>2
<1>5. ASSUME NEW w \in Workers, NEW x \in Turns, Claim(w, x) PROVE TaskSteps
  BY <1>5, SameRows DEF Claim
<1>6. ASSUME NEW x \in Turns, ServerEnds(x) \/ RequeueStale(x) PROVE TaskSteps
  BY <1>6, SameRows DEF ServerEnds, RequeueStale, store
<1>7. CASE Notifying
  BY <1>7, NotifyFailureRows, SameRows DEF Notifying, Notify, PersistCompletion, store
<1>8. CASE Recovering
  BY <1>8, SameRows DEF Recovering, ResetProcessing, InterruptTurns, ListRecoverable, RecoverSending,
     RecoverUnsent, EndRecovery, store
<1>9. CASE ExpireLease \/ Restart
  BY <1>9, SameRows, RestartRows DEF ExpireLease, store
<1> QED
  BY <1>1, <1>2, <1>3, <1>4, <1>5, <1>6, <1>7, <1>8, <1>9 DEF Next

\* The types are an invariant of the specification.
LEMMA TypeInvariant == Spec => [](TypeInv /\ AppServerTasks)
<1>1. Init => TypeInv /\ AppServerTasks
  BY InitType
<1>2. TypeInv /\ AppServerTasks /\ [Next]_vars => (TypeInv /\ AppServerTasks)'
  <2> SUFFICES ASSUME TypeInv, AppServerTasks, [Next]_vars PROVE (TypeInv /\ AppServerTasks)'
    OBVIOUS
  <2>1. TypeInv' /\ TaskSteps
    BY NextType, NextRows
  <2> QED
    BY <2>1 DEF AppServerTasks, TaskSteps, TaskStep
<1> QED
  BY <1>1, <1>2, PTL DEF Spec

\* The store, the processes and the App Server are well typed in every
\* reachable state (TypeOK), whatever requests, workers and restarts do.
THEOREM TypeCorrect == Spec => []TypeOK
<1>1. TypeInv => TypeOK
  BY DEF TypeInv
<1> QED
  BY <1>1, TypeInvariant, PTL

\* A finished task stays as it is in every step; only the validation of a
\* retained output reopens one, and only one that failed with such an output
\* (the status checks of tasks.go).
THEOREM FinishedStays == Spec => FinishedIsFinal
<1>1. TypeInv /\ AppServerTasks /\ [Next]_vars => [KeepsFinished]_vars
  <2> SUFFICES ASSUME TypeInv, AppServerTasks, [Next]_vars PROVE KeepsFinished
    OBVIOUS
  <2> SUFFICES ASSUME NEW t \in Tasks, rows[t].status \in Finished
               PROVE  \/ rows'[t].status = rows[t].status
                      \/ rows[t].status = "failed" /\ rows[t].error = "output_invalid" /\ RetryOutput(t)
    BY DEF KeepsFinished
  <2>1. TaskStep(t)
    BY NextRows DEF TaskSteps
  <2> QED
    BY <2>1 DEF TaskStep, Becomes, Finished
<1> QED
  BY <1>1, TypeInvariant, PTL DEF Spec, FinishedIsFinal

-----------------------------------------------------------------------------
(* The critical section                                                    *)

\* Where a process is in the critical section of the conversation.
Holds(p, r) ==
  \/ r.pc \in Delivering
  \/ p \in Pool /\ r.pc \in {"failOutbox", "failTask", "after", "sweep", "closeStatus"}

Locked == \A p \in Procs : Holds(p, proc[p]) => mutex = p

\* A step of one process and what it does with the mutex.
OneMoves(p) ==
  /\ \A q \in Procs \ {p} : proc'[q] = proc[q]
  /\ \/ mutex' = mutex /\ (Holds(p, proc'[p]) => Holds(p, proc[p]))
     \/ mutex = None /\ mutex' = p
     \/ mutex' = None /\ ~Holds(p, proc'[p]) /\ (mutex = p \/ Holds(p, proc[p]))

\* Where a delivery has left the queue and not yet returned to its caller.
Calling == {"decide", "steer", "resteer", "start", "restart", "record", "accept", "status", "bindTask"}

\* The steps that do not touch a turn: no process begins or ends a call in them.
Offstage ==
  /\ UNCHANGED <<turnRow, server, starter, sent, epoch>>
  /\ \/ UNCHANGED <<proc, mutex>>
     \/ \E p \in Procs : OneMoves(p) /\ proc[p].pc \notin Calling /\ proc'[p].pc \notin Calling

\* One process gets a new state, and the others keep theirs.
LEMMA MovesTo ==
  ASSUME TypeInv, NEW p \in Procs, NEW r, proc' = [proc EXCEPT ![p] = r]
  PROVE  proc'[p] = r /\ \A q \in Procs \ {p} : proc'[q] = proc[q]
  BY DEF TypeInv, TypeOK

LEMMA IdleHolds ==
  ASSUME NEW p \in Procs
  PROVE  Idle.pc = "idle" /\ ~Holds(p, Idle) /\ Idle.pc \notin Calling
  BY DEF Idle, Holds, Delivering, Calling

LEMMA FinishMoves ==
  ASSUME TypeInv, NEW p \in Procs, Finish(p)
  PROVE  proc'[p] = Idle /\ \A q \in Procs \ {p} : proc'[q] = proc[q]
  BY MovesTo DEF Finish

LEMMA GotoMoves ==
  ASSUME TypeInv, NEW p \in Procs, NEW pc, Goto(p, pc)
  PROVE  /\ proc'[p] = [proc[p] EXCEPT !.pc = pc] /\ proc'[p].pc = pc
         /\ proc'[p].key = proc[p].key /\ proc'[p].turn = proc[p].turn /\ proc'[p].todo = proc[p].todo
         /\ proc'[p].seen = proc[p].seen
         /\ \A q \in Procs \ {p} : proc'[q] = proc[q]
<1>1. proc' = [proc EXCEPT ![p] = [proc[p] EXCEPT !.pc = pc]] /\ proc[p] \in Proc
  BY ProcType DEF Goto
<1>2. proc'[p] = [proc[p] EXCEPT !.pc = pc] /\ \A q \in Procs \ {p} : proc'[q] = proc[q]
  BY <1>1, MovesTo
<1> QED
  BY <1>1, <1>2 DEF Proc

\* Where a delivery leaves its process.
LEMMA ExitMoves ==
  ASSUME TypeInv, NEW p \in Procs, NEW ok \in BOOLEAN, proc[p].pc \in Delivering, mutex = p, Exit(p, ok)
  PROVE  /\ OneMoves(p) /\ mutex' = IF p \in Pool /\ ~ok THEN p ELSE None
         /\ \/ proc'[p] = Idle
            \/ /\ ok /\ p \in Requests /\ proc[p].turn # NoTurn
               /\ proc'[p].pc = "bind" /\ proc'[p].key = proc[p].key /\ proc'[p].turn = proc[p].turn
               /\ proc'[p].todo = proc[p].todo
            \/ /\ ~ok /\ p \notin Senders
               /\ proc'[p].pc = "failOutbox" /\ proc'[p].key = proc[p].key
               /\ proc'[p].todo = IF p = Recovery THEN <<>> ELSE proc[p].todo
<1> DEFINE r == AfterDelivery(p, ok)
<1>1. proc[p] \in Proc /\ p \in Senders \cup Requests \cup Pool \cup {Recovery}
  BY ProcType, KindsDiffer DEF Kinds, Delivering
<1>2. proc'[p] = r /\ \A q \in Procs \ {p} : proc'[q] = proc[q]
  BY MovesTo DEF Exit
<1>3. /\ \/ r = Idle
         \/ /\ ok /\ p \in Requests /\ proc[p].turn # NoTurn
            /\ r.pc = "bind" /\ r.key = proc[p].key /\ r.turn = proc[p].turn
            /\ r.todo = proc[p].todo
         \/ /\ ~ok /\ p \notin Senders
            /\ r.pc = "failOutbox" /\ r.key = proc[p].key
            /\ r.todo = IF p = Recovery THEN <<>> ELSE proc[p].todo
      /\ p \in Pool /\ ok => r = Idle
  <2>1. CASE p \in Senders
    BY <2>1, KindsDiffer DEF AfterDelivery
  <2>2. CASE p \in Requests
    <3>1. CASE ok /\ proc[p].turn = NoTurn
      BY <2>2, <3>1, KindsDiffer DEF AfterDelivery
    <3>2. CASE ok /\ proc[p].turn # NoTurn
      <4>1. r = [proc[p] EXCEPT !.pc = "bind"]
        BY <2>2, <3>2, KindsDiffer DEF AfterDelivery
      <4> QED
        BY <1>1, <2>2, <3>2, <4>1, KindsDiffer DEF Proc
    <3>3. CASE ~ok
      <4>1. r = [proc[p] EXCEPT !.pc = "failOutbox"]
        BY <2>2, <3>3, KindsDiffer DEF AfterDelivery
      <4> QED
        BY <1>1, <2>2, <3>3, <4>1, KindsDiffer DEF Proc
    <3> QED
      BY <3>1, <3>2, <3>3
  <2>3. CASE p \in Pool
    <3>1. CASE ok
      BY <2>3, <3>1, KindsDiffer DEF AfterDelivery
    <3>2. CASE ~ok
      <4>1. r = [proc[p] EXCEPT !.pc = "failOutbox"]
        BY <2>3, <3>2, KindsDiffer DEF AfterDelivery
      <4> QED
        BY <1>1, <2>3, <3>2, <4>1, KindsDiffer DEF Proc
    <3> QED
      BY <3>1, <3>2
  <2>4. CASE p = Recovery
    <3>1. CASE ok \/ ~IsFormal(proc[p].key)
      <4>1. r = Idle
        BY <2>4, <3>1, KindsDiffer DEF AfterDelivery
      <4> QED
        BY <2>4, <4>1
    <3>2. CASE ~(ok \/ ~IsFormal(proc[p].key))
      <4>1. r = [proc[p] EXCEPT !.pc = "failOutbox", !.todo = <<>>]
        BY <2>4, <3>2, KindsDiffer DEF AfterDelivery
      <4>2. r.pc = "failOutbox" /\ r.key = proc[p].key /\ r.todo = <<>>
        BY <1>1, <4>1 DEF Proc
      <4> QED
        BY <2>4, <3>2, <4>2, KindsDiffer
    <3> QED
      BY <3>1, <3>2
  <2> QED
    BY <1>1, <2>1, <2>2, <2>3, <2>4
<1> HIDE DEF r
<1>4. mutex' = IF p \in Pool /\ ~ok THEN p ELSE None
  BY DEF Exit
<1>5. Holds(p, proc[p])
  BY DEF Holds
<1>6. ~(p \in Pool /\ ~ok) => ~Holds(p, r)
  BY <1>3, IdleHolds DEF Holds, Delivering
<1> QED
  BY <1>2, <1>3, <1>4, <1>5, <1>6 DEF OneMoves
\* A process that is outside the conversation before and after its step.
LEMMA OutsideMoves ==
  ASSUME TypeInv, NEW p \in Procs, mutex' = mutex, \A q \in Procs \ {p} : proc'[q] = proc[q],
         ~Holds(p, proc'[p]) \/ Holds(p, proc[p])
  PROVE  OneMoves(p)
  BY DEF OneMoves

LEMMA OffstageFinish ==
  ASSUME TypeInv, NEW p \in Procs, Finish(p), mutex' = mutex, proc[p].pc \notin Calling,
         UNCHANGED <<turnRow, server, starter, sent, epoch>>
  PROVE  Offstage
<1>1. OneMoves(p) /\ proc'[p].pc \notin Calling
  BY FinishMoves, IdleHolds, OutsideMoves
<1> QED
  BY <1>1 DEF Offstage

LEMMA OffstageGoto ==
  ASSUME TypeInv, NEW p \in Procs, NEW pc, Goto(p, pc), mutex' = mutex,
         proc[p].pc \notin Calling, pc \notin Calling,
         pc \notin Delivering,
         p \in Pool /\ pc \in {"failOutbox", "failTask", "after", "sweep", "closeStatus"} =>
           proc[p].pc \in {"failOutbox", "failTask", "after", "sweep", "closeStatus"},
         UNCHANGED <<turnRow, server, starter, sent, epoch>>
  PROVE  Offstage
<1>1. proc'[p].pc = pc /\ \A q \in Procs \ {p} : proc'[q] = proc[q]
  BY GotoMoves
<1>2. ~Holds(p, proc'[p]) \/ Holds(p, proc[p])
  BY <1>1 DEF Holds
<1>3. OneMoves(p)
  BY <1>1, <1>2, OutsideMoves
<1> QED
  BY <1>1, <1>3 DEF Offstage

\* A process that begins something outside the conversation.
LEMMA OffstageBegins ==
  ASSUME TypeInv, NEW p \in Procs, NEW r \in Proc, proc' = [proc EXCEPT ![p] = r], mutex' = mutex,
         proc[p].pc \notin Calling, r.pc \notin Delivering,
         p \in Pool /\ r.pc \in {"failOutbox", "failTask", "after", "sweep", "closeStatus"} => Holds(p, proc[p]),
         UNCHANGED <<turnRow, server, starter, sent, epoch>>
  PROVE  Offstage
<1>1. proc'[p] = r /\ \A q \in Procs \ {p} : proc'[q] = proc[q]
  BY MovesTo
<1>2. ~Holds(p, proc'[p]) \/ Holds(p, proc[p])
  BY <1>1 DEF Holds
<1>3. OneMoves(p)
  BY <1>1, <1>2, OutsideMoves
<1>4. r.pc \notin Calling
  BY DEF Calling, Delivering
<1> QED
  BY <1>1, <1>3, <1>4 DEF Offstage

\* A process that enters the critical section.
LEMMA OffstageEnters ==
  ASSUME TypeInv, NEW p \in Procs, NEW r \in Proc, proc' = [proc EXCEPT ![p] = r], mutex = None, mutex' = p,
         proc[p].pc \notin Calling, r.pc \notin Calling,
         UNCHANGED <<turnRow, server, starter, sent, epoch>>
  PROVE  Offstage
<1>1. proc'[p] = r /\ \A q \in Procs \ {p} : proc'[q] = proc[q]
  BY MovesTo
<1>2. OneMoves(p)
  BY <1>1 DEF OneMoves
<1> QED
  BY <1>1, <1>2 DEF Offstage

\* The requests: each begins, waits for the mutex, or is done.
LEMMA OffstageRequests ==
  ASSUME TypeInv, TypeInv', NEW p \in Procs
  PROVE  /\ \A c \in Clients : Send(c) \/ Deliver(c) => Offstage
         /\ \A t \in Tasks : Enqueue(t) \/ Resume(t) \/ Cancel(t) \/ RetryOutput(t) => Offstage
         /\ SendTask(p) \/ DeliverTask(p) \/ FailRow(p) \/ BindReceipt(p) => Offstage
<1>0. proc \in [Procs -> Proc] /\ proc' \in [Procs -> Proc] /\ None \notin Procs
  BY NoneAssumption DEF TypeInv, TypeOK
<1>1. ASSUME NEW c \in Clients, Send(c) PROVE Offstage
  <2> DEFINE r == [Idle EXCEPT !.pc = "lock", !.key = ChatOf[c]]
             x == <<"client", c>>
  <2>1. x \in Procs /\ x \notin Pool /\ r.pc = "lock"
    BY KindsDiffer DEF Senders, Idle
  <2>2. CASE proc' = proc
    BY <1>1, <2>2 DEF Send, Offstage, remote
  <2>3. CASE proc' = [proc EXCEPT ![x] = r]
    <3>1. r \in Proc
      BY <1>0, <2>1, <2>3, MovesTo
    <3> HIDE DEF r
    <3> QED
      BY <1>1, <2>1, <2>3, <3>1, OffstageBegins DEF Send, Calling, Delivering, remote
  <2> QED
    BY <1>1, <2>2, <2>3 DEF Send
<1>2. ASSUME NEW c \in Clients, Deliver(c) PROVE Offstage
  <2> DEFINE x == <<"client", c>>
             r == [proc[x] EXCEPT !.pc = "lease", !.seen = outbox[proc[x].key].state]
  <2>1. x \in Procs /\ proc[x] \in Proc
    BY <1>0, KindsDiffer DEF Senders
  <2>2. CASE Finish(x) /\ UNCHANGED mutex
    BY <1>2, <2>1, <2>2, OffstageFinish DEF Deliver, Calling, store, remote
  <2>3. CASE mutex' = x /\ proc' = [proc EXCEPT ![x] = r]
    <3>1. r \in Proc /\ r.pc = "lease"
      BY <1>0, <2>1, <2>3, MovesTo DEF Proc
    <3> HIDE DEF r
    <3> QED
      BY <1>2, <2>1, <2>3, <3>1, OffstageEnters DEF Deliver, Calling, store, remote
  <2> QED
    BY <1>2, <2>2, <2>3 DEF Deliver
<1>3. ASSUME NEW t \in Tasks, Enqueue(t) PROVE Offstage
  <2> DEFINE x == <<"enqueue", t>>
             r == [Idle EXCEPT !.pc = "send", !.key = <<t, NoTurn>>]
  <2>1. x \in Procs /\ x \notin Pool /\ r.pc = "send" /\ proc' = [proc EXCEPT ![x] = r]
    BY <1>3, KindsDiffer DEF Requests, Enqueue, Idle
  <2>2. r \in Proc
    BY <1>0, <2>1, MovesTo
  <2> HIDE DEF r
  <2> QED
    BY <1>3, <2>1, <2>2, OffstageBegins DEF Enqueue, Calling, Delivering, remote
<1>4. ASSUME NEW t \in Tasks, Resume(t) PROVE Offstage
  <2> DEFINE x == <<"resume", t>>
             r == [Idle EXCEPT !.pc = "send", !.key = <<t, rows[t].turn>>]
  <2>1. x \in Procs /\ x \notin Pool /\ r.pc = "send" /\ proc' = [proc EXCEPT ![x] = r]
    BY <1>4, KindsDiffer DEF Requests, Resume, Idle
  <2>2. r \in Proc
    BY <1>0, <2>1, MovesTo
  <2> HIDE DEF r
  <2> QED
    BY <1>4, <2>1, <2>2, OffstageBegins DEF Resume, Calling, Delivering, remote
<1>5. ASSUME NEW t \in Tasks, Cancel(t) PROVE Offstage
  BY <1>5 DEF Cancel, Offstage, remote
<1>6. ASSUME NEW t \in Tasks, RetryOutput(t) PROVE Offstage
  <2> DEFINE x == <<"retry", t>>
             r == [Idle EXCEPT !.pc = "result", !.turn = rows[t].turn, !.v = ValidationAttempt(rows[t]),
                               !.key = <<t, NoTurn>>]
  <2>1. x \in Procs /\ x \notin Pool /\ r.pc = "result" /\ proc' = [proc EXCEPT ![x] = r]
    BY <1>6, KindsDiffer DEF Retries, RetryOutput, Idle
  <2>2. r \in Proc
    BY <1>0, <2>1, MovesTo
  <2> HIDE DEF r
  <2> QED
    BY <1>6, <2>1, <2>2, OffstageBegins DEF RetryOutput, Calling, Delivering, remote
<1>7. ASSUME SendTask(p) PROVE Offstage
  <2> DEFINE r == [proc[p] EXCEPT !.pc = "bind", !.turn = outbox[proc[p].key].turn]
  <2>0. p \notin Pool /\ proc[p] \in Proc
    BY <1>7, <1>0, ProcType, KindsDiffer DEF SendTask, Kinds, Delivering
  <2>1. CASE Finish(p)
    BY <1>7, <2>1, OffstageFinish DEF SendTask, Calling, remote
  <2>2. CASE Goto(p, "lock") \/ Goto(p, "failOutbox")
    BY <1>7, <2>0, <2>2, OffstageGoto DEF SendTask, Calling, Delivering, remote
  <2>3. CASE proc' = [proc EXCEPT ![p] = r]
    <3>1. r \in Proc /\ r.pc = "bind"
      BY <1>0, <2>0, <2>3, MovesTo DEF Proc
    <3> HIDE DEF r
    <3> QED
      BY <1>7, <2>0, <2>3, <3>1, OffstageBegins DEF SendTask, Calling, Delivering, remote
  <2> QED
    BY <1>7, <2>1, <2>2, <2>3 DEF SendTask
<1>8. ASSUME DeliverTask(p) PROVE Offstage
  <2> DEFINE r == [proc[p] EXCEPT !.pc = "bind", !.turn = outbox[proc[p].key].turn]
             e == [proc[p] EXCEPT !.pc = "lease", !.seen = outbox[proc[p].key].state]
  <2>0. p \notin Pool /\ proc[p] \in Proc
    BY <1>8, <1>0, KindsDiffer DEF DeliverTask
  <2>1. CASE Finish(p) /\ UNCHANGED mutex
    BY <1>8, <2>1, OffstageFinish DEF DeliverTask, Calling, store, remote
  <2>2. CASE proc' = [proc EXCEPT ![p] = r] /\ UNCHANGED mutex
    <3>1. r \in Proc /\ r.pc = "bind"
      BY <1>0, <2>0, <2>2, MovesTo DEF Proc
    <3> HIDE DEF r
    <3> QED
      BY <1>8, <2>0, <2>2, <3>1, OffstageBegins DEF DeliverTask, Calling, Delivering, store, remote
  <2>3. CASE proc' = [proc EXCEPT ![p] = e] /\ mutex' = p
    <3>1. e \in Proc /\ e.pc = "lease"
      BY <1>0, <2>0, <2>3, MovesTo DEF Proc
    <3> HIDE DEF e
    <3> QED
      BY <1>8, <2>0, <2>3, <3>1, OffstageEnters DEF DeliverTask, Calling, store, remote
  <2> QED
    BY <1>8, <2>1, <2>2, <2>3 DEF DeliverTask
<1>9. ASSUME FailRow(p) PROVE Offstage
  BY <1>9, OffstageFinish DEF FailRow, Calling, remote
<1>10. ASSUME BindReceipt(p) PROVE Offstage
  BY <1>10, OffstageFinish DEF BindReceipt, Calling, remote
<1> QED
  BY <1>1, <1>2, <1>3, <1>4, <1>5, <1>6, <1>7, <1>8, <1>9, <1>10
\* The ends of a delivery and what follows its failure.
LEMMA OffstageDeliveries ==
  ASSUME TypeInv, NEW p \in Procs,
         AcquireLease(p) \/ Refuse(p) \/ FailDelivery(p) \/ FailTaskDelivery(p)
  PROVE  Offstage
<1>1. ASSUME NEW ok \in BOOLEAN, mutex = p, proc[p].pc \in {"lease", "refuse"}, Exit(p, ok),
             UNCHANGED <<turnRow, server, starter, sent, epoch>>
      PROVE  Offstage
  <2>1. OneMoves(p) /\ proc'[p].pc \in {"idle", "bind", "failOutbox"}
    BY <1>1, ExitMoves, IdleHolds DEF Delivering
  <2> QED
    BY <1>1, <2>1 DEF Offstage, Calling
<1>2. CASE AcquireLease(p)
  <2>1. CASE Exit(p, FALSE)
    BY <1>1, <1>2, <2>1 DEF AcquireLease, store, remote
  <2>2. CASE Goto(p, "mark") /\ UNCHANGED mutex
    <3>1. proc'[p].pc = "mark" /\ \A q \in Procs \ {p} : proc'[q] = proc[q]
      BY <2>2, GotoMoves
    <3>2. OneMoves(p)
      BY <1>2, <2>2, <3>1 DEF AcquireLease, OneMoves, Holds, Delivering
    <3> QED
      BY <1>2, <3>1, <3>2 DEF AcquireLease, Offstage, Calling, store, remote
  <2> QED
    BY <1>2, <2>1, <2>2 DEF AcquireLease
<1>3. CASE Refuse(p)
  BY <1>1, <1>3 DEF Refuse, remote
<1>4. CASE FailDelivery(p)
  BY <1>4, OffstageGoto DEF FailDelivery, Calling, Delivering, remote
<1>5. CASE FailTaskDelivery(p)
  <2>1. proc[p].pc = "failTask" /\ UNCHANGED <<turnRow, server, starter, sent, epoch>>
    BY <1>5 DEF FailTaskDelivery, remote
  <2>2. ASSUME NEW to \in {"failRow", "after", "recover"}, Goto(p, to), mutex' = mutex PROVE Offstage
    BY <2>1, <2>2, OffstageGoto DEF Calling, Delivering
  <2>3. CASE Finish(p) /\ mutex' = IF p \in Pool THEN None ELSE mutex
    <3>1. OneMoves(p)
      BY <2>1, <2>3, FinishMoves, IdleHolds DEF OneMoves, Holds
    <3>2. proc'[p].pc \notin Calling
      BY <2>3, FinishMoves DEF Idle, Calling
    <3>3. proc[p].pc \notin Calling
      BY <2>1 DEF Calling
    <3> QED
      BY <2>1, <3>1, <3>2, <3>3 DEF Offstage
  <2> QED
    BY <1>5, <2>2, <2>3, FailTaskDeliveryGoes
<1> QED
  BY <1>2, <1>3, <1>4, <1>5

\* The steps of a worker or of the notifier that only move it on.
LEMMA OffstageEnding ==
  ASSUME TypeInv, NEW p \in Procs, NEW to, Goto(p, to), mutex' = mutex,
         proc[p].pc \in {"fail", "check", "complete", "adopt", "result", "write", "failTurn", "done",
                         "reset"},
         to \in {"inbox", "adopt", "complete", "close", "failTurn", "retry", "next", "interrupt"},
         UNCHANGED <<turnRow, server, starter, sent, epoch>>
  PROVE  Offstage
  BY OffstageGoto DEF Calling, Delivering

LEMMA OffstageResult ==
  ASSUME TypeInv, NEW p \in Procs, NEW ok \in BOOLEAN, AfterResult(p, ok), mutex' = mutex,
         proc[p].pc \in {"result", "write"},
         UNCHANGED <<turnRow, server, starter, sent, epoch>>
  PROVE  Offstage
<1>1. CASE p \in Retries
  BY <1>1, OffstageFinish DEF AfterResult, Finish, Calling
<1>2. CASE p \notin Retries
  <2>1. \E to \in {"close", "failTurn"} : Goto(p, to)
    BY <1>2 DEF AfterResult, Goto
  <2> QED
    BY <2>1, OffstageEnding
<1> QED
  BY <1>1, <1>2

\* The end of a turn, from its notification to the completion.
LEMMA OffstageEnds ==
  ASSUME TypeInv, TypeInv', NEW p \in Procs
  PROVE  /\ NotifyFailure \/ PersistCompletion => Offstage
         /\ \A w \in Workers, x \in Turns : Claim(w, x) => Offstage
         /\ \A x \in Turns : RequeueStale(x) => Offstage
         /\ Check(p) \/ CompleteTurn(p) \/ ResultRejected(p) \/ ResultAccepted(p) \/ WriteResult(p)
              \/ FailTurn(p) \/ RetryCompletion(p) \/ CloseStatus(p) \/ CompleteCompletion(p) => Offstage
<1>0. proc \in [Procs -> Proc] /\ proc' \in [Procs -> Proc] /\ proc[p] \in Proc
  BY DEF TypeInv, TypeOK
<1>1. ASSUME NotifyFailure PROVE Offstage
  BY <1>1, OffstageEnding, KindsDiffer DEF NotifyFailure, remote
<1>2. ASSUME PersistCompletion PROVE Offstage
  BY <1>2, OffstageFinish, KindsDiffer DEF PersistCompletion, Calling, remote
<1>3. ASSUME NEW w \in Workers, NEW x \in Turns, Claim(w, x) PROVE Offstage
  <2> DEFINE y == <<"worker", w>>
             r == [Idle EXCEPT !.pc = "check", !.turn = x]
  <2>1. y \in Procs /\ r.pc = "check" /\ proc' = [proc EXCEPT ![y] = r]
    BY <1>3, KindsDiffer DEF Pool, Claim, Idle
  <2>2. r \in Proc
    BY <1>0, <2>1, MovesTo
  <2> HIDE DEF r
  <2> QED
    BY <1>3, <2>1, <2>2, OffstageBegins DEF Claim, Calling, Delivering, remote
<1>4. ASSUME NEW x \in Turns, RequeueStale(x) PROVE Offstage
  BY <1>4 DEF RequeueStale, Offstage, remote
<1>5. ASSUME Check(p) PROVE Offstage
  <2>1. \E to \in {"adopt", "complete", "close"} : Goto(p, to)
    BY <1>5 DEF Check
  <2> QED
    BY <1>5, <2>1, OffstageEnding DEF Check, store, remote
<1>6. ASSUME CompleteTurn(p) PROVE Offstage
  <2> DEFINE t == BoundTask(proc[p].turn)
             r == [proc[p] EXCEPT !.pc = "result", !.v = ValidationAttempt(rows[t]), !.key = <<t, NoTurn>>]
  <2>1. CASE \E to \in {"close", "failTurn", "retry"} : Goto(p, to)
    BY <1>6, <2>1, OffstageEnding DEF CompleteTurn, remote
  <2>2. CASE proc' = [proc EXCEPT ![p] = r]
    <3>1. r \in Proc /\ r.pc = "result"
      BY <1>0, <2>2, MovesTo DEF Proc
    <3> HIDE DEF r
    <3> QED
      BY <1>6, <2>2, <3>1, OffstageBegins DEF CompleteTurn, Calling, Delivering, remote
  <2> QED
    BY <1>6, <2>1, <2>2 DEF CompleteTurn
<1>7. ASSUME ResultRejected(p) PROVE Offstage
  BY <1>7, OffstageResult DEF ResultRejected, remote
<1>8. ASSUME ResultAccepted(p) PROVE Offstage
  <2>1. CASE AfterResult(p, FALSE)
    BY <1>8, <2>1, OffstageResult DEF ResultAccepted, remote
  <2>2. ASSUME NEW end, proc' = [proc EXCEPT ![p] = [proc[p] EXCEPT !.pc = "write", !.outcome = end]]
        PROVE  Offstage
    <3> DEFINE r == [proc[p] EXCEPT !.pc = "write", !.outcome = end]
    <3>1. r \in Proc /\ r.pc = "write" /\ proc' = [proc EXCEPT ![p] = r]
      BY <1>0, <2>2, MovesTo DEF Proc
    <3> HIDE DEF r
    <3> QED
      BY <1>8, <3>1, OffstageBegins DEF ResultAccepted, Calling, Delivering, remote
  <2> QED
    BY <1>8, <2>1, <2>2 DEF ResultAccepted
<1>9. ASSUME WriteResult(p) PROVE Offstage
  BY <1>9, OffstageResult DEF WriteResult, remote
<1>10. ASSUME FailTurn(p) PROVE Offstage
  BY <1>10, OffstageEnding DEF FailTurn, remote
<1>11. ASSUME RetryCompletion(p) PROVE Offstage
  BY <1>11, OffstageFinish DEF RetryCompletion, Calling, remote
<1>12. ASSUME CloseStatus(p) PROVE Offstage
  <2>1. p \in Pool /\ proc[p].pc = "closeStatus" /\ mutex' = None /\ Goto(p, "done")
    BY <1>12, ProcType, KindsDiffer DEF CloseStatus, Kinds, Delivering
  <2>2. proc'[p].pc = "done" /\ \A q \in Procs \ {p} : proc'[q] = proc[q]
    BY <2>1, GotoMoves
  <2>3. OneMoves(p)
    BY <2>1, <2>2 DEF OneMoves, Holds, Delivering
  <2> QED
    BY <1>12, <2>1, <2>2, <2>3 DEF CloseStatus, Offstage, Calling, remote
<1>13. ASSUME CompleteCompletion(p) PROVE Offstage
  <2>1. CASE Goto(p, "next")
    BY <1>13, <2>1, OffstageEnding DEF CompleteCompletion, remote
  <2>2. CASE Finish(p)
    BY <1>13, <2>2, OffstageFinish DEF CompleteCompletion, Calling, remote
  <2> QED
    BY <1>13, <2>1, <2>2 DEF CompleteCompletion
<1> QED
  BY <1>1, <1>2, <1>3, <1>4, <1>5, <1>6, <1>7, <1>8, <1>9, <1>10, <1>11, <1>12, <1>13

\* The queue after a turn and the recovery.
LEMMA OffstageQueue ==
  ASSUME TypeInv, TypeInv', NEW p \in Procs
  PROVE  /\ ListPending(p) \/ NextPending(p) \/ ListFailed(p) \/ SweepFailed(p) => Offstage
         /\ ExpireLease => Offstage
         /\ ResetProcessing \/ ListRecoverable \/ RecoverSending \/ RecoverUnsent \/ EndRecovery => Offstage
<1>0. /\ proc \in [Procs -> Proc] /\ proc' \in [Procs -> Proc] /\ proc[p] \in Proc
      /\ Recovery \in Procs /\ proc[Recovery] \in Proc /\ Recovery \notin Pool
  BY KindsDiffer DEF TypeInv, TypeOK
<1>1. ASSUME ListPending(p) PROVE Offstage
  <2> DEFINE r == [proc[p] EXCEPT !.pc = "after", !.turn = NoTurn, !.todo = Snapshot({"queued"})]
  <2>1. proc' = [proc EXCEPT ![p] = r]
    BY <1>1 DEF ListPending
  <2>2. r \in Proc /\ r.pc = "after"
    BY <1>0, <2>1, MovesTo DEF Proc
  <2> HIDE DEF r
  <2> QED
    BY <1>1, <2>1, <2>2, OffstageEnters DEF ListPending, Calling, store, remote
<1>2. ASSUME NextPending(p) PROVE Offstage
  <2> DEFINE q == proc[p]
             r == [q EXCEPT !.pc = "lease", !.key = Head(q.todo)[1], !.seen = Head(q.todo)[2],
                            !.turn = NoTurn, !.todo = Tail(q.todo)]
             e == [q EXCEPT !.todo = Tail(@)]
  <2>0. p \in Pool /\ q.pc = "after" /\ Holds(p, q)
    BY <1>2, ProcType, KindsDiffer DEF NextPending, Kinds, Holds, Delivering
  <2>1. CASE proc' = [proc EXCEPT ![p] = r] /\ UNCHANGED mutex
    <3>1. proc'[p] = r /\ r.pc = "lease" /\ \A z \in Procs \ {p} : proc'[z] = proc[z]
      BY <1>0, <2>1, MovesTo DEF Proc
    <3> HIDE DEF r
    <3>2. OneMoves(p)
      BY <2>0, <2>1, <3>1, OutsideMoves
    <3> QED
      BY <1>2, <2>0, <3>1, <3>2 DEF NextPending, Offstage, Calling, remote
  <2>2. CASE proc' = [proc EXCEPT ![p].todo = Tail(@)] /\ UNCHANGED mutex
    <3>1. proc'[p] = e /\ e.pc = "after" /\ \A z \in Procs \ {p} : proc'[z] = proc[z]
      BY <1>0, <2>0, <2>2, MovesTo DEF Proc
    <3> HIDE DEF e
    <3>2. OneMoves(p)
      BY <2>0, <2>2, <3>1, OutsideMoves
    <3> QED
      BY <1>2, <2>0, <3>1, <3>2 DEF NextPending, Offstage, Calling, remote
  <2>3. CASE Finish(p) /\ mutex' = None
    <3>1. OneMoves(p)
      BY <2>0, <2>3, FinishMoves, IdleHolds DEF OneMoves
    <3> QED
      BY <1>2, <2>0, <2>3, <3>1, FinishMoves, IdleHolds DEF NextPending, Offstage, Calling, remote
  <2> QED
    BY <1>2, <2>1, <2>2, <2>3 DEF NextPending
<1>3. ASSUME ListFailed(p) PROVE Offstage
  <2> DEFINE r == [proc[p] EXCEPT !.pc = "sweep", !.todo = Snapshot({"failed"})]
  <2>0. Holds(p, proc[p])
    BY <1>3, ProcType, KindsDiffer DEF ListFailed, Kinds, Holds, Delivering
  <2>1. proc' = [proc EXCEPT ![p] = r]
    BY <1>3 DEF ListFailed
  <2>2. r \in Proc /\ r.pc = "sweep"
    BY <1>0, <2>1, MovesTo DEF Proc
  <2> HIDE DEF r
  <2> QED
    BY <1>3, <2>0, <2>1, <2>2, OffstageBegins DEF ListFailed, Calling, Delivering, store, remote
<1>4. ASSUME SweepFailed(p) PROVE Offstage
  <2> DEFINE e == [proc[p] EXCEPT !.todo = Tail(@)]
  <2>0. proc[p].pc = "sweep" /\ Holds(p, proc[p])
    BY <1>4, ProcType, KindsDiffer DEF SweepFailed, Kinds, Holds, Delivering
  <2>1. CASE Finish(p) /\ mutex' = None
    <3>1. OneMoves(p)
      BY <2>0, <2>1, FinishMoves, IdleHolds DEF OneMoves
    <3> QED
      BY <1>4, <2>0, <2>1, <3>1, FinishMoves, IdleHolds DEF SweepFailed, Offstage, Calling, remote
  <2>2. CASE proc' = [proc EXCEPT ![p].todo = Tail(@)] /\ UNCHANGED mutex
    <3>1. proc' = [proc EXCEPT ![p] = e]
      BY <2>2
    <3>2. e \in Proc /\ e.pc = "sweep"
      BY <1>0, <2>0, <3>1, MovesTo DEF Proc
    <3> HIDE DEF e
    <3> QED
      BY <1>4, <2>0, <2>2, <3>1, <3>2, OffstageBegins DEF SweepFailed, Calling, Delivering, remote
  <2> QED
    BY <1>4, <2>1, <2>2 DEF SweepFailed
<1>5. ASSUME ExpireLease PROVE Offstage
  BY <1>5 DEF ExpireLease, Offstage, store, remote
<1>6. ASSUME ResetProcessing PROVE Offstage
  BY <1>0, <1>6, OffstageEnding DEF ResetProcessing, remote
<1>7. ASSUME ListRecoverable PROVE Offstage
  <2> DEFINE r == [proc[Recovery] EXCEPT !.pc = "recover",
                     !.todo = Snapshot({"sending"}) \o (IF HasActive THEN <<>> ELSE Snapshot({"pending", "queued"}))]
  <2>1. proc' = [proc EXCEPT ![Recovery] = r]
    BY <1>7 DEF ListRecoverable
  <2>2. r \in Proc /\ r.pc = "recover"
    BY <1>0, <2>1, MovesTo DEF Proc
  <2> HIDE DEF r
  <2> QED
    BY <1>0, <1>7, <2>1, <2>2, OffstageBegins DEF ListRecoverable, Calling, Delivering, store, remote
<1>8. ASSUME RecoverSending PROVE Offstage
  <2> DEFINE q == proc[Recovery]
             k == Head(q.todo)[1]
             r == [q EXCEPT !.pc = IF outbox[k].state = "sending" /\ IsFormal(k) THEN "failTask" ELSE "recover",
                            !.key = k, !.todo = Tail(q.todo)]
  <2>1. proc' = [proc EXCEPT ![Recovery] = r]
    BY <1>8 DEF RecoverSending
  <2>2. r \in Proc /\ r.pc \in {"failTask", "recover"}
    BY ZenonT(60), <1>0, <2>1, MovesTo DEF Proc
  <2> HIDE DEF r
  <2> QED
    BY ZenonT(60), <1>0, <1>8, <2>1, <2>2, OffstageBegins DEF RecoverSending, Calling, Delivering, remote
<1>9. ASSUME RecoverUnsent PROVE Offstage
  <2> DEFINE q == proc[Recovery]
             r == [q EXCEPT !.pc = "lease", !.key = Head(q.todo)[1], !.seen = Head(q.todo)[2],
                            !.turn = NoTurn, !.todo = Tail(q.todo)]
             e == [q EXCEPT !.todo = Tail(@)]
  <2>1. CASE proc' = [proc EXCEPT ![Recovery] = r] /\ mutex = None /\ mutex' = Recovery
    <3>1. r \in Proc /\ r.pc = "lease"
      BY ZenonT(60), <1>0, <2>1, MovesTo DEF Proc
    <3> HIDE DEF r
    <3> QED
      BY <1>0, <1>9, <2>1, <3>1, OffstageEnters DEF RecoverUnsent, Calling, remote
  <2>2. CASE proc' = [proc EXCEPT ![Recovery].todo = Tail(@)] /\ UNCHANGED mutex
    <3>1. proc' = [proc EXCEPT ![Recovery] = e]
      BY <2>2
    <3>2. e \in Proc /\ e.pc = "recover"
      BY <1>0, <1>9, <3>1, MovesTo DEF Proc, RecoverUnsent
    <3> HIDE DEF e
    <3> QED
      BY <1>0, <1>9, <2>2, <3>1, <3>2, OffstageBegins DEF RecoverUnsent, Calling, Delivering, remote
  <2>3. CASE Finish(Recovery) /\ UNCHANGED mutex
    BY <1>0, <1>9, <2>3, OffstageFinish DEF RecoverUnsent, Calling, remote
  <2> QED
    BY <1>9, <2>1, <2>2, <2>3 DEF RecoverUnsent
<1>10. ASSUME EndRecovery PROVE Offstage
  BY <1>0, <1>10, OffstageFinish DEF EndRecovery, Calling, store, remote
<1> QED
  BY <1>1, <1>2, <1>3, <1>4, <1>5, <1>6, <1>7, <1>8, <1>9, <1>10
-----------------------------------------------------------------------------
(* Where a process comes from                                              *)

\* A process that handles the end of a turn has handled it before, or takes
\* its completion from the inbox or its notification; a request that binds
\* a receipt has it from an accepted message or from its own delivery.
Arrives(p) ==
  /\ proc'[p].pc \in AtEnd =>
       \/ proc[p].pc \in AtEnd /\ proc'[p].turn = proc[p].turn
       \/ p \in Retries
       \/ inbox[proc'[p].turn] # "none"
       \/ Notify(proc'[p].turn)
  /\ proc'[p].pc = "bind" =>
       /\ proc'[p].key = proc[p].key /\ p \in Requests
       /\ \/ proc[p].pc = "bind" /\ proc'[p].turn = proc[p].turn
          \/ /\ proc[p].pc \in {"send", "lock"} /\ outbox[proc[p].key].state = "accepted"
             /\ proc'[p].turn = outbox[proc[p].key].turn
          \/ BindTask(p) /\ proc'[p].turn = proc[p].turn

Arrivals == \A p \in Procs : Arrives(p)

LEMMA NoArrival ==
  ASSUME TypeInv, NEW p \in Procs, proc'[p] = proc[p] \/ proc'[p].pc \notin AtEnd \cup {"bind"}
  PROVE  Arrives(p)
<1>1. proc[p].pc = "bind" => p \in Requests
  BY ProcType, KindsDiffer DEF Kinds, Delivering
<1> QED
  BY <1>1 DEF Arrives

LEMMA OneArrives ==
  ASSUME TypeInv, NEW p \in Procs, \A q \in Procs \ {p} : proc'[q] = proc[q], Arrives(p)
  PROVE  Arrivals
  BY NoArrival DEF Arrivals

LEMMA SameArrivals ==
  ASSUME TypeInv, proc' = proc
  PROVE  Arrivals
  BY NoArrival DEF Arrivals

LEMMA FinishArrives ==
  ASSUME TypeInv, NEW p \in Procs, Finish(p)
  PROVE  Arrivals
<1>1. proc'[p].pc \notin AtEnd \cup {"bind"}
  BY FinishMoves, IdleHolds DEF AtEnd
<1> QED
  BY <1>1, FinishMoves, NoArrival, OneArrives

LEMMA GotoArrives ==
  ASSUME TypeInv, NEW p \in Procs, NEW pc, Goto(p, pc), pc # "bind", pc \in AtEnd => proc[p].pc \in AtEnd
  PROVE  Arrivals
<1>1. /\ proc'[p].pc = pc /\ proc'[p].turn = proc[p].turn
      /\ \A q \in Procs \ {p} : proc'[q] = proc[q]
  BY GotoMoves
<1>2. Arrives(p)
  BY <1>1 DEF Arrives
<1> QED
  BY <1>1, <1>2, OneArrives

LEMMA MoveArrives ==
  ASSUME TypeInv, NEW p \in Procs, NEW r, proc' = [proc EXCEPT ![p] = r], r.pc \notin AtEnd \cup {"bind"}
  PROVE  Arrivals
  BY MovesTo, NoArrival, OneArrives

LEMMA ExitArrives ==
  ASSUME TypeInv, NEW p \in Procs, NEW ok \in BOOLEAN, proc[p].pc \in Delivering, mutex = p, Exit(p, ok),
         ~ok \/ proc[p].turn = NoTurn \/ p \notin Requests \/ BindTask(p)
  PROVE  Arrivals
<1>1. \A q \in Procs \ {p} : proc'[q] = proc[q]
  BY ExitMoves DEF OneMoves
<1>2. CASE proc'[p].pc \notin AtEnd \cup {"bind"}
  BY <1>1, <1>2, NoArrival, OneArrives
<1>3. CASE proc'[p].pc \in AtEnd \cup {"bind"}
  <2>1. proc'[p].pc \notin AtEnd
    BY ExitMoves, IdleHolds DEF AtEnd
  <2>2. /\ proc'[p].pc = "bind" /\ p \in Requests /\ ok
        /\ proc'[p].key = proc[p].key /\ proc'[p].turn = proc[p].turn /\ proc[p].turn # NoTurn
    BY <1>3, <2>1, ExitMoves, IdleHolds
  <2>3. Arrives(p)
    BY <2>1, <2>2 DEF Arrives
  <2> QED
    BY <1>1, <2>3, OneArrives
<1> QED
  BY <1>2, <1>3

LEMMA RequestArrivals ==
  ASSUME TypeInv, TypeInv', NEW p \in Procs
  PROVE  /\ \A c \in Clients : Send(c) \/ Deliver(c) => Arrivals
         /\ \A t \in Tasks : Enqueue(t) \/ Resume(t) \/ Cancel(t) \/ RetryOutput(t) => Arrivals
         /\ SendTask(p) \/ DeliverTask(p) \/ FailRow(p) \/ BindReceipt(p) => Arrivals
<1>0. proc \in [Procs -> Proc] /\ proc' \in [Procs -> Proc] /\ proc[p] \in Proc
  BY DEF TypeInv, TypeOK
<1>1. ASSUME NEW c \in Clients, Send(c) PROVE Arrivals
  <2> DEFINE x == <<"client", c>>
             r == [Idle EXCEPT !.pc = "lock", !.key = ChatOf[c]]
  <2>1. x \in Procs /\ r.pc = "lock"
    BY KindsDiffer DEF Senders, Idle
  <2>2. proc' = proc \/ proc' = [proc EXCEPT ![x] = r]
    BY <1>1 DEF Send
  <2> HIDE DEF r
  <2> QED
    BY <2>1, <2>2, SameArrivals, MoveArrives DEF AtEnd
<1>2. ASSUME NEW c \in Clients, Deliver(c) PROVE Arrivals
  <2> DEFINE x == <<"client", c>>
             r == [proc[x] EXCEPT !.pc = "lease", !.seen = outbox[proc[x].key].state]
  <2>1. x \in Procs /\ proc[x] \in Proc
    BY <1>0, KindsDiffer DEF Senders
  <2>2. Finish(x) \/ proc' = [proc EXCEPT ![x] = r]
    BY <1>2 DEF Deliver
  <2>3. r.pc = "lease"
    BY <2>1 DEF Proc
  <2> HIDE DEF r
  <2> QED
    BY <2>1, <2>2, <2>3, FinishArrives, MoveArrives DEF AtEnd
<1>3. ASSUME NEW t \in Tasks, Enqueue(t) PROVE Arrivals
  <2> DEFINE x == <<"enqueue", t>>
             r == [Idle EXCEPT !.pc = "send", !.key = <<t, NoTurn>>]
  <2>1. x \in Procs /\ r.pc = "send" /\ proc' = [proc EXCEPT ![x] = r]
    BY <1>3, KindsDiffer DEF Requests, Enqueue, Idle
  <2> HIDE DEF r
  <2> QED
    BY <2>1, MoveArrives DEF AtEnd
<1>4. ASSUME NEW t \in Tasks, Resume(t) PROVE Arrivals
  <2> DEFINE x == <<"resume", t>>
             r == [Idle EXCEPT !.pc = "send", !.key = <<t, rows[t].turn>>]
  <2>1. x \in Procs /\ r.pc = "send" /\ proc' = [proc EXCEPT ![x] = r]
    BY <1>4, KindsDiffer DEF Requests, Resume, Idle
  <2> HIDE DEF r
  <2> QED
    BY <2>1, MoveArrives DEF AtEnd
<1>5. ASSUME NEW t \in Tasks, Cancel(t) PROVE Arrivals
  BY <1>5, SameArrivals DEF Cancel
<1>6. ASSUME NEW t \in Tasks, RetryOutput(t) PROVE Arrivals
  <2> DEFINE x == <<"retry", t>>
             r == [Idle EXCEPT !.pc = "result", !.turn = rows[t].turn, !.v = ValidationAttempt(rows[t]),
                               !.key = <<t, NoTurn>>]
  <2>1. x \in Procs /\ x \in Retries /\ r.pc = "result" /\ proc' = [proc EXCEPT ![x] = r]
    BY <1>6, KindsDiffer DEF Retries, RetryOutput, Idle
  <2> HIDE DEF r
  <2>2. Arrives(x)
    BY <2>1, MovesTo DEF Arrives
  <2> QED
    BY <2>1, <2>2, MovesTo, OneArrives
<1>7. ASSUME SendTask(p) \/ DeliverTask(p) PROVE Arrivals
  <2> DEFINE r == [proc[p] EXCEPT !.pc = "bind", !.turn = outbox[proc[p].key].turn]
             e == [proc[p] EXCEPT !.pc = "lease", !.seen = outbox[proc[p].key].state]
  <2>1. proc[p].pc \in {"send", "lock"} /\ p \in Requests
    BY <1>7, ProcType, KindsDiffer DEF SendTask, DeliverTask, Kinds, Delivering
  <2>2. CASE Finish(p)
    BY <2>2, FinishArrives
  <2>3. CASE Goto(p, "lock") \/ Goto(p, "failOutbox")
    BY <2>3, GotoArrives DEF AtEnd
  <2>4. CASE outbox[proc[p].key].state = "accepted" /\ proc' = [proc EXCEPT ![p] = r]
    <3>1. r.pc = "bind" /\ r.key = proc[p].key /\ r.turn = outbox[proc[p].key].turn
      BY <1>0 DEF Proc
    <3> HIDE DEF r
    <3>2. Arrives(p)
      BY <2>1, <2>4, <3>1, MovesTo DEF Arrives, AtEnd
    <3> QED
      BY <2>4, <3>2, MovesTo, OneArrives
  <2>5. CASE proc' = [proc EXCEPT ![p] = e]
    <3>1. e.pc = "lease"
      BY <1>0 DEF Proc
    <3> HIDE DEF e
    <3> QED
      BY <2>5, <3>1, MoveArrives DEF AtEnd
  <2> QED
    BY <1>7, <2>2, <2>3, <2>4, <2>5 DEF SendTask, DeliverTask
<1>8. ASSUME FailRow(p) \/ BindReceipt(p) PROVE Arrivals
  BY <1>8, FinishArrives DEF FailRow, BindReceipt
<1> QED
  BY <1>1, <1>2, <1>3, <1>4, <1>5, <1>6, <1>7, <1>8

LEMMA DeliveryArrivals ==
  ASSUME TypeInv, TypeInv', NEW p \in Procs,
         \/ AcquireLease(p) \/ MarkSending(p) \/ Decide(p) \/ SteerAccepted(p) \/ SteerStale(p)
         \/ StartAccepted(p) \/ CallRefused(p) \/ ThreadMissing(p) \/ RecordTurn(p) \/ Accept(p)
         \/ MarkRunning(p) \/ BindTask(p) \/ Refuse(p) \/ FailDelivery(p) \/ FailTaskDelivery(p)
  PROVE  Arrivals
<1>0. proc \in [Procs -> Proc] /\ proc[p] \in Proc /\ Carries(p, proc[p])
  BY ProcType
<1>1. CASE AcquireLease(p)
  BY <1>1, ExitArrives, GotoArrives DEF AcquireLease, Delivering, AtEnd
<1>2. CASE MarkSending(p)
  <2> DEFINE r == [proc[p] EXCEPT !.pc = "decide", !.seen = "sending"]
  <2>1. r.pc = "decide"
    BY <1>0 DEF Proc
  <2>2. proc' = [proc EXCEPT ![p] = r] \/ Exit(p, FALSE) \/ Goto(p, "decide")
    BY <1>2 DEF MarkSending
  <2> HIDE DEF r
  <2> QED
    BY <1>2, <2>1, <2>2, ExitArrives, GotoArrives, MoveArrives DEF MarkSending, Delivering, AtEnd
<1>3. CASE Decide(p)
  <2> DEFINE r == [proc[p] EXCEPT !.pc = "steer", !.turn = ActiveTurn]
  <2>1. r.pc = "steer" /\ proc[p].turn = NoTurn
    BY <1>0, <1>3 DEF Proc, Decide, Carries
  <2>2. proc' = [proc EXCEPT ![p] = r] \/ Exit(p, FALSE) \/ Exit(p, TRUE) \/ Goto(p, "refuse") \/ Goto(p, "start")
    BY <1>3 DEF Decide
  <2> HIDE DEF r
  <2> QED
    BY <1>3, <2>1, <2>2, ExitArrives, GotoArrives, MoveArrives DEF Decide, Delivering, AtEnd
<1>4. CASE SteerAccepted(p)
  BY <1>4, GotoArrives DEF SteerAccepted, AtEnd
<1>5. CASE SteerStale(p)
  <2> DEFINE r == [proc[p] EXCEPT !.pc = "resteer", !.turn = ActiveTurn]
  <2>1. r.pc = "resteer"
    BY <1>0 DEF Proc
  <2>2. proc' = [proc EXCEPT ![p] = r] \/ Goto(p, "refuse") \/ Goto(p, "start")
    BY <1>5 DEF SteerStale
  <2> HIDE DEF r
  <2> QED
    BY <2>1, <2>2, GotoArrives, MoveArrives DEF AtEnd
<1>6. CASE StartAccepted(p)
  <2> DEFINE r == [proc[p] EXCEPT !.pc = "record", !.turn = NextTurn]
  <2>1. r.pc = "record" /\ proc' = [proc EXCEPT ![p] = r]
    BY <1>0, <1>6 DEF Proc, StartAccepted
  <2> HIDE DEF r
  <2> QED
    BY <2>1, MoveArrives DEF AtEnd
<1>7. CASE CallRefused(p) \/ ThreadMissing(p)
  <2>1. Goto(p, "refuse") \/ Goto(p, "restart")
    BY <1>7 DEF CallRefused, ThreadMissing
  <2> QED
    BY <2>1, GotoArrives DEF AtEnd
<1>8. CASE RecordTurn(p)
  BY <1>8, GotoArrives DEF RecordTurn, AtEnd
<1>9. CASE Accept(p)
  BY <1>9, ExitArrives, GotoArrives DEF Accept, Delivering, AtEnd
<1>10. CASE MarkRunning(p)
  <2>1. IsFormal(proc[p].key) \/ p \notin Requests
    BY <1>10, RequestKey DEF MarkRunning, IsFormal
  <2> QED
    BY <1>10, <2>1, ExitArrives, GotoArrives DEF MarkRunning, Delivering, AtEnd
<1>11. CASE BindTask(p)
  <2>1. \E ok \in BOOLEAN : Exit(p, ok)
    BY <1>11 DEF BindTask
  <2> QED
    BY <1>11, <2>1, ExitArrives DEF BindTask, Delivering
<1>12. CASE Refuse(p)
  BY <1>12, ExitArrives DEF Refuse, Delivering
<1>13. CASE FailDelivery(p)
  BY <1>13, GotoArrives DEF FailDelivery, AtEnd
<1>14. CASE FailTaskDelivery(p)
  <2>1. ASSUME NEW to \in {"failRow", "after", "recover"}, Goto(p, to) PROVE Arrivals
    BY <2>1, GotoArrives DEF AtEnd
  <2>2. CASE Finish(p)
    BY <2>2, FinishArrives
  <2> QED
    BY <1>14, <2>1, <2>2, FailTaskDeliveryGoes
<1> QED
  BY <1>1, <1>2, <1>3, <1>4, <1>5, <1>6, <1>7, <1>8, <1>9, <1>10, <1>11, <1>12, <1>13, <1>14

LEMMA EndArrivals ==
  ASSUME TypeInv, TypeInv', NEW p \in Procs
  PROVE  /\ \A x \in Turns : ServerEnds(x) \/ Notify(x) \/ RequeueStale(x) => Arrivals
         /\ NotifyFailure \/ PersistCompletion => Arrivals
         /\ \A w \in Workers, x \in Turns : Claim(w, x) => Arrivals
         /\ Check(p) \/ CompleteTurn(p) \/ ResultRejected(p) \/ ResultAccepted(p) \/ WriteResult(p)
              \/ FailTurn(p) \/ RetryCompletion(p) \/ CloseTurn(p) \/ CloseStatus(p)
              \/ CompleteCompletion(p) => Arrivals
<1>0. proc \in [Procs -> Proc] /\ proc[p] \in Proc
  BY DEF TypeInv, TypeOK
<1>1. ASSUME NEW x \in Turns, ServerEnds(x) \/ RequeueStale(x) PROVE Arrivals
  BY <1>1, SameArrivals DEF ServerEnds, RequeueStale
<1>2. ASSUME NEW x \in Turns, Notify(x) PROVE Arrivals
  <2> DEFINE r == [Idle EXCEPT !.pc = IF server[x] = "error" THEN "fail" ELSE "inbox", !.turn = x]
  <2>1. Notifier \in Procs /\ r.pc \in {"fail", "inbox"} /\ r.turn = x
    BY KindsDiffer DEF Idle
  <2>2. proc' = proc \/ proc' = [proc EXCEPT ![Notifier] = r]
    BY <1>2 DEF Notify
  <2> HIDE DEF r
  <2>3. CASE proc' = [proc EXCEPT ![Notifier] = r]
    <3>1. Arrives(Notifier)
      BY <1>2, <2>1, <2>3, MovesTo DEF Arrives
    <3> QED
      BY <2>1, <2>3, <3>1, MovesTo, OneArrives
  <2> QED
    BY <2>2, <2>3, SameArrivals
<1>3. ASSUME NotifyFailure \/ PersistCompletion PROVE Arrivals
  BY <1>3, KindsDiffer, GotoArrives, FinishArrives DEF NotifyFailure, PersistCompletion, AtEnd
<1>4. ASSUME NEW w \in Workers, NEW x \in Turns, Claim(w, x) PROVE Arrivals
  <2> DEFINE y == <<"worker", w>>
             r == [Idle EXCEPT !.pc = "check", !.turn = x]
  <2>1. y \in Procs /\ r.pc = "check" /\ r.turn = x /\ proc' = [proc EXCEPT ![y] = r]
    BY <1>4, KindsDiffer DEF Pool, Claim, Idle
  <2> HIDE DEF r
  <2>2. Arrives(y)
    BY <1>4, <2>1, MovesTo DEF Arrives, Claim
  <2> QED
    BY <2>1, <2>2, MovesTo, OneArrives
<1>5. ASSUME Check(p) PROVE Arrivals
  <2>1. \E to \in {"adopt", "complete", "close"} : Goto(p, to)
    BY <1>5 DEF Check
  <2> QED
    BY <1>5, <2>1, GotoArrives DEF Check, AtEnd
<1>6. ASSUME NEW r, proc' = [proc EXCEPT ![p] = r], r.pc # "bind", proc[p].pc \in AtEnd, r.turn = proc[p].turn
      PROVE  Arrivals
  <2>1. Arrives(p)
    BY <1>6, MovesTo DEF Arrives
  <2> QED
    BY <1>6, <2>1, MovesTo, OneArrives
<1>7. ASSUME CompleteTurn(p) PROVE Arrivals
  <2> DEFINE t == BoundTask(proc[p].turn)
             r == [proc[p] EXCEPT !.pc = "result", !.v = ValidationAttempt(rows[t]), !.key = <<t, NoTurn>>]
  <2>1. r.pc = "result" /\ r.turn = proc[p].turn
    BY <1>0 DEF Proc
  <2>2. (\E to \in {"close", "failTurn", "retry"} : Goto(p, to)) \/ proc' = [proc EXCEPT ![p] = r]
    BY <1>7 DEF CompleteTurn
  <2> HIDE DEF r
  <2> QED
    BY <1>6, <1>7, <2>1, <2>2, GotoArrives DEF CompleteTurn, AtEnd
<1>8. ASSUME NEW ok \in BOOLEAN, AfterResult(p, ok), proc[p].pc \in {"result", "write"} PROVE Arrivals
  <2>1. Finish(p) \/ Goto(p, "close") \/ Goto(p, "failTurn")
    BY <1>8 DEF AfterResult, Finish, Goto
  <2> QED
    BY <1>8, <2>1, FinishArrives, GotoArrives DEF AtEnd
<1>9. ASSUME ResultRejected(p) \/ WriteResult(p) PROVE Arrivals
  BY <1>8, <1>9 DEF ResultRejected, WriteResult
<1>10. ASSUME ResultAccepted(p) PROVE Arrivals
  <2>1. CASE AfterResult(p, FALSE)
    BY <1>8, <1>10, <2>1 DEF ResultAccepted
  <2>2. ASSUME NEW end, proc' = [proc EXCEPT ![p] = [proc[p] EXCEPT !.pc = "write", !.outcome = end]]
        PROVE  Arrivals
    <3> DEFINE r == [proc[p] EXCEPT !.pc = "write", !.outcome = end]
    <3>1. r.pc = "write" /\ r.turn = proc[p].turn /\ proc' = [proc EXCEPT ![p] = r]
      BY <1>0, <2>2 DEF Proc
    <3> HIDE DEF r
    <3> QED
      BY <1>6, <1>10, <3>1 DEF ResultAccepted, AtEnd
  <2> QED
    BY <1>10, <2>1, <2>2 DEF ResultAccepted
<1>11. ASSUME FailTurn(p) \/ CloseTurn(p) \/ CloseStatus(p) PROVE Arrivals
  BY <1>11, GotoArrives DEF FailTurn, CloseTurn, CloseStatus, AtEnd
<1>12. ASSUME RetryCompletion(p) \/ CompleteCompletion(p) PROVE Arrivals
  BY <1>12, GotoArrives, FinishArrives DEF RetryCompletion, CompleteCompletion, AtEnd
<1> QED
  BY <1>1, <1>2, <1>3, <1>4, <1>5, <1>7, <1>9, <1>10, <1>11, <1>12

LEMMA QueueArrivals ==
  ASSUME TypeInv, TypeInv', NEW p \in Procs
  PROVE  /\ ListPending(p) \/ NextPending(p) \/ ListFailed(p) \/ SweepFailed(p) => Arrivals
         /\ ExpireLease \/ Restart => Arrivals
         /\ ResetProcessing \/ InterruptTurns \/ ListRecoverable \/ RecoverSending \/ RecoverUnsent
              \/ EndRecovery => Arrivals
<1>0. /\ proc \in [Procs -> Proc] /\ proc[p] \in Proc /\ Recovery \in Procs /\ proc[Recovery] \in Proc
  BY KindsDiffer DEF TypeInv, TypeOK
<1>1. ASSUME ListPending(p) \/ ListFailed(p) PROVE Arrivals
  <2> DEFINE a == [proc[p] EXCEPT !.pc = "after", !.turn = NoTurn, !.todo = Snapshot({"queued"})]
             b == [proc[p] EXCEPT !.pc = "sweep", !.todo = Snapshot({"failed"})]
  <2>1. proc' = [proc EXCEPT ![p] = a] \/ proc' = [proc EXCEPT ![p] = b]
    BY <1>1 DEF ListPending, ListFailed
  <2>2. a.pc = "after" /\ b.pc = "sweep"
    BY <1>0 DEF Proc
  <2> HIDE DEF a, b
  <2> QED
    BY <2>1, <2>2, MoveArrives DEF AtEnd
<1>2. ASSUME NextPending(p) PROVE Arrivals
  <2> DEFINE q == proc[p]
             a == [q EXCEPT !.pc = "lease", !.key = Head(q.todo)[1], !.seen = Head(q.todo)[2],
                            !.turn = NoTurn, !.todo = Tail(q.todo)]
             b == [q EXCEPT !.todo = Tail(@)]
  <2>1. proc' = [proc EXCEPT ![p] = a] \/ proc' = [proc EXCEPT ![p] = b] \/ Finish(p)
    BY <1>2 DEF NextPending
  <2>2. a.pc = "lease" /\ b.pc = "after"
    BY <1>0, <1>2 DEF NextPending, Proc
  <2> HIDE DEF a, b
  <2> QED
    BY <2>1, <2>2, MoveArrives, FinishArrives DEF AtEnd
<1>3. ASSUME SweepFailed(p) PROVE Arrivals
  <2> DEFINE b == [proc[p] EXCEPT !.todo = Tail(@)]
  <2>1. proc' = [proc EXCEPT ![p] = b] \/ Finish(p)
    BY <1>3 DEF SweepFailed
  <2>2. b.pc = "sweep"
    BY <1>0, <1>3 DEF SweepFailed, Proc
  <2> HIDE DEF b
  <2> QED
    BY <2>1, <2>2, MoveArrives, FinishArrives DEF AtEnd
<1>4. ASSUME ExpireLease PROVE Arrivals
  BY <1>4, SameArrivals DEF ExpireLease
<1>5. ASSUME Restart PROVE Arrivals
  <2>1. ASSUME NEW q \in Procs PROVE proc'[q].pc \in {"reset", "idle"}
    BY <1>5 DEF Restart, Idle
  <2> QED
    BY <2>1, NoArrival DEF Arrivals, AtEnd
<1>6. ASSUME ResetProcessing \/ InterruptTurns PROVE Arrivals
  BY <1>0, <1>6, GotoArrives DEF ResetProcessing, InterruptTurns, AtEnd
<1>7. ASSUME ListRecoverable PROVE Arrivals
  <2> DEFINE r == [proc[Recovery] EXCEPT !.pc = "recover",
                     !.todo = Snapshot({"sending"}) \o (IF HasActive THEN <<>> ELSE Snapshot({"pending", "queued"}))]
  <2>1. proc' = [proc EXCEPT ![Recovery] = r]
    BY <1>7 DEF ListRecoverable
  <2>2. r.pc = "recover"
    BY <1>0 DEF Proc
  <2> HIDE DEF r
  <2> QED
    BY <1>0, <2>1, <2>2, MoveArrives DEF AtEnd
<1>8. ASSUME RecoverSending PROVE Arrivals
  <2> DEFINE q == proc[Recovery]
             k == Head(q.todo)[1]
             r == [q EXCEPT !.pc = IF outbox[k].state = "sending" /\ IsFormal(k) THEN "failTask" ELSE "recover",
                            !.key = k, !.todo = Tail(q.todo)]
  <2>1. proc' = [proc EXCEPT ![Recovery] = r]
    BY <1>8 DEF RecoverSending
  <2>2. r.pc \in {"failTask", "recover"}
    BY <1>0 DEF Proc
  <2> HIDE DEF r
  <2> QED
    BY <1>0, <2>1, <2>2, MoveArrives DEF AtEnd
<1>9. ASSUME RecoverUnsent PROVE Arrivals
  <2> DEFINE q == proc[Recovery]
             a == [q EXCEPT !.pc = "lease", !.key = Head(q.todo)[1], !.seen = Head(q.todo)[2],
                            !.turn = NoTurn, !.todo = Tail(q.todo)]
             b == [q EXCEPT !.todo = Tail(@)]
  <2>1. proc' = [proc EXCEPT ![Recovery] = a] \/ proc' = [proc EXCEPT ![Recovery] = b] \/ Finish(Recovery)
    BY <1>9 DEF RecoverUnsent
  <2>2. a.pc = "lease" /\ b.pc = "recover"
    BY <1>0, <1>9 DEF RecoverUnsent, Proc
  <2> HIDE DEF a, b
  <2> QED
    BY <1>0, <2>1, <2>2, MoveArrives, FinishArrives DEF AtEnd
<1>10. ASSUME EndRecovery PROVE Arrivals
  BY <1>0, <1>10, FinishArrives DEF EndRecovery
<1> QED
  BY <1>1, <1>2, <1>3, <1>4, <1>5, <1>6, <1>7, <1>8, <1>9, <1>10

-----------------------------------------------------------------------------
(* The calls to the App Server                                             *)

\* The steps of a delivery that read or write a turn, and the end of a turn.
Onstage(p) ==
  \/ MarkSending(p) \/ Decide(p) \/ SteerAccepted(p) \/ SteerStale(p) \/ StartAccepted(p)
  \/ CallRefused(p) \/ ThreadMissing(p) \/ RecordTurn(p) \/ Accept(p) \/ MarkRunning(p)
  \/ BindTask(p) \/ CloseTurn(p)

\* A process keeps its message and its turn.
KeepsCall(p) == proc'[p].key = proc[p].key /\ proc'[p].turn = proc[p].turn

\* A step inside the critical section.
LEMMA InsideMoves ==
  ASSUME TypeInv, NEW p \in Procs, mutex' = mutex, \A q \in Procs \ {p} : proc'[q] = proc[q],
         proc[p].pc \in Delivering
  PROVE  OneMoves(p)
  BY DEF OneMoves, Holds

LEMMA InsideGoto ==
  ASSUME TypeInv, NEW p \in Procs, NEW pc, Goto(p, pc), mutex' = mutex, proc[p].pc \in Delivering
  PROVE  OneMoves(p) /\ proc'[p].pc = pc /\ KeepsCall(p)
  BY GotoMoves, InsideMoves DEF KeepsCall

LEMMA ExitLeaves ==
  ASSUME TypeInv, NEW p \in Procs, NEW ok \in BOOLEAN, proc[p].pc \in Delivering, mutex = p, Exit(p, ok)
  PROVE  OneMoves(p) /\ proc'[p].pc \notin Calling
  BY ExitMoves, IdleHolds DEF Calling

\* Where each step of a call leads.
LEMMA CallSteps ==
  ASSUME TypeInv, NEW p \in Procs
  PROVE  /\ MarkSending(p)   => OneMoves(p) /\ (proc'[p].pc \in Calling => proc'[p].pc = "decide")
         /\ Decide(p)        => OneMoves(p) /\ (proc'[p].pc \in Calling =>
                                  proc'[p].pc = "steer" \/ (proc'[p].pc = "start" /\ ~HasActive))
         /\ SteerAccepted(p) => OneMoves(p) /\ proc'[p].pc = "accept" /\ KeepsCall(p)
         /\ SteerStale(p)    => OneMoves(p) /\ (proc'[p].pc \in Calling =>
                                  proc'[p].pc = "resteer" \/ (proc'[p].pc = "start" /\ ~HasActive))
         /\ StartAccepted(p) => /\ OneMoves(p) /\ proc'[p].pc = "record"
                                /\ proc'[p].turn = NextTurn /\ proc'[p].key = proc[p].key
         /\ CallRefused(p)   => OneMoves(p) /\ proc'[p].pc = "refuse"
         /\ ThreadMissing(p) => OneMoves(p) /\ proc'[p].pc \in {"restart", "refuse"}
         /\ RecordTurn(p)    => OneMoves(p) /\ proc'[p].pc = "accept" /\ KeepsCall(p)
         /\ Accept(p)        => OneMoves(p) /\ (proc'[p].pc \in Calling => proc'[p].pc = "status" /\ KeepsCall(p))
         /\ MarkRunning(p)   => /\ OneMoves(p)
                                /\ proc'[p].pc \in Calling =>
                                     proc'[p].pc = "bindTask" /\ KeepsCall(p) /\ IsFormal(proc[p].key)
         /\ BindTask(p)      => OneMoves(p) /\ proc'[p].pc \notin Calling
         /\ CloseTurn(p)     => OneMoves(p) /\ proc'[p].pc = "closeStatus"
<1>0. proc \in [Procs -> Proc] /\ proc[p] \in Proc
  BY ProcType
<1>1. ASSUME MarkSending(p) PROVE OneMoves(p) /\ (proc'[p].pc \in Calling => proc'[p].pc = "decide")
  <2> DEFINE r == [proc[p] EXCEPT !.pc = "decide", !.seen = "sending"]
  <2>1. mutex = p /\ proc[p].pc = "mark" /\ proc[p].pc \in Delivering
    BY <1>1 DEF MarkSending, Delivering
  <2>2. CASE Exit(p, FALSE)
    BY <2>1, <2>2, ExitLeaves
  <2>3. CASE proc' = [proc EXCEPT ![p] = r] /\ mutex' = mutex
    <3>1. r.pc = "decide"
      BY <1>0 DEF Proc
    <3> HIDE DEF r
    <3> QED
      BY <2>1, <2>3, <3>1, MovesTo, InsideMoves
  <2>4. CASE Goto(p, "decide") /\ mutex' = mutex
    BY <2>1, <2>4, InsideGoto
  <2> QED
    BY <1>1, <2>2, <2>3, <2>4 DEF MarkSending
<1>2. ASSUME Decide(p)
      PROVE  OneMoves(p) /\ (proc'[p].pc \in Calling => proc'[p].pc = "steer" \/ (proc'[p].pc = "start" /\ ~HasActive))
  <2> DEFINE r == [proc[p] EXCEPT !.pc = "steer", !.turn = ActiveTurn]
  <2>1. mutex = p /\ proc[p].pc = "decide" /\ proc[p].pc \in Delivering
    BY <1>2 DEF Decide, Delivering
  <2>2. CASE Exit(p, FALSE) \/ Exit(p, TRUE)
    BY <2>1, <2>2, ExitLeaves
  <2>3. CASE proc' = [proc EXCEPT ![p] = r] /\ mutex' = mutex
    <3>1. r.pc = "steer"
      BY <1>0 DEF Proc
    <3> HIDE DEF r
    <3> QED
      BY <2>1, <2>3, <3>1, MovesTo, InsideMoves
  <2>4. CASE Goto(p, "refuse") /\ mutex' = mutex
    BY <2>1, <2>4, InsideGoto DEF Calling
  <2>5. CASE Goto(p, "start") /\ ~HasActive /\ mutex' = mutex
    BY <2>1, <2>5, InsideGoto
  <2> QED
    BY <1>2, <2>2, <2>3, <2>4, <2>5 DEF Decide
<1>3. ASSUME SteerAccepted(p) PROVE OneMoves(p) /\ proc'[p].pc = "accept" /\ KeepsCall(p)
  BY <1>3, InsideGoto DEF SteerAccepted, Delivering
<1>4. ASSUME SteerStale(p)
      PROVE  OneMoves(p) /\ (proc'[p].pc \in Calling => proc'[p].pc = "resteer" \/ (proc'[p].pc = "start" /\ ~HasActive))
  <2> DEFINE r == [proc[p] EXCEPT !.pc = "resteer", !.turn = ActiveTurn]
  <2>1. mutex' = mutex /\ proc[p].pc \in Delivering
    BY <1>4 DEF SteerStale, Delivering
  <2>2. CASE proc' = [proc EXCEPT ![p] = r]
    <3>1. r.pc = "resteer"
      BY <1>0 DEF Proc
    <3> HIDE DEF r
    <3> QED
      BY <2>1, <2>2, <3>1, MovesTo, InsideMoves
  <2>3. CASE Goto(p, "refuse")
    BY <2>1, <2>3, InsideGoto DEF Calling
  <2>4. CASE Goto(p, "start") /\ ~HasActive
    BY <2>1, <2>4, InsideGoto
  <2> QED
    BY <1>4, <2>2, <2>3, <2>4 DEF SteerStale
<1>5. ASSUME StartAccepted(p)
      PROVE  /\ OneMoves(p) /\ proc'[p].pc = "record"
             /\ proc'[p].turn = NextTurn /\ proc'[p].key = proc[p].key
  <2> DEFINE r == [proc[p] EXCEPT !.pc = "record", !.turn = NextTurn]
  <2>1. r.pc = "record" /\ r.turn = NextTurn /\ r.key = proc[p].key
    BY <1>0 DEF Proc
  <2>2. proc' = [proc EXCEPT ![p] = r]
    BY <1>5 DEF StartAccepted
  <2> HIDE DEF r
  <2> QED
    BY ZenonT(60), <1>5, <2>1, <2>2, MovesTo, InsideMoves DEF StartAccepted, Delivering
<1>6. ASSUME CallRefused(p) PROVE OneMoves(p) /\ proc'[p].pc = "refuse"
  BY <1>6, InsideGoto DEF CallRefused, Delivering
<1>7. ASSUME ThreadMissing(p) PROVE OneMoves(p) /\ proc'[p].pc \in {"restart", "refuse"}
  BY <1>7, InsideGoto DEF ThreadMissing, Delivering
<1>8. ASSUME RecordTurn(p) PROVE OneMoves(p) /\ proc'[p].pc = "accept" /\ KeepsCall(p)
  BY <1>8, InsideGoto DEF RecordTurn, Delivering
<1>9. ASSUME Accept(p) PROVE OneMoves(p) /\ (proc'[p].pc \in Calling => proc'[p].pc = "status" /\ KeepsCall(p))
  BY <1>9, InsideGoto, ExitLeaves DEF Accept, Delivering
<1>10. ASSUME MarkRunning(p)
       PROVE  /\ OneMoves(p)
              /\ proc'[p].pc \in Calling => proc'[p].pc = "bindTask" /\ KeepsCall(p) /\ IsFormal(proc[p].key)
  BY <1>10, InsideGoto, ExitLeaves DEF MarkRunning, Delivering
<1>11. ASSUME BindTask(p) PROVE OneMoves(p) /\ proc'[p].pc \notin Calling
  BY <1>11, ExitLeaves DEF BindTask, Delivering
<1>12. ASSUME CloseTurn(p) PROVE OneMoves(p) /\ proc'[p].pc = "closeStatus"
  BY <1>12, GotoMoves DEF CloseTurn, OneMoves
<1> QED
  BY <1>1, <1>2, <1>3, <1>4, <1>5, <1>6, <1>7, <1>8, <1>9, <1>10, <1>11, <1>12

\* The six kinds of step.
LEMMA NextStage ==
  ASSUME TypeInv, TypeInv', [Next]_vars
  PROVE  \/ Offstage
         \/ \E p \in Procs : Onstage(p)
         \/ \E x \in Turns : ServerEnds(x)
         \/ \E x \in Turns : Notify(x)
         \/ InterruptTurns
         \/ Restart
<1>1. CASE UNCHANGED vars
  BY <1>1 DEF vars, store, remote, Offstage
<1>2. ASSUME NEW c \in Clients, Send(c) \/ Deliver(c) PROVE Offstage
  BY <1>2, KindsDiffer, OffstageRequests
<1>3. ASSUME NEW t \in Tasks, Enqueue(t) \/ Resume(t) \/ Cancel(t) \/ RetryOutput(t) PROVE Offstage
  BY <1>3, KindsDiffer, OffstageRequests
<1>4. ASSUME NEW p \in Procs, Step(p) PROVE Offstage \/ Onstage(p)
  <2>1. CASE SendTask(p) \/ DeliverTask(p) \/ FailRow(p) \/ BindReceipt(p)
    BY <2>1, OffstageRequests
  <2>2. CASE AcquireLease(p) \/ Refuse(p) \/ FailDelivery(p) \/ FailTaskDelivery(p)
    BY <2>2, OffstageDeliveries
  <2>3. CASE \/ Check(p) \/ CompleteTurn(p) \/ ResultRejected(p) \/ ResultAccepted(p) \/ WriteResult(p)
             \/ FailTurn(p) \/ RetryCompletion(p) \/ CloseStatus(p) \/ CompleteCompletion(p)
    BY <2>3, OffstageEnds
  <2>4. CASE ListPending(p) \/ NextPending(p) \/ ListFailed(p) \/ SweepFailed(p)
    BY <2>4, OffstageQueue
  <2> QED
    BY <1>4, <2>1, <2>2, <2>3, <2>4 DEF Step, Onstage
<1>5. ASSUME NEW w \in Workers, NEW x \in Turns, Claim(w, x) PROVE Offstage
  BY <1>5, KindsDiffer, OffstageEnds
<1>6. ASSUME NEW x \in Turns, RequeueStale(x) PROVE Offstage
  BY <1>6, KindsDiffer, OffstageEnds
<1>7. CASE Notifying
  BY <1>7, KindsDiffer, OffstageEnds DEF Notifying
<1>8. CASE Recovering
  BY <1>8, KindsDiffer, OffstageQueue DEF Recovering
<1>9. CASE ExpireLease
  BY <1>9, KindsDiffer, OffstageQueue
<1> QED
  BY <1>1, <1>2, <1>3, <1>4, <1>5, <1>6, <1>7, <1>8, <1>9 DEF Next

LEMMA NextArrivals ==
  ASSUME TypeInv, TypeInv', [Next]_vars
  PROVE  Arrivals
<1>1. CASE UNCHANGED vars
  BY <1>1, SameArrivals DEF vars
<1>2. ASSUME NEW c \in Clients, Send(c) \/ Deliver(c) PROVE Arrivals
  BY <1>2, KindsDiffer, RequestArrivals
<1>3. ASSUME NEW t \in Tasks, Enqueue(t) \/ Resume(t) \/ Cancel(t) \/ RetryOutput(t) PROVE Arrivals
  BY <1>3, KindsDiffer, RequestArrivals
<1>4. ASSUME NEW p \in Procs, Step(p) PROVE Arrivals
  <2>1. CASE SendTask(p) \/ DeliverTask(p) \/ FailRow(p) \/ BindReceipt(p)
    BY <2>1, RequestArrivals
  <2>2. CASE \/ AcquireLease(p) \/ MarkSending(p) \/ Decide(p) \/ SteerAccepted(p) \/ SteerStale(p)
             \/ StartAccepted(p) \/ CallRefused(p) \/ ThreadMissing(p) \/ RecordTurn(p) \/ Accept(p)
             \/ MarkRunning(p) \/ BindTask(p) \/ Refuse(p) \/ FailDelivery(p) \/ FailTaskDelivery(p)
    BY <2>2, DeliveryArrivals
  <2>3. CASE \/ Check(p) \/ CompleteTurn(p) \/ ResultRejected(p) \/ ResultAccepted(p) \/ WriteResult(p)
             \/ FailTurn(p) \/ RetryCompletion(p) \/ CloseTurn(p) \/ CloseStatus(p) \/ CompleteCompletion(p)
    BY <2>3, EndArrivals
  <2>4. CASE ListPending(p) \/ NextPending(p) \/ ListFailed(p) \/ SweepFailed(p)
    BY <2>4, QueueArrivals
  <2> QED
    BY <1>4, <2>1, <2>2, <2>3, <2>4 DEF Step
<1>5. ASSUME NEW w \in Workers, NEW x \in Turns, Claim(w, x) PROVE Arrivals
  BY <1>5, KindsDiffer, EndArrivals
<1>6. ASSUME NEW x \in Turns, ServerEnds(x) \/ RequeueStale(x) PROVE Arrivals
  BY <1>6, KindsDiffer, EndArrivals
<1>7. CASE Notifying
  BY <1>7, KindsDiffer, EndArrivals DEF Notifying
<1>8. CASE Recovering
  BY <1>8, KindsDiffer, QueueArrivals DEF Recovering
<1>9. CASE ExpireLease \/ Restart
  BY <1>9, KindsDiffer, QueueArrivals
<1> QED
  BY <1>1, <1>2, <1>3, <1>4, <1>5, <1>6, <1>7, <1>8, <1>9 DEF Next

-----------------------------------------------------------------------------
(* One process at a time is in the critical section                        *)

\* The end of a turn and the interruption of turns are steps of one process.
LEMMA RestMoves ==
  ASSUME TypeInv
  PROVE  /\ \A x \in Turns : ServerEnds(x) => UNCHANGED <<proc, mutex>>
         /\ \A x \in Turns : Notify(x) =>
              \/ UNCHANGED <<proc, mutex>>
              \/ OneMoves(Notifier) /\ proc'[Notifier].pc \in {"fail", "inbox"} /\ proc'[Notifier].turn = x
         /\ InterruptTurns => OneMoves(Recovery) /\ proc'[Recovery].pc = "snapshot"
<1>0. proc \in [Procs -> Proc] /\ Notifier \in Procs /\ Recovery \in Procs /\ Notifier \notin Pool
  BY ProcType, KindsDiffer
<1>1. ASSUME NEW x \in Turns, ServerEnds(x) PROVE UNCHANGED <<proc, mutex>>
  BY <1>1 DEF ServerEnds
<1>2. ASSUME NEW x \in Turns, Notify(x)
      PROVE  \/ UNCHANGED <<proc, mutex>>
             \/ OneMoves(Notifier) /\ proc'[Notifier].pc \in {"fail", "inbox"} /\ proc'[Notifier].turn = x
  <2> DEFINE r == [Idle EXCEPT !.pc = IF server[x] = "error" THEN "fail" ELSE "inbox", !.turn = x]
  <2>1. mutex' = mutex /\ (proc' = proc \/ proc' = [proc EXCEPT ![Notifier] = r])
    BY <1>2 DEF Notify
  <2>2. r.pc \in {"fail", "inbox"} /\ r.turn = x
    BY DEF Idle
  <2> HIDE DEF r
  <2>3. ~Holds(Notifier, r)
    BY <1>0, <2>2 DEF Holds, Delivering
  <2> QED
    BY <1>0, <2>1, <2>2, <2>3, MovesTo DEF OneMoves
<1>3. ASSUME InterruptTurns PROVE OneMoves(Recovery) /\ proc'[Recovery].pc = "snapshot"
  <2>1. Goto(Recovery, "snapshot") /\ mutex' = mutex
    BY <1>3 DEF InterruptTurns
  <2>2. proc'[Recovery].pc = "snapshot" /\ \A q \in Procs \ {Recovery} : proc'[q] = proc[q]
    BY <1>0, <2>1, GotoMoves
  <2>3. ~Holds(Recovery, proc'[Recovery])
    BY <2>2, KindsDiffer DEF Holds, Delivering
  <2> QED
    BY <2>1, <2>2, <2>3 DEF OneMoves
<1> QED
  BY <1>1, <1>2, <1>3

LEMMA OneMovesLocked ==
  ASSUME Locked, NEW p \in Procs, OneMoves(p)
  PROVE  Locked'
  BY NoneAssumption DEF OneMoves, Locked

\* sync.Mutex: whoever delivers, sweeps or closes a turn holds the mutex of
\* the conversation.
LEMMA LockedStep ==
  ASSUME TypeInv, TypeInv', Locked, [Next]_vars
  PROVE  Locked'
<1>1. CASE UNCHANGED <<proc, mutex>>
  BY <1>1 DEF Locked
<1>2. CASE \E p \in Procs : OneMoves(p)
  BY <1>2, OneMovesLocked
<1>3. CASE Restart
  <2>1. ASSUME NEW p \in Procs PROVE ~Holds(p, proc'[p])
    BY <1>3, KindsDiffer DEF Restart, Idle, Holds, Delivering
  <2> QED
    BY <2>1 DEF Locked
<1>4. CASE Offstage
  BY <1>1, <1>2, <1>4 DEF Offstage
<1>5. ASSUME NEW p \in Procs, Onstage(p) PROVE Locked'
  BY <1>2, <1>5, CallSteps DEF Onstage
<1>6. CASE (\E x \in Turns : ServerEnds(x) \/ Notify(x)) \/ InterruptTurns
  BY <1>1, <1>2, <1>6, RestMoves, KindsDiffer
<1> QED
  BY <1>3, <1>4, <1>5, <1>6, NextStage

\* Two processes are never in a call at the same time.
LEMMA OneCall ==
  ASSUME Locked, NEW p \in Procs, NEW q \in Procs, proc[p].pc \in Delivering, proc[q].pc \in Delivering
  PROVE  p = q
  BY DEF Locked, Holds

-----------------------------------------------------------------------------
(* The turns of the App Server                                             *)

\* What the console knows of a turn, the App Server has begun; a completion
\* and a restart only follow the end of the turn.
OnServer ==
  /\ \A x \in Turns : server[x] = "none" => turnRow[x] = "none" /\ starter[x] = None
  /\ \A x \in Turns : inbox[x] # "none" => server[x] = "over"
  /\ \A x \in epoch : server[x] = "over"
  /\ \A p \in Procs : proc[p].pc = "record" => server[proc[p].turn] # "none"
  /\ \A p \in Procs \ Retries : proc[p].pc \in AtEnd => server[proc[p].turn] = "over"

\* A turn begins once and ends once.
LEMMA ServerStep ==
  ASSUME TypeInv, TypeInv', OnServer, [Next]_vars
  PROVE  /\ \A x \in Turns : server[x] # "none" => server'[x] # "none"
         /\ \A x \in Turns : server[x] = "over" => server'[x] = "over"
         /\ \A x \in Turns : server'[x] = "live" =>
              server[x] = "live" \/ \E p \in Procs : StartAccepted(p) /\ x = NextTurn
<1>0. server \in [Turns -> ServerStates]
  BY DEF TypeInv, TypeOK
<1>1. CASE server' = server
  BY <1>1
<1>2. ASSUME NEW p \in Procs, StartAccepted(p)
      PROVE  /\ \A x \in Turns : server[x] # "none" => server'[x] # "none"
             /\ \A x \in Turns : server[x] = "over" => server'[x] = "over"
             /\ \A x \in Turns : server'[x] = "live" => server[x] = "live" \/ x = NextTurn
  BY <1>0, <1>2, LowestUnused DEF StartAccepted
<1>3. ASSUME NEW p \in Procs, Onstage(p), ~StartAccepted(p) PROVE server' = server
  BY <1>3 DEF Onstage, MarkSending, Decide, SteerAccepted, SteerStale, CallRefused, ThreadMissing, RecordTurn,
     Accept, MarkRunning, BindTask, CloseTurn, remote
<1>4. ASSUME NEW y \in Turns, ServerEnds(y)
      PROVE  /\ \A x \in Turns : server[x] # "none" => server'[x] # "none"
             /\ \A x \in Turns : server[x] = "over" => server'[x] = "over"
             /\ \A x \in Turns : server'[x] = "live" => server[x] = "live"
  BY <1>0, <1>4 DEF ServerEnds
<1>5. ASSUME NEW y \in Turns, Notify(y)
      PROVE  /\ \A x \in Turns : server[x] # "none" => server'[x] # "none"
             /\ \A x \in Turns : server[x] = "over" => server'[x] = "over"
             /\ \A x \in Turns : server'[x] = "live" => server[x] = "live"
  BY <1>0, <1>5 DEF Notify
<1>6. CASE InterruptTurns
  BY <1>1, <1>6 DEF InterruptTurns, remote
<1>7. CASE Restart
  BY <1>7 DEF Restart
<1>8. CASE Offstage
  BY <1>1, <1>8 DEF Offstage
<1> QED
  BY <1>1, <1>2, <1>3, <1>4, <1>5, <1>6, <1>7, <1>8, NextStage

\* The rows of the turns: recorded by the delivery that started the turn, and
\* closed when they are open.
LEMMA TurnRowStep ==
  ASSUME TypeInv, TypeInv', [Next]_vars
  PROVE  \A x \in Turns :
           \/ turnRow'[x] = turnRow[x]
           \/ turnRow[x] = "running" /\ turnRow'[x] # "running" /\ turnRow'[x] # "none"
                /\ \/ \E p \in Procs : proc[p].pc = "close" /\ proc[p].turn = x
                   \/ x \in epoch
           \/ turnRow'[x] = "running" /\ \E p \in Procs : RecordTurn(p) /\ proc[p].turn = x
<1>0. turnRow \in [Turns -> {"none", "running", "completed", "failed"}]
  BY DEF TypeInv, TypeOK
<1>1. CASE turnRow' = turnRow
  BY <1>1
<1>2. ASSUME NEW p \in Procs, Onstage(p), ~RecordTurn(p), ~CloseTurn(p) PROVE turnRow' = turnRow
  BY <1>2 DEF Onstage, MarkSending, Decide, SteerAccepted, SteerStale, StartAccepted, CallRefused, ThreadMissing,
     Accept, MarkRunning, BindTask, store
<1>3. ASSUME NEW p \in Procs, RecordTurn(p), NEW x \in Turns
      PROVE  turnRow'[x] = turnRow[x] \/ (turnRow'[x] = "running" /\ proc[p].turn = x)
  BY <1>0, <1>3 DEF RecordTurn
<1>4. ASSUME NEW p \in Procs, CloseTurn(p), NEW x \in Turns
      PROVE  \/ turnRow'[x] = turnRow[x]
             \/ /\ turnRow[x] = "running" /\ turnRow'[x] = "completed"
                /\ proc[p].pc = "close" /\ proc[p].turn = x
  <2>1. CASE HasActive /\ ActiveTurn = proc[p].turn
    <3>1. turnRow[proc[p].turn] = "running"
      BY <2>1, ActiveTurnType DEF ActiveTurns
    <3> QED
      BY <1>0, <1>4, <2>1, <3>1 DEF CloseTurn
  <2> QED
    BY <1>4, <2>1 DEF CloseTurn
<1>5. ASSUME InterruptTurns, NEW x \in Turns
      PROVE  turnRow'[x] = turnRow[x] \/ (turnRow[x] = "running" /\ turnRow'[x] = "failed" /\ x \in epoch)
  BY <1>5 DEF InterruptTurns, Unreconciled, ActiveTurns
<1>6. CASE (\E x \in Turns : ServerEnds(x) \/ Notify(x)) \/ Restart
  BY <1>1, <1>6 DEF ServerEnds, Notify, Restart, store
<1>7. CASE Offstage
  BY <1>1, <1>7 DEF Offstage
<1> QED
  BY <1>1, <1>2, <1>3, <1>4, <1>5, <1>6, <1>7, NextStage

\* The completions: only the notifier adds one, for its turn.
LEMMA InboxStep ==
  ASSUME TypeInv, [Next]_vars
  PROVE  \A x \in Turns : inbox'[x] # "none" =>
           inbox[x] # "none" \/ (proc[Notifier].pc = "inbox" /\ proc[Notifier].turn = x)
<1>0. inbox \in [Turns -> {"none", "pending", "processing", "done"}]
  BY DEF TypeInv, TypeOK
<1>1. CASE inbox' = inbox
  BY <1>1
<1>2. ASSUME NEW p \in Procs, RetryCompletion(p) \/ CompleteCompletion(p), NEW x \in Turns, inbox'[x] # "none"
      PROVE  inbox[x] # "none"
  BY <1>0, <1>2 DEF RetryCompletion, CompleteCompletion
<1>3. ASSUME PersistCompletion, NEW x \in Turns, inbox'[x] # "none"
      PROVE  inbox[x] # "none" \/ (proc[Notifier].pc = "inbox" /\ proc[Notifier].turn = x)
  BY <1>0, <1>3 DEF PersistCompletion
<1>4. ASSUME NEW w \in Workers, NEW y \in Turns, Claim(w, y), NEW x \in Turns, inbox'[x] # "none"
      PROVE  inbox[x] # "none"
  BY <1>0, <1>4 DEF Claim
<1>5. ASSUME NEW y \in Turns, RequeueStale(y), NEW x \in Turns, inbox'[x] # "none" PROVE inbox[x] # "none"
  BY <1>0, <1>5 DEF RequeueStale
<1>6. ASSUME ResetProcessing, NEW x \in Turns, inbox'[x] # "none" PROVE inbox[x] # "none"
  BY <1>0, <1>6 DEF ResetProcessing
<1>7. ASSUME NEW p \in Procs, Step(p), ~RetryCompletion(p), ~CompleteCompletion(p) PROVE inbox' = inbox
  <2>1. CASE \/ SendTask(p) \/ DeliverTask(p) \/ AcquireLease(p) \/ MarkSending(p) \/ Decide(p)
             \/ SteerAccepted(p) \/ SteerStale(p) \/ StartAccepted(p) \/ CallRefused(p) \/ ThreadMissing(p)
             \/ RecordTurn(p) \/ Accept(p) \/ MarkRunning(p) \/ BindTask(p) \/ Refuse(p)
    BY <2>1 DEF store, SendTask, DeliverTask, AcquireLease, MarkSending, Decide, SteerAccepted, SteerStale,
       StartAccepted, CallRefused, ThreadMissing, RecordTurn, Accept, MarkRunning, BindTask, Refuse
  <2>2. CASE \/ FailDelivery(p) \/ FailTaskDelivery(p) \/ FailRow(p) \/ BindReceipt(p)
             \/ Check(p) \/ CompleteTurn(p) \/ ResultRejected(p) \/ ResultAccepted(p) \/ WriteResult(p)
             \/ FailTurn(p) \/ CloseTurn(p) \/ CloseStatus(p)
             \/ ListPending(p) \/ NextPending(p) \/ ListFailed(p) \/ SweepFailed(p)
    BY <2>2 DEF store, FailDelivery, FailTaskDelivery, FailRow, BindReceipt, Check, CompleteTurn,
       ResultRejected, ResultAccepted, WriteResult, FailTurn, CloseTurn, CloseStatus, ListPending,
       NextPending, ListFailed, SweepFailed
  <2> QED
    BY <1>7, <2>1, <2>2 DEF Step
<1>8. ASSUME NEW c \in Clients, Send(c) \/ Deliver(c) PROVE inbox' = inbox
  BY <1>8 DEF Send, Deliver, store
<1>9. ASSUME NEW t \in Tasks, Enqueue(t) \/ Resume(t) \/ Cancel(t) \/ RetryOutput(t) PROVE inbox' = inbox
  BY <1>9 DEF Enqueue, Resume, Cancel, RetryOutput
<1>10. ASSUME NEW y \in Turns, ServerEnds(y) \/ Notify(y) PROVE inbox' = inbox
  BY <1>10 DEF ServerEnds, Notify, store
<1>11. CASE \/ UNCHANGED vars \/ NotifyFailure \/ ExpireLease \/ Restart \/ InterruptTurns \/ ListRecoverable
            \/ RecoverSending \/ RecoverUnsent \/ EndRecovery
  BY <1>1, <1>11 DEF vars, store, NotifyFailure, ExpireLease, Restart, InterruptTurns, ListRecoverable,
     RecoverSending, RecoverUnsent, EndRecovery
<1> QED
  BY <1>1, <1>2, <1>3, <1>4, <1>5, <1>6, <1>7, <1>8, <1>9, <1>10, <1>11 DEF Next, Notifying, Recovering

\* A turn starts only for the process at the start of one, and it is recorded next.
LEMMA RecordStep ==
  ASSUME TypeInv, TypeInv', [Next]_vars, NEW p \in Procs, proc'[p].pc = "record"
  PROVE  \/ proc'[p] = proc[p]
         \/ /\ StartAccepted(p) /\ proc'[p].turn = NextTurn /\ proc'[p].key = proc[p].key
            /\ proc[p].pc \in {"start", "restart"}
<1>0. "record" \in Calling
  BY DEF Calling
<1>1. CASE Offstage
  BY <1>0, <1>1 DEF Offstage, OneMoves
<1>2. ASSUME NEW q \in Procs, Onstage(q)
      PROVE  proc'[p] = proc[p] \/ (StartAccepted(p) /\ proc'[p].turn = NextTurn /\ proc'[p].key = proc[p].key
                                      /\ proc[p].pc \in {"start", "restart"})
  <2>1. CASE q # p
    <3>1. OneMoves(q)
      BY <1>2, CallSteps DEF Onstage
    <3> QED
      BY <2>1, <3>1 DEF OneMoves
  <2>2. CASE q = p
    <3>1. StartAccepted(p)
      BY <1>0, <1>2, <2>2, CallSteps DEF Onstage, Calling
    <3> QED
      BY <3>1, CallSteps DEF StartAccepted
  <2> QED
    BY <2>1, <2>2
<1>3. CASE (\E x \in Turns : ServerEnds(x) \/ Notify(x)) \/ InterruptTurns
  <2>1. Notifier \in Procs /\ Recovery \in Procs
    BY KindsDiffer
  <2> QED
    BY <1>3, <2>1, RestMoves DEF OneMoves
<1>4. CASE Restart
  BY <1>4 DEF Restart, Idle
<1> QED
  BY <1>1, <1>2, <1>3, <1>4, NextStage

LEMMA OnServerStep ==
  ASSUME TypeInv, TypeInv', OnServer, [Next]_vars
  PROVE  OnServer'
<1>0. /\ server \in [Turns -> ServerStates] /\ starter \in [Turns -> Keys \cup {None}]
      /\ turnRow \in [Turns -> {"none", "running", "completed", "failed"}]
  BY DEF TypeInv, TypeOK
<1>1. ASSUME NEW x \in Turns, server'[x] = "none" PROVE turnRow'[x] = "none" /\ starter'[x] = None
  <2>1. server[x] = "none" /\ turnRow[x] = "none" /\ starter[x] = None
    BY <1>1, ServerStep DEF OnServer
  <2>2. turnRow'[x] = "none"
    <3>1. CASE turnRow'[x] = turnRow[x]
      BY <2>1, <3>1
    <3>2. ASSUME NEW p \in Procs, RecordTurn(p), proc[p].turn = x PROVE FALSE
      BY <2>1, <3>2 DEF OnServer, RecordTurn
    <3> QED
      BY <2>1, <3>1, <3>2, TurnRowStep
  <2>3. starter'[x] = None
    <3>1. CASE starter' = starter
      BY <2>1, <3>1
    <3>2. ASSUME NEW p \in Procs, StartAccepted(p) PROVE starter'[x] = None
      <4>1. NextTurn \in Turns /\ server' = [server EXCEPT ![NextTurn] = "live"]
            /\ starter' = [starter EXCEPT ![NextTurn] = proc[p].key]
        BY <3>2, LowestUnused DEF StartAccepted
      <4>2. x # NextTurn
        BY <1>0, <1>1, <4>1
      <4> QED
        BY <1>0, <2>1, <4>1, <4>2
    <3>3. CASE Offstage
      BY <3>1, <3>3 DEF Offstage
    <3>4. ASSUME NEW p \in Procs, Onstage(p), ~StartAccepted(p) PROVE starter' = starter
      BY <3>4 DEF Onstage, MarkSending, Decide, SteerAccepted, SteerStale, CallRefused, ThreadMissing, RecordTurn,
         Accept, MarkRunning, BindTask, CloseTurn, remote
    <3>5. CASE (\E y \in Turns : ServerEnds(y) \/ Notify(y)) \/ InterruptTurns \/ Restart
      BY <3>1, <3>5 DEF ServerEnds, Notify, InterruptTurns, Restart, remote
    <3> QED
      BY <3>1, <3>2, <3>3, <3>4, <3>5, NextStage
  <2> QED
    BY <2>2, <2>3
<1>2. ASSUME NEW x \in Turns, inbox'[x] # "none" PROVE server'[x] = "over"
  <2>1. server[x] = "over"
    BY <1>2, InboxStep, KindsDiffer DEF OnServer, AtEnd
  <2> QED
    BY <2>1, ServerStep
<1>3. ASSUME NEW x \in epoch' PROVE server'[x] = "over"
  <2>1. CASE Restart
    <3>1. x \in Turns /\ turnRow[x] # "none" /\ server' = [y \in Turns |-> IF server[y] = "none" THEN "none" ELSE "over"]
      BY <1>3, <2>1 DEF Restart
    <3> QED
      BY <3>1 DEF OnServer
  <2>2. CASE epoch' = epoch
    <3>1. x \in Turns /\ server[x] = "over"
      BY <1>3, <2>2 DEF OnServer, TypeInv, TypeOK
    <3> QED
      BY <3>1, ServerStep
  <2>3. ASSUME NEW p \in Procs, Onstage(p) PROVE epoch' = epoch
    BY <2>3 DEF Onstage, MarkSending, Decide, SteerAccepted, SteerStale, StartAccepted, CallRefused, ThreadMissing,
       RecordTurn, Accept, MarkRunning, BindTask, CloseTurn
  <2>4. CASE (\E y \in Turns : ServerEnds(y) \/ Notify(y)) \/ InterruptTurns
    BY <2>2, <2>4 DEF ServerEnds, Notify, InterruptTurns
  <2> QED
    BY <2>1, <2>2, <2>3, <2>4, NextStage DEF Offstage
<1>4. ASSUME NEW p \in Procs, proc'[p].pc = "record" PROVE server'[proc'[p].turn] # "none"
  <2>1. CASE proc'[p] = proc[p]
    <3>1. proc[p].pc = "record" /\ proc[p].turn \in Turns
      BY <1>4, <2>1, ProcType DEF Carries, AtTurn
    <3>2. server[proc[p].turn] # "none"
      BY <3>1 DEF OnServer
    <3> QED
      BY <2>1, <3>1, <3>2, ServerStep
  <2>2. CASE StartAccepted(p) /\ proc'[p].turn = NextTurn
    BY <1>0, <2>2, LowestUnused DEF StartAccepted
  <2> QED
    BY <1>4, <2>1, <2>2, RecordStep
<1>5. ASSUME NEW p \in Procs \ Retries, proc'[p].pc \in AtEnd PROVE server'[proc'[p].turn] = "over"
  <2> DEFINE x == proc'[p].turn
  <2>1. x \in Turns
    <3>1. Carries(p, proc[p])'
      BY DEF TypeInv, Processes, Local
    <3> QED
      BY <1>5, <3>1 DEF Carries, AtTurn
  <2>2. server[x] = "over" \/ Notify(x)
    BY <1>5, <2>1, NextArrivals DEF Arrivals, Arrives, OnServer
  <2>3. CASE server[x] = "over"
    BY <2>1, <2>3, ServerStep
  <2>4. CASE Notify(x)
    BY <1>0, <2>1, <2>4 DEF Notify
  <2> QED
    BY <2>2, <2>3, <2>4
<1> QED
  BY <1>1, <1>2, <1>3, <1>4, <1>5 DEF OnServer

-----------------------------------------------------------------------------
(* One turn at a time                                                      *)

\* At most one row is running, none while a turn is being started, and a turn
\* that runs on the App Server has its row or is just being recorded.
OneOpen ==
  /\ \A x, y \in ActiveTurns : x = y
  /\ \A p \in Procs : proc[p].pc \in {"start", "restart", "record"} => ~HasActive
  /\ \A x \in Turns : server[x] = "live" =>
       turnRow[x] = "running" \/ \E p \in Procs : proc[p].pc = "record" /\ proc[p].turn = x

\* A process gets to the start of a turn only when none is open, and leaves
\* it for the recording.
LEMMA StartStep ==
  ASSUME TypeInv, TypeInv', [Next]_vars, NEW p \in Procs, proc'[p].pc \in {"start", "restart", "record"}
  PROVE  /\ \A q \in Procs : ~RecordTurn(q) \/ q # p
         /\ proc[p].pc \in {"start", "restart", "record"} \/ ~HasActive
         /\ proc[p].pc \in Delivering
<1>0. proc'[p].pc \in Calling /\ Delivering \cap {"idle", "reset"} = {}
  BY DEF Calling, Delivering
<1>1. ~RecordTurn(p)
  BY CallSteps
<1>2. CASE proc'[p] = proc[p]
  BY <1>1, <1>2 DEF Delivering
<1>3. CASE Offstage
  BY <1>0, <1>2, <1>3 DEF Offstage, OneMoves
<1>4. ASSUME NEW q \in Procs, Onstage(q), q = p
      PROVE  (proc[p].pc \in {"start", "restart", "record"} \/ ~HasActive) /\ proc[p].pc \in Delivering
  <2>1. CASE Decide(p) \/ SteerStale(p)
    <3>1. proc[p].pc \in {"decide", "steer", "resteer"}
      BY <2>1 DEF Decide, SteerStale
    <3>2. proc'[p].pc = "start" => ~HasActive
      BY <1>0, <2>1, CallSteps
    <3>3. proc'[p].pc \notin {"restart", "record"}
      BY <1>0, <2>1, CallSteps
    <3> QED
      BY <3>1, <3>2, <3>3 DEF Delivering
  <2>2. CASE StartAccepted(p) \/ ThreadMissing(p)
    BY <2>2 DEF StartAccepted, ThreadMissing, Delivering
  <2>3. CASE ~(Decide(p) \/ SteerStale(p) \/ StartAccepted(p) \/ ThreadMissing(p))
    BY <1>0, <1>4, <2>3, CallSteps DEF Onstage
  <2> QED
    BY <2>1, <2>2, <2>3
<1>5. ASSUME NEW q \in Procs, Onstage(q), q # p PROVE proc'[p] = proc[p]
  BY <1>5, CallSteps DEF Onstage, OneMoves
<1>6. CASE (\E x \in Turns : ServerEnds(x) \/ Notify(x)) \/ InterruptTurns
  BY <1>2, <1>6, RestMoves, KindsDiffer DEF OneMoves
<1>7. CASE Restart
  BY <1>7 DEF Restart, Idle
<1> QED
  BY <1>1, <1>2, <1>3, <1>4, <1>5, <1>6, <1>7, NextStage

LEMMA OneOpenStep ==
  ASSUME TypeInv, TypeInv', Locked, OnServer, OneOpen, [Next]_vars
  PROVE  OneOpen'
<1>0. /\ server \in [Turns -> ServerStates]
      /\ turnRow \in [Turns -> {"none", "running", "completed", "failed"}]
      /\ turnRow' \in [Turns -> {"none", "running", "completed", "failed"}]
  BY DEF TypeInv, TypeOK
<1>1. ASSUME NEW x \in Turns, turnRow'[x] = "running"
      PROVE  turnRow[x] = "running" \/ \E p \in Procs : RecordTurn(p) /\ proc[p].turn = x
  BY <1>1, TurnRowStep
<1>2. ASSUME NEW p \in Procs, RecordTurn(p) PROVE ~HasActive
  BY <1>2 DEF OneOpen, RecordTurn
<1>3. ASSUME NEW p \in Procs, RecordTurn(p), NEW q \in Procs, RecordTurn(q) PROVE p = q
  BY <1>3, OneCall DEF RecordTurn, Delivering
<1>4. ASSUME NEW x \in ActiveTurns', NEW y \in ActiveTurns' PROVE x = y
  <2>1. /\ x \in Turns /\ y \in Turns
        /\ x \in ActiveTurns \/ \E p \in Procs : RecordTurn(p) /\ proc[p].turn = x
        /\ y \in ActiveTurns \/ \E p \in Procs : RecordTurn(p) /\ proc[p].turn = y
    BY <1>1 DEF ActiveTurns
  <2> QED
    BY <1>2, <1>3, <2>1 DEF OneOpen, HasActive
<1>5. ASSUME NEW p \in Procs, proc'[p].pc \in {"start", "restart", "record"} PROVE ~HasActive'
  <2>1. ~HasActive
    BY <1>5, StartStep DEF OneOpen
  <2>2. ASSUME NEW q \in Procs PROVE ~RecordTurn(q)
    <3>1. q # p => ~RecordTurn(q)
      BY <1>5, StartStep, OneCall DEF RecordTurn, Delivering
    <3> QED
      BY <1>5, <3>1, StartStep
  <2> QED
    BY <1>1, <2>1, <2>2 DEF HasActive, ActiveTurns
<1>6. ASSUME NEW x \in Turns, server'[x] = "live"
      PROVE  turnRow'[x] = "running" \/ \E p \in Procs : proc'[p].pc = "record" /\ proc'[p].turn = x
  <2>1. ASSUME NEW p \in Procs, StartAccepted(p), x = NextTurn
        PROVE  proc'[p].pc = "record" /\ proc'[p].turn = x
    BY <2>1, CallSteps
  <2>2. CASE server[x] = "live" /\ turnRow[x] = "running"
    <3>1. x \notin epoch /\ \A p \in Procs : ~(proc[p].pc = "close" /\ proc[p].turn = x)
      <4>1. ASSUME NEW p \in Procs, proc[p].pc = "close", proc[p].turn = x PROVE FALSE
        <5>1. p \notin Retries /\ "close" \in AtEnd
          BY <4>1, ProcType DEF Kinds, AtEnd
        <5> QED
          BY <2>2, <4>1, <5>1 DEF OnServer
      <4> QED
        BY <2>2, <4>1 DEF OnServer
    <3> QED
      BY <2>2, <3>1, TurnRowStep
  <2>3. ASSUME server[x] = "live", NEW p \in Procs, proc[p].pc = "record", proc[p].turn = x
        PROVE  turnRow'[x] = "running" \/ (proc'[p].pc = "record" /\ proc'[p].turn = x)
    <3>1. CASE proc'[p] = proc[p]
      BY <2>3, <3>1
    <3>2. CASE RecordTurn(p)
      BY <1>0, <2>3, <3>2 DEF RecordTurn
    <3>3. CASE Restart
      BY <1>0, <1>6, <3>3 DEF Restart
    <3>4. CASE Offstage
      <4>1. "record" \in Calling
        BY DEF Calling
      <4> QED
        BY <2>3, <3>1, <3>4, <4>1 DEF Offstage, OneMoves
    <3>5. ASSUME NEW q \in Procs, Onstage(q) PROVE proc'[p] = proc[p] \/ RecordTurn(p)
      <4>1. CASE q # p
        BY <3>5, <4>1, CallSteps DEF Onstage, OneMoves
      <4>2. CASE q = p
        BY <2>3, <3>5, <4>2 DEF Onstage, MarkSending, Decide, SteerAccepted, SteerStale, StartAccepted,
           CallRefused, ThreadMissing, Accept, MarkRunning, BindTask, CloseTurn
      <4> QED
        BY <4>1, <4>2
    <3>6. ASSUME NEW y \in Turns, ServerEnds(y) PROVE proc'[p] = proc[p]
      BY <3>6, RestMoves
    <3>7. ASSUME NEW y \in Turns, Notify(y) PROVE proc'[p] = proc[p]
      <4>1. p # Notifier
        BY <2>3, ProcType DEF Kinds
      <4> QED
        BY <3>7, <4>1, RestMoves DEF OneMoves
    <3>8. ASSUME InterruptTurns PROVE proc'[p] = proc[p]
      <4>1. p # Recovery
        BY <2>3, <3>8 DEF InterruptTurns
      <4> QED
        BY <3>8, <4>1, RestMoves DEF OneMoves
    <3> QED
      BY <3>1, <3>2, <3>3, <3>4, <3>5, <3>6, <3>7, <3>8, NextStage
  <2> QED
    BY <1>6, <2>1, <2>2, <2>3, ServerStep DEF OneOpen
<1> QED
  BY <1>4, <1>5, <1>6 DEF OneOpen

LEMMA InitStage == Init => Locked /\ OnServer /\ OneOpen
<1> SUFFICES ASSUME Init PROVE Locked /\ OnServer /\ OneOpen
  OBVIOUS
<1>1. /\ \A p \in Procs : proc[p] = Idle
      /\ \A x \in Turns : server[x] = "none" /\ turnRow[x] = "none" /\ starter[x] = None /\ inbox[x] = "none"
      /\ epoch = {}
  BY DEF Init
<1>2. ActiveTurns = {}
  BY <1>1 DEF ActiveTurns
<1>3. Idle.pc = "idle"
  BY DEF Idle
<1>4. Locked
  BY <1>1, IdleHolds DEF Locked
<1>5. OnServer
  BY <1>1, <1>3 DEF OnServer, AtEnd
<1>6. OneOpen
  BY <1>1, <1>2, <1>3 DEF OneOpen
<1> QED
  BY <1>4, <1>5, <1>6

LEMMA StageInvariant == Spec => [](TypeInv /\ AppServerTasks /\ Locked /\ OnServer /\ OneOpen)
<1>1. Init => Locked /\ OnServer /\ OneOpen
  BY InitStage
<1>2. TypeInv /\ TypeInv' /\ Locked /\ OnServer /\ OneOpen /\ [Next]_vars => (Locked /\ OnServer /\ OneOpen)'
  BY LockedStep, OnServerStep, OneOpenStep
<1> QED
  BY <1>1, <1>2, TypeInvariant, PTL DEF Spec

\* A conversation never has two open turns, in the store or on the App Server
\* (OneActiveTurn), although requests, completion workers and the recovery
\* all start turns.
THEOREM OneTurnAtATime == Spec => []OneActiveTurn
<1>1. TypeInv /\ Locked /\ OneOpen => OneActiveTurn
  <2> SUFFICES ASSUME TypeInv, Locked, OneOpen PROVE OneActiveTurn
    OBVIOUS
  <2> DEFINE L == {x \in Turns : server[x] = "live"}
  <2>1. ASSUME NEW S, \A x, y \in S : x = y PROVE Cardinality(S) <= 1
    <3>1. CASE S = {}
      BY <3>1, FS_EmptySet
    <3>2. CASE S # {}
      <4>1. PICK x \in S : S = {x}
        BY <2>1, <3>2
      <4> QED
        BY <4>1, FS_Singleton
    <3> QED
      BY <3>1, <3>2
  <2>2. Cardinality(ActiveTurns) <= 1
    BY <2>1 DEF OneOpen
  <2>3. ASSUME NEW x \in L, NEW y \in L PROVE x = y
    <3>1. /\ x \in ActiveTurns \/ \E p \in Procs : proc[p].pc = "record" /\ proc[p].turn = x
          /\ y \in ActiveTurns \/ \E p \in Procs : proc[p].pc = "record" /\ proc[p].turn = y
      BY <2>3 DEF OneOpen, ActiveTurns
    <3>2. ASSUME NEW p \in Procs, NEW q \in Procs, proc[p].pc = "record", proc[q].pc = "record" PROVE p = q
      BY <3>2, OneCall DEF Delivering
    <3> QED
      BY <3>1, <3>2 DEF OneOpen, HasActive
  <2>4. Cardinality(L) <= 1
    BY <2>1, <2>3
  <2> QED
    BY <2>2, <2>4 DEF OneActiveTurn
<1> QED
  BY <1>1, StageInvariant, PTL

-----------------------------------------------------------------------------
(* The life of a message                                                   *)

\* Who stores a message.
Stores(k) ==
  \/ \E c \in Clients : Send(c) /\ ChatOf[c] = k
  \/ \E t \in Tasks : Resume(t) /\ k = <<t, rows[t].turn>>
  \/ \E p \in Requests : SendTask(p) /\ proc[p].key = k /\ proc'[p].pc = "lock"

\* Who fails a message, and in which state it finds it.
Fails(k) ==
  \/ \E p \in Procs : Refuse(p) /\ proc[p].key = k /\ outbox[k].state = "sending"
  \/ \E p \in Procs : FailDelivery(p) /\ proc[p].key = k
  \/ \E p \in Pool : NextPending(p) /\ outbox[k].state = "queued" /\ ~Deliverable(k)
  \/ RecoverSending /\ outbox[k].state = "sending"
  \/ RecoverUnsent /\ outbox[k].state \in {"pending", "queued"} /\ ~Deliverable(k)

\* What a step may do to a message.
OutboxStep(k) ==
  \/ outbox'[k] = outbox[k]
  \/ outbox[k].state = "absent" /\ outbox'[k].state \in {"pending", "queued"} /\ Stores(k)
  \/ \E p \in Procs :
       /\ MarkSending(p) /\ proc[p].key = k /\ proc[p].seen \in {"pending", "queued"}
       /\ outbox[k].state = proc[p].seen /\ outbox'[k].state = "sending" /\ proc'[p].pc = "decide"
  \/ \E p \in Procs :
       /\ Decide(p) /\ proc[p].key = k
       /\ outbox[k].state = "sending" /\ outbox'[k].state = "queued" /\ proc'[p].pc \notin Calling
  \/ \E p \in Procs :
       /\ Accept(p) /\ proc[p].key = k
       /\ outbox[k].state = "sending"
       /\ outbox'[k].state = "accepted" /\ outbox'[k].turn = proc[p].turn
       /\ proc'[p].pc = "status" /\ KeepsCall(p)
  \/ outbox'[k].state = "failed" /\ Fails(k)

OutboxSteps == \A k \in Keys : OutboxStep(k)

LEMMA SameOutbox ==
  ASSUME outbox' = outbox
  PROVE  OutboxSteps
  BY DEF OutboxSteps, OutboxStep

\* A step that writes one message.
LEMMA OneMessage ==
  ASSUME TypeInv, NEW k \in Keys, \A j \in Keys \ {k} : outbox'[j] = outbox[j], OutboxStep(k)
  PROVE  OutboxSteps
<1>1. ASSUME NEW j \in Keys PROVE OutboxStep(j)
  <2>1. CASE j = k
    BY <2>1
  <2>2. CASE j # k
    BY <2>2 DEF OutboxStep
  <2> QED
    BY <2>1, <2>2
<1> QED
  BY <1>1 DEF OutboxSteps

LEMMA FailsOne ==
  ASSUME NEW k, outbox'[k].state = "failed", Fails(k)
  PROVE  OutboxStep(k)
  BY DEF OutboxStep

LEMMA InsertOne ==
  ASSUME TypeInv, NEW k \in Keys, NEW state \in {"pending", "queued"}, Insert(k, state), Stores(k)
  PROVE  OutboxSteps
<1>0. outbox \in [Keys -> [state : OutboxStates, turn : Turns \cup {NoTurn}]]
  BY DEF TypeInv, TypeOK
<1>1. outbox[k].state = "absent" /\ outbox'[k].state = state /\ \A j \in Keys \ {k} : outbox'[j] = outbox[j]
  BY <1>0 DEF Insert
<1>2. OutboxStep(k)
  BY <1>1 DEF OutboxStep
<1> QED
  BY <1>1, <1>2, OneMessage

LEMMA SetsOne ==
  ASSUME TypeInv, NEW k \in Keys, NEW expected, NEW next, NEW x, SetOutbox(k, expected, next, x)
  PROVE  /\ outbox[k].state = expected /\ outbox'[k].state = next /\ outbox'[k].turn = x
         /\ \A j \in Keys \ {k} : outbox'[j] = outbox[j]
<1>0. outbox \in [Keys -> [state : OutboxStates, turn : Turns \cup {NoTurn}]]
  BY DEF TypeInv, TypeOK
<1>1. outbox'[k] = [state |-> next, turn |-> x]
  BY <1>0 DEF SetOutbox
<1> QED
  BY <1>0, <1>1 DEF SetOutbox

LEMMA RequestOutbox ==
  ASSUME TypeInv, TypeInv', NEW p \in Procs
  PROVE  /\ \A c \in Clients : Send(c) => OutboxSteps
         /\ \A t \in Tasks : Resume(t) => OutboxSteps
         /\ SendTask(p) => OutboxSteps
<1>1. ASSUME NEW c \in Clients, Send(c) PROVE OutboxSteps
  <2>1. ChatOf[c] \in Keys
    BY ChatAssumption DEF Keys
  <2>2. Stores(ChatOf[c])
    BY <1>1 DEF Stores
  <2>3. CASE \E state \in {"pending", "queued"} : Insert(ChatOf[c], state)
    BY <2>1, <2>2, <2>3, InsertOne
  <2>4. CASE outbox' = outbox
    BY <2>4, SameOutbox
  <2> QED
    BY <1>1, <2>3, <2>4 DEF Send
<1>2. ASSUME NEW t \in Tasks, Resume(t) PROVE OutboxSteps
  <2> DEFINE k == <<t, rows[t].turn>>
  <2>1. k \in Keys
    BY RowIn DEF Keys
  <2>2. Stores(k)
    BY <1>2 DEF Stores
  <2>3. Insert(k, "queued")
    BY <1>2 DEF Resume
  <2> QED
    BY <2>1, <2>2, <2>3, InsertOne
<1>3. ASSUME SendTask(p) PROVE OutboxSteps
  <2>1. proc[p].pc = "send" /\ p \in Requests
    BY <1>3, ProcType, KindsDiffer DEF SendTask, Kinds, Delivering
  <2>2. proc[p].key \in Keys
    BY <2>1, RequestKey
  <2>3. CASE Insert(proc[p].key, "queued") /\ Goto(p, "lock")
    <3>1. Stores(proc[p].key)
      BY <1>3, <2>1, <2>3, GotoMoves DEF Stores
    <3> QED
      BY <2>2, <2>3, <3>1, InsertOne
  <2>4. CASE outbox' = outbox
    BY <2>4, SameOutbox
  <2> QED
    BY <1>3, <2>3, <2>4 DEF SendTask
<1> QED
  BY <1>1, <1>2, <1>3

LEMMA DeliveryOutbox ==
  ASSUME TypeInv, TypeInv', NEW p \in Procs
  PROVE  MarkSending(p) \/ Decide(p) \/ Accept(p) \/ Refuse(p) \/ FailDelivery(p) => OutboxSteps
<1> DEFINE k == proc[p].key
<1>0. /\ outbox \in [Keys -> [state : OutboxStates, turn : Turns \cup {NoTurn}]]
      /\ proc \in [Procs -> Proc] /\ proc[p] \in Proc
  BY ProcType DEF TypeInv, TypeOK
<1>1. CASE outbox' = outbox
  BY <1>1, SameOutbox
<1>2. ASSUME MarkSending(p), outbox' # outbox PROVE OutboxSteps
  <2> DEFINE r == [proc[p] EXCEPT !.pc = "decide", !.seen = "sending"]
  <2>1. k \in Keys
    BY <1>2, DeliveredKey DEF MarkSending, Delivering
  <2>2. /\ proc[p].seen \in {"pending", "queued"} /\ SetOutbox(k, proc[p].seen, "sending", NoTurn)
        /\ proc' = [proc EXCEPT ![p] = r]
    BY <1>2 DEF MarkSending
  <2>3. r.pc = "decide"
    BY <1>0 DEF Proc
  <2> HIDE DEF r
  <2>4. proc'[p].pc = "decide"
    BY <2>2, <2>3, MovesTo
  <2>5. /\ outbox[k].state = proc[p].seen /\ outbox'[k].state = "sending"
        /\ \A j \in Keys \ {k} : outbox'[j] = outbox[j]
    <3> HIDE DEF k
    <3> QED
      BY <1>0, <2>1, <2>2 DEF SetOutbox
  <2>6. OutboxStep(k)
    BY <1>2, <2>1, <2>2, <2>4, <2>5 DEF OutboxStep
  <2> QED
    BY <2>1, <2>5, <2>6, OneMessage
<1>3. ASSUME Decide(p), outbox' # outbox PROVE OutboxSteps
  <2>1. k \in Keys /\ proc[p].pc \in Delivering /\ mutex = p
    BY <1>3, DeliveredKey DEF Decide, Delivering
  <2>2. SetOutbox(k, "sending", "queued", NoTurn) /\ Exit(p, TRUE)
    BY <1>3 DEF Decide
  <2>3. OutboxStep(k)
    BY ZenonT(60), <1>3, <2>1, <2>2, SetsOne, ExitLeaves DEF OutboxStep
  <2> QED
    BY <2>1, <2>2, <2>3, SetsOne, OneMessage
<1>4. ASSUME Accept(p), outbox' # outbox PROVE OutboxSteps
  <2>1. k \in Keys /\ proc[p].pc \in Delivering /\ mutex = p
    BY <1>4, DeliveredKey DEF Accept, Delivering
  <2>2. SetOutbox(k, "sending", "accepted", proc[p].turn) /\ Goto(p, "status")
    BY <1>4 DEF Accept
  <2>3. proc'[p].pc = "status" /\ KeepsCall(p)
    BY <2>2, GotoMoves DEF KeepsCall
  <2>4. OutboxStep(k)
    BY <1>4, <2>1, <2>2, <2>3, SetsOne DEF OutboxStep
  <2> QED
    BY <2>1, <2>2, <2>4, SetsOne, OneMessage
<1>5. ASSUME Refuse(p), outbox' # outbox PROVE OutboxSteps
  <2>1. k \in Keys
    BY <1>5, DeliveredKey DEF Refuse, Delivering
  <2>2. SetOutbox(k, "sending", "failed", NoTurn)
    BY <1>5 DEF Refuse
  <2>3. OutboxStep(k)
    BY <1>5, <2>1, <2>2, SetsOne DEF OutboxStep, Fails
  <2> QED
    BY <2>1, <2>2, <2>3, SetsOne, OneMessage
<1>6. ASSUME FailDelivery(p) PROVE OutboxSteps
  <2>1. k \in Keys
    BY <1>6, ProcType DEF FailDelivery, Carries
  <2>2. outbox' = [outbox EXCEPT ![k].state = "failed"]
    BY <1>6 DEF FailDelivery
  <2>3. outbox'[k].state = "failed" /\ \A j \in Keys \ {k} : outbox'[j] = outbox[j]
    BY <1>0, <2>1, <2>2
  <2>4. OutboxStep(k)
    BY <1>6, <2>1, <2>3 DEF OutboxStep, Fails
  <2> QED
    BY <2>1, <2>3, <2>4, OneMessage
<1> QED
  BY <1>1, <1>2, <1>3, <1>4, <1>5, <1>6

\* The head of a list is one of its messages.
LEMMA HeadIn ==
  ASSUME TypeInv, NEW p \in Procs, proc[p].todo # <<>>
  PROVE  /\ Head(proc[p].todo)[1] \in Keys
         /\ 1 \in DOMAIN proc[p].todo /\ Head(proc[p].todo) = proc[p].todo[1]
<1>1. proc[p].todo \in Seq(Keys \X OutboxStates)
  BY ProcType DEF Proc
<1>2. Head(proc[p].todo) \in Keys \X OutboxStates
  BY <1>1, HeadTailProperties
<1>3. 1 \in DOMAIN proc[p].todo /\ Head(proc[p].todo) = proc[p].todo[1]
  BY <1>1, EmptySeq
<1> QED
  BY <1>2, <1>3

LEMMA QueueOutbox ==
  ASSUME TypeInv, TypeInv', NEW p \in Procs
  PROVE  /\ NextPending(p) => OutboxSteps
         /\ RecoverSending \/ RecoverUnsent => OutboxSteps
<1>0. /\ outbox \in [Keys -> [state : OutboxStates, turn : Turns \cup {NoTurn}]]
      /\ Recovery \in Procs
  BY KindsDiffer DEF TypeInv, TypeOK
<1>1. CASE outbox' = outbox
  BY <1>1, SameOutbox
<1>2. ASSUME NextPending(p), outbox' # outbox PROVE OutboxSteps
  <2> DEFINE k == Head(proc[p].todo)[1]
             state == Head(proc[p].todo)[2]
  <2>1. SetOutbox(k, state, "failed", NoTurn) /\ ~Deliverable(k) /\ proc[p].todo # <<>> /\ proc[p].pc = "after"
    BY <1>2 DEF NextPending
  <2>2. k \in Keys /\ p \in Pool
    BY <2>1, HeadIn, ProcType, KindsDiffer DEF Kinds, Delivering
  <2>3. state = "queued"
    BY <2>1, <2>2, HeadIn, ProcType DEF Carries
  <2> HIDE DEF k, state
  <2>4. /\ outbox[k].state = "queued" /\ outbox'[k].state = "failed"
        /\ \A j \in Keys \ {k} : outbox'[j] = outbox[j]
    BY <2>1, <2>2, <2>3, SetsOne
  <2>5. Fails(k)
    BY <1>2, <2>1, <2>2, <2>4 DEF Fails
  <2>6. OutboxStep(k)
    BY <2>4, <2>5, FailsOne
  <2> QED
    BY <2>2, <2>4, <2>6, OneMessage
<1>3. ASSUME RecoverSending, outbox' # outbox PROVE OutboxSteps
  <2> DEFINE k == Head(proc[Recovery].todo)[1]
  <2>1. outbox' = [outbox EXCEPT ![k].state = "failed"] /\ outbox[k].state = "sending" /\ proc[Recovery].todo # <<>>
    BY <1>3 DEF RecoverSending
  <2>2. k \in Keys
    BY <1>0, <2>1, HeadIn
  <2>3. outbox'[k].state = "failed" /\ \A j \in Keys \ {k} : outbox'[j] = outbox[j]
    <3> HIDE DEF k
    <3> QED
      BY <1>0, <2>1, <2>2
  <2>4. Fails(k)
    BY <1>3, <2>1 DEF Fails
  <2>5. OutboxStep(k)
    BY <2>3, <2>4, FailsOne
  <2> QED
    BY <2>2, <2>3, <2>5, OneMessage
<1>4. ASSUME RecoverUnsent, outbox' # outbox PROVE OutboxSteps
  <2> DEFINE k == Head(proc[Recovery].todo)[1]
             state == Head(proc[Recovery].todo)[2]
  <2>1. SetOutbox(k, state, "failed", NoTurn) /\ ~Deliverable(k) /\ proc[Recovery].todo # <<>> /\ state # "sending"
    BY <1>4 DEF RecoverUnsent
  <2>2. k \in Keys
    BY <1>0, <2>1, HeadIn
  <2>3. state \in {"pending", "queued"}
    BY <1>0, <2>1, HeadIn, ProcType DEF Carries
  <2>4. OutboxStep(k)
    <3>1. outbox[k].state = state
      BY <2>1 DEF SetOutbox
    <3>2. outbox'[k].state = "failed"
      <4> HIDE DEF k, state
      <4> QED
        BY <1>0, <2>1, <2>2 DEF SetOutbox
    <3>3. Fails(k)
      BY <1>4, <2>1, <2>3, <3>1 DEF Fails
    <3> QED
      BY <3>2, <3>3, FailsOne
  <2> HIDE DEF k, state
  <2> QED
    BY <2>1, <2>2, <2>4, SetsOne, OneMessage
<1> QED
  BY <1>1, <1>2, <1>3, <1>4

\* Every step takes every message one step through its life.
LEMMA NextOutbox ==
  ASSUME TypeInv, TypeInv', [Next]_vars
  PROVE  OutboxSteps
<1>0. Recovery \in Procs
  BY KindsDiffer
<1>1. CASE outbox' = outbox
  BY <1>1, SameOutbox
<1>2. ASSUME NEW c \in Clients, Send(c) \/ Deliver(c) PROVE OutboxSteps
  BY <1>0, <1>1, <1>2, RequestOutbox DEF Deliver, store
<1>3. ASSUME NEW t \in Tasks, Enqueue(t) \/ Resume(t) \/ Cancel(t) \/ RetryOutput(t) PROVE OutboxSteps
  BY <1>0, <1>1, <1>3, RequestOutbox DEF Enqueue, Cancel, RetryOutput
<1>4. ASSUME NEW p \in Procs, Step(p) PROVE OutboxSteps
  <2>1. CASE SendTask(p) \/ MarkSending(p) \/ Decide(p) \/ Accept(p) \/ Refuse(p) \/ FailDelivery(p) \/ NextPending(p)
    BY <2>1, RequestOutbox, DeliveryOutbox, QueueOutbox
  <2>2. CASE \/ DeliverTask(p) \/ AcquireLease(p) \/ SteerAccepted(p) \/ SteerStale(p) \/ StartAccepted(p)
             \/ CallRefused(p) \/ ThreadMissing(p) \/ RecordTurn(p) \/ MarkRunning(p) \/ BindTask(p)
             \/ FailTaskDelivery(p) \/ FailRow(p) \/ BindReceipt(p)
    BY <1>1, <2>2 DEF DeliverTask, AcquireLease, SteerAccepted, SteerStale, StartAccepted, CallRefused,
       ThreadMissing, RecordTurn, MarkRunning, BindTask, FailTaskDelivery, FailRow, BindReceipt, store
  <2>3. CASE \/ Check(p) \/ CompleteTurn(p) \/ ResultRejected(p) \/ ResultAccepted(p) \/ WriteResult(p)
             \/ FailTurn(p) \/ RetryCompletion(p) \/ CloseTurn(p) \/ CloseStatus(p) \/ CompleteCompletion(p)
             \/ ListPending(p) \/ ListFailed(p) \/ SweepFailed(p)
    BY <1>1, <2>3 DEF Check, CompleteTurn, ResultRejected, ResultAccepted, WriteResult, FailTurn,
       RetryCompletion, CloseTurn, CloseStatus, CompleteCompletion, ListPending, ListFailed, SweepFailed, store
  <2> QED
    BY <1>4, <2>1, <2>2, <2>3 DEF Step
<1>5. ASSUME NEW w \in Workers, NEW x \in Turns, Claim(w, x) PROVE OutboxSteps
  BY <1>1, <1>5 DEF Claim
<1>6. ASSUME NEW x \in Turns, ServerEnds(x) \/ Notify(x) \/ RequeueStale(x) PROVE OutboxSteps
  BY <1>1, <1>6 DEF ServerEnds, Notify, RequeueStale, store
<1>7. CASE NotifyFailure \/ PersistCompletion \/ ExpireLease \/ Restart \/ UNCHANGED vars
  BY <1>1, <1>7 DEF NotifyFailure, PersistCompletion, ExpireLease, Restart, store, vars
<1>8. CASE Recovering
  <2>1. CASE RecoverSending \/ RecoverUnsent
    BY <1>0, <2>1, QueueOutbox
  <2> QED
    BY <1>1, <1>8, <2>1 DEF Recovering, ResetProcessing, InterruptTurns, ListRecoverable, EndRecovery, store
<1> QED
  BY <1>2, <1>3, <1>4, <1>5, <1>6, <1>7, <1>8 DEF Next, Notifying

-----------------------------------------------------------------------------
(* Every turn belongs to the message it was started with                   *)

\* The delivery, the accepted message, the request with the receipt and the
\* task all name a turn that was started with the message.
StartedFor ==
  /\ \A p \in Procs : proc[p].pc = "record" => starter[proc[p].turn] = proc[p].key
  /\ \A p \in Procs : proc[p].pc \in {"accept", "status", "bindTask"} /\ IsFormal(proc[p].key) =>
       starter[proc[p].turn] = proc[p].key
  /\ \A k \in Keys \ Chats : outbox[k].state = "accepted" =>
       outbox[k].turn \in Turns /\ starter[outbox[k].turn] = k
  /\ \A p \in Requests : proc[p].pc = "bind" =>
       /\ proc[p].turn \in Turns
       /\ starter[proc[p].turn] \in Keys \ Chats /\ TaskOf(starter[proc[p].turn]) = p[2]
  /\ BoundToItsOwnTurn

\* A turn keeps the message it was started with.
LEMMA StarterStep ==
  ASSUME TypeInv, TypeInv', OnServer, [Next]_vars, NEW x \in Turns, starter[x] # None
  PROVE  starter'[x] = starter[x]
<1>1. CASE starter' = starter
  BY <1>1
<1>2. ASSUME NEW p \in Procs, StartAccepted(p) PROVE starter'[x] = starter[x]
  <2>1. server[NextTurn] = "none" /\ starter' = [starter EXCEPT ![NextTurn] = proc[p].key] /\ NextTurn \in Turns
    BY <1>2, LowestUnused DEF StartAccepted
  <2>2. x # NextTurn
    BY <2>1 DEF OnServer
  <2> QED
    BY <2>1, <2>2 DEF TypeInv, TypeOK
<1>3. CASE Offstage
  BY <1>1, <1>3 DEF Offstage
<1>4. ASSUME NEW p \in Procs, Onstage(p), ~StartAccepted(p) PROVE starter' = starter
  BY <1>4 DEF Onstage, MarkSending, Decide, SteerAccepted, SteerStale, CallRefused, ThreadMissing, RecordTurn,
     Accept, MarkRunning, BindTask, CloseTurn, remote
<1>5. CASE (\E y \in Turns : ServerEnds(y) \/ Notify(y)) \/ InterruptTurns \/ Restart
  BY <1>1, <1>5 DEF ServerEnds, Notify, InterruptTurns, Restart, remote
<1> QED
  BY <1>1, <1>2, <1>3, <1>4, <1>5, NextStage

\* A call that is accepted was recorded before, or joined a turn.
LEMMA AcceptStep ==
  ASSUME TypeInv, TypeInv', [Next]_vars, NEW p \in Procs, proc'[p].pc \in {"accept", "status", "bindTask"}
  PROVE  \/ proc'[p] = proc[p]
         \/ /\ KeepsCall(p)
            /\ \/ RecordTurn(p) /\ proc'[p].pc = "accept"
               \/ SteerAccepted(p) /\ proc'[p].pc = "accept"
               \/ Accept(p) /\ proc'[p].pc = "status"
               \/ MarkRunning(p) /\ proc'[p].pc = "bindTask"
<1> DEFINE G == \/ proc'[p] = proc[p]
                \/ /\ KeepsCall(p)
                   /\ \/ RecordTurn(p) /\ proc'[p].pc = "accept"
                      \/ SteerAccepted(p) /\ proc'[p].pc = "accept"
                      \/ Accept(p) /\ proc'[p].pc = "status"
                      \/ MarkRunning(p) /\ proc'[p].pc = "bindTask"
<1>0. proc'[p].pc \in Calling
  BY DEF Calling
<1>1. CASE Offstage
  BY <1>0, <1>1 DEF Offstage, OneMoves
<1>2. ASSUME NEW q \in Procs, Onstage(q) PROVE G
  <2>1. CASE q # p
    BY <1>2, <2>1, CallSteps DEF Onstage, OneMoves
  <2>2. CASE q = p
    <3>1. CASE SteerAccepted(p) \/ RecordTurn(p) \/ Accept(p) \/ MarkRunning(p)
      BY <1>0, <3>1, CallSteps
    <3>2. CASE ~(SteerAccepted(p) \/ RecordTurn(p) \/ Accept(p) \/ MarkRunning(p))
      BY <1>0, <1>2, <2>2, <3>2, CallSteps DEF Onstage
    <3> QED
      BY <3>1, <3>2
  <2> QED
    BY <2>1, <2>2
<1>3. CASE (\E x \in Turns : ServerEnds(x) \/ Notify(x)) \/ InterruptTurns
  BY <1>3, RestMoves, KindsDiffer DEF OneMoves
<1>4. CASE Restart
  BY <1>4 DEF Restart, Idle
<1> QED
  BY <1>1, <1>2, <1>3, <1>4, NextStage

LEMMA StartedForStep ==
  ASSUME TypeInv, TypeInv', AppServerTasks, OnServer, StartedFor, [Next]_vars
  PROVE  StartedFor'
<1>0. /\ starter \in [Turns -> Keys \cup {None}] /\ None \notin Keys
      /\ \A x \in Turns : starter[x] \in Keys => starter'[x] = starter[x]
  BY StarterStep, NoneAssumption DEF TypeInv, TypeOK
<1>1. ASSUME NEW p \in Procs, proc'[p].pc = "record" PROVE starter'[proc'[p].turn] = proc'[p].key
  <2>1. CASE proc'[p] = proc[p]
    <3>1. proc[p].pc = "record" /\ proc[p].pc \in Delivering /\ proc[p].pc \in AtTurn
      BY <1>1, <2>1 DEF Delivering, AtTurn
    <3>2. proc[p].turn \in Turns /\ proc[p].key \in Keys
      BY <3>1, DeliveredKey
    <3>3. starter[proc[p].turn] = proc[p].key
      BY <3>1 DEF StartedFor
    <3> QED
      BY <1>0, <2>1, <3>2, <3>3
  <2>2. CASE StartAccepted(p) /\ proc'[p].turn = NextTurn /\ proc'[p].key = proc[p].key
    <3>1. NextTurn \in Turns /\ starter' = [starter EXCEPT ![NextTurn] = proc[p].key]
      BY <2>2, LowestUnused DEF StartAccepted
    <3> QED
      BY <1>0, <2>2, <3>1
  <2> QED
    BY <1>1, <2>1, <2>2, RecordStep
<1>2. ASSUME NEW p \in Procs, proc'[p].pc \in {"accept", "status", "bindTask"}, IsFormal(proc'[p].key)
      PROVE  starter'[proc'[p].turn] = proc'[p].key
  <2>1. ASSUME proc[p].pc \in {"record", "accept", "status", "bindTask"}, KeepsCall(p)
        PROVE  starter'[proc'[p].turn] = proc'[p].key
    <3>1. IsFormal(proc[p].key) /\ proc[p].key \in Keys /\ proc[p].turn \in Turns
      BY <1>2, <2>1, ProcType DEF Carries, AtTurn, Delivering, KeepsCall
    <3>2. starter[proc[p].turn] = proc[p].key
      BY <2>1, <3>1 DEF StartedFor
    <3> QED
      BY <1>0, <2>1, <3>1, <3>2 DEF KeepsCall
  <2>2. CASE proc'[p] = proc[p]
    BY <1>2, <2>1, <2>2 DEF KeepsCall
  <2>3. CASE SteerAccepted(p) /\ KeepsCall(p)
    <3>1. Mode(proc[p].key) # "queue"
      BY <2>3, ProcType DEF SteerAccepted, Carries
    <3> QED
      BY <1>2, <2>3, <3>1 DEF Mode, KeepsCall
  <2>4. CASE (RecordTurn(p) \/ Accept(p) \/ MarkRunning(p)) /\ KeepsCall(p)
    BY <2>1, <2>4 DEF RecordTurn, Accept, MarkRunning
  <2> QED
    BY <1>2, <2>2, <2>3, <2>4, AcceptStep
<1>3. ASSUME NEW k \in Keys \ Chats, outbox'[k].state = "accepted"
      PROVE  outbox'[k].turn \in Turns /\ starter'[outbox'[k].turn] = k
  <2>1. CASE outbox'[k] = outbox[k]
    BY <1>0, <1>3, <2>1 DEF StartedFor
  <2>2. ASSUME NEW p \in Procs, Accept(p), proc[p].key = k, outbox'[k].turn = proc[p].turn
        PROVE  outbox'[k].turn \in Turns /\ starter'[outbox'[k].turn] = k
    <3>1. proc[p].pc = "accept" /\ IsFormal(proc[p].key)
      BY <2>2 DEF Accept, IsFormal
    <3>2. proc[p].turn \in Turns /\ starter[proc[p].turn] = k
      BY <2>2, <3>1, ProcType DEF Carries, StartedFor
    <3> QED
      BY <1>0, <2>2, <3>2
  <2>3. OutboxStep(k)
    BY NextOutbox DEF OutboxSteps
  <2> QED
    BY <1>3, <2>1, <2>2, <2>3 DEF OutboxStep
<1>4. ASSUME NEW p \in Requests, proc'[p].pc = "bind"
      PROVE  /\ proc'[p].turn \in Turns
             /\ starter'[proc'[p].turn] \in Keys \ Chats /\ TaskOf(starter'[proc'[p].turn]) = p[2]
  <2>0. p \in Procs /\ Arrives(p)
    BY KindsDiffer, NextArrivals DEF Arrivals
  <2>1. ASSUME proc[p].turn \in Turns, starter[proc[p].turn] \in Keys \ Chats, TaskOf(starter[proc[p].turn]) = p[2],
               proc'[p].turn = proc[p].turn
        PROVE  /\ proc'[p].turn \in Turns
               /\ starter'[proc'[p].turn] \in Keys \ Chats /\ TaskOf(starter'[proc'[p].turn]) = p[2]
    BY <1>0, <2>1
  <2>2. CASE proc[p].pc = "bind" /\ proc'[p].turn = proc[p].turn
    BY <2>1, <2>2 DEF StartedFor
  <2>3. CASE /\ proc[p].pc \in {"send", "lock"} /\ outbox[proc[p].key].state = "accepted"
             /\ proc'[p].turn = outbox[proc[p].key].turn
    <3>1. proc[p].key \in Keys \ Chats /\ TaskOf(proc[p].key) = p[2]
      BY <2>3, RequestKey
    <3>2. outbox[proc[p].key].turn \in Turns /\ starter[outbox[proc[p].key].turn] = proc[p].key
      BY <2>3, <3>1 DEF StartedFor
    <3> QED
      BY <1>0, <2>3, <3>1, <3>2
  <2>4. CASE BindTask(p) /\ proc'[p].turn = proc[p].turn
    <3>1. proc[p].pc = "bindTask"
      BY <2>4 DEF BindTask
    <3>2. proc[p].key \in Keys \ Chats /\ TaskOf(proc[p].key) = p[2]
      BY <3>1, RequestKey
    <3>3. proc[p].turn \in Turns /\ starter[proc[p].turn] = proc[p].key
      BY <2>0, <3>1, <3>2, ProcType DEF Carries, AtTurn, StartedFor, IsFormal
    <3> QED
      BY <2>1, <2>4, <3>2, <3>3
  <2> QED
    BY <1>4, <2>0, <2>2, <2>3, <2>4 DEF Arrives
<1>5. ASSUME NEW t \in Tasks, NEW x \in Turns, rows'[t].turn = x
      PROVE  starter'[x] \in Keys \ Chats /\ TaskOf(starter'[x]) = t
  <2>1. CASE rows[t].turn = x
    BY <1>0, <2>1 DEF StartedFor, BoundToItsOwnTurn
  <2>2. ASSUME NEW p \in Procs, BindTask(p), TaskOf(proc[p].key) = t, proc[p].turn = x
        PROVE  starter'[x] \in Keys \ Chats /\ TaskOf(starter'[x]) = t
    <3>1. proc[p].pc = "bindTask"
      BY <2>2 DEF BindTask
    <3>2. proc[p].key \in Keys \ Chats
      BY <3>1, ProcType DEF Carries
    <3>3. starter[x] = proc[p].key
      BY <2>2, <3>1, <3>2 DEF StartedFor, IsFormal
    <3> QED
      BY <1>0, <2>2, <3>2, <3>3
  <2>3. ASSUME NEW p \in Requests, BindReceipt(p), p[2] = t, proc[p].turn = x
        PROVE  starter'[x] \in Keys \ Chats /\ TaskOf(starter'[x]) = t
    <3>1. proc[p].pc = "bind"
      BY <2>3 DEF BindReceipt
    <3> QED
      BY <1>0, <2>3, <3>1 DEF StartedFor
  <2>4. TaskStep(t)
    BY NextRows DEF TaskSteps
  <2> QED
    BY <1>5, <2>1, <2>2, <2>3, <2>4, NoTurnAssumption DEF TaskStep, Becomes
<1>6. BoundToItsOwnTurn'
  BY <1>5 DEF BoundToItsOwnTurn
<1> QED
  BY <1>1, <1>2, <1>3, <1>4, <1>6 DEF StartedFor

LEMMA InitStartedFor == Init => StartedFor
<1> SUFFICES ASSUME Init PROVE StartedFor
  OBVIOUS
<1>1. \A p \in Procs : proc[p].pc = "idle"
  BY DEF Init, Idle
<1>2. \A k \in Keys : outbox[k].state = "absent"
  BY DEF Init
<1>3. \A t \in Tasks : rows[t].turn = NoTurn
  BY DEF Init, AbsentRow
<1>4. BoundToItsOwnTurn
  BY <1>3, NoTurnAssumption DEF BoundToItsOwnTurn
<1>5. Requests \subseteq Procs
  BY KindsDiffer
<1> QED
  BY <1>1, <1>2, <1>4, <1>5 DEF StartedFor

LEMMA StartedForInvariant == Spec => []StartedFor
<1>1. TypeInv /\ TypeInv' /\ AppServerTasks /\ OnServer /\ StartedFor /\ [Next]_vars => StartedFor'
  BY StartedForStep
<1> QED
  BY <1>1, InitStartedFor, StageInvariant, PTL DEF Spec

\* A task is bound to a turn that was started for it, never to the turn of a
\* chat message or of another task in the same conversation
\* (BoundToItsOwnTurn): through deliveries, receipts, answers and restarts.
THEOREM OwnTurn == Spec => []BoundToItsOwnTurn
<1>1. StartedFor => BoundToItsOwnTurn
  BY DEF StartedFor
<1> QED
  BY <1>1, StartedForInvariant, PTL
==========================================================================

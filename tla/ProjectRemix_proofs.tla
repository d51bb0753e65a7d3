-------------------------- MODULE ProjectRemix_proofs --------------------------
(***************************************************************************)
(* Proofs about remixes: ProjectRemix, the workflow of a project;          *)
(* RemixLab, the experiments with prompts; RemixProduction, the production *)
(* of a run of the lab; and RemixFlow with RunCanvas, the attempts of one  *)
(* run. For all sets of callers and agents and any number of runs, tasks,  *)
(* requests, attempts and restarts.                                        *)
(*                                                                         *)
(* A run is moved by whoever holds the mutex of the coordinator (Held).    *)
(* What a resumer has read of the card and of the topic task stays true    *)
(* until it binds the remix (Informed), because a card is never taken back *)
(* and a completed task never reopened.                                    *)
(*                                                                         *)
(* In the lab and in a production goroutines and requests write back rows  *)
(* they read earlier. The invariants (LabInv, ProductionInv) say of such a *)
(* copy what makes it safe to write: it is of a run that is still driven,  *)
(* or of a production that has no driver and has not moved on.             *)
(***************************************************************************)
EXTENDS ProjectRemix, SequenceTheorems, FiniteSetTheorems, TLAPS

Run == [state : {"running", "completed", "failed"}, step : Steps, topic : {0, 1}, remix : {0, 1}]
Place == [pc : {"idle", "resume", "decide"} \cup Steps, run : Nat, new : {0, 1}, card : BOOLEAN]
Statuses == {"none", "queued", "running", "completed", "failed"}

\* What each variable is.
TypeInv ==
  /\ runs \in Seq(Run) /\ Len(runs) <= MaxRuns
  /\ task \in [TaskIds -> Statuses] /\ card \in BOOLEAN
  /\ proc \in [Resumers -> Place] /\ mu \in {"free"} \cup Resumers
  /\ reconciling \subseteq DOMAIN runs

\* The mutex is held by the one resumer that is at work, on a run there is.
Held == \A p \in Resumers : (mu = p <=> proc[p].pc # "idle") /\ (mu = p => proc[p].run \in DOMAIN runs)

\* What it takes to bind a remix to run r.
MayRemix(r) == card /\ (runs[r].topic # 0 => Status(r, "topic") = "completed")

\* What a resumer knows of its run after it has read the card.
Informed == \A p \in Resumers :
  /\ proc[p].card => card
  /\ proc[p].pc \in {"decide"} \cup Steps => runs[proc[p].run].state = "running" /\ runs[proc[p].run].step = "topic"
  /\ proc[p].pc \in Steps => proc[p].new = 1
  /\ proc[p].pc = "topic" => runs[proc[p].run].topic = 0
  /\ proc[p].pc = "remix" => MayRemix(proc[p].run)

\* The step of a run tells what it is bound to, and a run that is past a step did it.
Done(r) ==
  /\ runs[r].step = "topic" <=> runs[r].remix = 0
  /\ runs[r].state = "completed" => runs[r].remix # 0 /\ Status(r, "remix") = "completed"
  /\ runs[r].remix # 0 => MayRemix(r)

FlowInv == TypeInv /\ Held /\ Informed /\ \A r \in DOMAIN runs : Done(r)

-----------------------------------------------------------------------------
(* The initial state                                                       *)

LEMMA FlowInit ==
  ASSUME CallerAssumption, Init
  PROVE  FlowInv
<1>1. TypeInv
  BY DEF Init, TypeInv, CallerAssumption, Free, Place, Statuses
<1>2. Held /\ Informed
  BY DEF Init, Held, Informed, Free, CallerAssumption, Resumers, Steps
<1>3. DOMAIN runs = {}
  BY DEF Init
<1> QED
  BY <1>1, <1>2, <1>3 DEF FlowInv

-----------------------------------------------------------------------------
(* Steps that leave the runs alone                                         *)

\* No step takes a card back or reopens a completed task.
Lasting == /\ card => card'
           /\ \A t \in TaskIds : task[t] = "completed" => task'[t] = "completed"

\* What was true of a run that nobody touched stays true.
LEMMA RunsStay ==
  ASSUME CallerAssumption, TypeInv, Lasting, NEW r \in DOMAIN runs, runs'[r] = runs[r]
  PROVE  /\ MayRemix(r) => MayRemix(r)'
         /\ Done(r) => Done(r)'
<1>1. runs[r] \in Run /\ r \in 1..MaxRuns
  <2>1. r \in 1..Len(runs) /\ Len(runs) \in Nat /\ runs[r] \in Run
    BY DEF TypeInv
  <2> QED
    BY <2>1 DEF TypeInv, CallerAssumption
<1>2. \A s \in Steps, k \in {1} : <<r, s, k>> \in TaskIds
  BY <1>1 DEF TaskIds
<1>3. \A s \in Steps : runs[r][s] # 0 => (Status(r, s) = "completed" => Status(r, s)' = "completed")
  <2> SUFFICES ASSUME NEW s \in Steps, runs[r][s] # 0, Status(r, s) = "completed"
               PROVE  Status(r, s)' = "completed"
    OBVIOUS
  <2>1. runs[r][s] = 1
    BY <1>1 DEF Run, Steps
  <2> QED
    BY <1>2, <2>1 DEF Status, Lasting
<1>4. MayRemix(r) => MayRemix(r)'
  BY <1>3 DEF MayRemix, Lasting, Steps
<1>5. Done(r) => Done(r)'
  BY <1>1, <1>3, <1>4 DEF Done, Steps, Run
<1> QED
  BY <1>4, <1>5

\* A step that leaves the runs and the resumers alone.
LEMMA WorldMoves ==
  ASSUME CallerAssumption, FlowInv, TypeInv', Lasting, UNCHANGED <<runs, proc, mu>>
  PROVE  FlowInv'
<1>1. \A r \in DOMAIN runs : (MayRemix(r) => MayRemix(r)') /\ (Done(r) => Done(r)')
  BY RunsStay DEF FlowInv
<1>2. Held'
  BY DEF FlowInv, Held
<1>3. Informed'
  <2> SUFFICES ASSUME NEW p \in Resumers
               PROVE  /\ proc[p].card => card'
                      /\ proc[p].pc \in {"decide"} \cup Steps =>
                           runs[proc[p].run].state = "running" /\ runs[proc[p].run].step = "topic"
                      /\ proc[p].pc \in Steps => proc[p].new = 1
                      /\ proc[p].pc = "topic" => runs[proc[p].run].topic = 0
                      /\ proc[p].pc = "remix" => MayRemix(proc[p].run)'
    BY DEF Informed
  <2>1. proc[p].pc = "remix" => proc[p].run \in DOMAIN runs
    BY DEF FlowInv, Held
  <2> QED
    BY <1>1, <2>1 DEF FlowInv, Informed, Lasting
<1> QED
  BY <1>1, <1>2, <1>3 DEF FlowInv

LEMMA RunTaskFlow ==
  ASSUME CallerAssumption, FlowInv, NEW t \in TaskIds, RunTask(t) \/ EndTask(t)
  PROVE  FlowInv'
<1>1. task' \in [TaskIds -> Statuses] /\ card' \in BOOLEAN
  BY DEF RunTask, EndTask, FlowInv, TypeInv, Statuses
<1>2. Lasting
  BY DEF RunTask, EndTask, FlowInv, TypeInv, Lasting
<1>3. UNCHANGED <<runs, proc, mu, reconciling>>
  BY DEF RunTask, EndTask
<1>4. TypeInv'
  BY <1>1, <1>3 DEF FlowInv, TypeInv
<1> QED
  BY <1>2, <1>3, <1>4, WorldMoves

-----------------------------------------------------------------------------
(* Taking and giving back the mutex                                        *)

\* A resumer that takes the mutex knows nothing yet.
LEMMA LockFlow ==
  ASSUME CallerAssumption, FlowInv, NEW p \in Resumers, proc[p].pc = "idle",
         NEW r \in DOMAIN runs', r \in Nat, Lock(p, r), card' = card, task' = task,
         runs' \in Seq(Run), Len(runs') <= MaxRuns, DOMAIN runs \subseteq DOMAIN runs',
         \A q \in DOMAIN runs : runs'[q] = runs[q],
         \A q \in DOMAIN runs' : q \notin DOMAIN runs => Done(q)',
         reconciling' \subseteq DOMAIN runs'
  PROVE  FlowInv'
<1>0. PICK w : w = [Free EXCEPT !.pc = "resume", !.run = r]
  OBVIOUS
<1>1. proc' = [proc EXCEPT ![p] = w] /\ mu = "free" /\ mu' = p
  BY <1>0 DEF Lock
<1>2. w \in Place /\ w.pc = "resume" /\ w.run = r /\ w.card = FALSE
  BY <1>0 DEF Free, Place
<1>3. proc' \in [Resumers -> Place] /\ proc'[p] = w /\ \A q \in Resumers \ {p} : proc'[q] = proc[q]
  BY <1>1, <1>2 DEF FlowInv, TypeInv
<1>4. "free" \notin Resumers
  BY DEF Resumers, CallerAssumption
<1>5. \A q \in Resumers : proc[q].pc = "idle"
  BY <1>1, <1>4 DEF FlowInv, Held
<1>6. TypeInv'
  BY <1>1, <1>3 DEF FlowInv, TypeInv
<1>7. Held'
  BY <1>1, <1>2, <1>3, <1>5 DEF Held
<1>8. Lasting
  BY DEF Lasting
<1>9. \A q \in DOMAIN runs : Done(q)'
  BY <1>8, RunsStay DEF FlowInv
<1>10. Informed'
  BY <1>2, <1>3, <1>5 DEF Informed, FlowInv, Steps
<1> QED
  BY <1>6, <1>7, <1>9, <1>10 DEF FlowInv

\* The holder gives the mutex back; its run may have come to an end.
LEMMA UnlockFlow ==
  ASSUME CallerAssumption, FlowInv, NEW p \in Resumers, proc[p].pc # "idle", Unlock(p), Lasting, TypeInv',
         DOMAIN runs' = DOMAIN runs, NEW r \in DOMAIN runs, \A q \in DOMAIN runs : q # r => runs'[q] = runs[q],
         Done(r)'
  PROVE  FlowInv'
<1>1. proc' = [proc EXCEPT ![p] = Free] /\ mu' = "free" /\ mu = p
  BY DEF Unlock, FlowInv, Held
<1>2. proc'[p] = Free /\ \A q \in Resumers \ {p} : proc'[q] = proc[q] /\ proc[q].pc = "idle"
  BY <1>1 DEF FlowInv, TypeInv, Held
<1>3. "free" \notin Resumers
  BY DEF Resumers, CallerAssumption
<1>4. Held'
  BY <1>1, <1>2, <1>3 DEF Held, Free
<1>5. Informed'
  BY <1>2 DEF Informed, FlowInv, Steps, Free, Lasting
<1>6. ASSUME NEW q \in DOMAIN runs
      PROVE  Done(q)'
  <2>1. CASE q = r
    BY <2>1
  <2>2. CASE q # r
    BY <2>2, RunsStay DEF FlowInv
  <2> QED
    BY <2>1, <2>2
<1> QED
  BY <1>4, <1>5, <1>6 DEF FlowInv

-----------------------------------------------------------------------------
(* The actions                                                             *)

LEMMA StartFlow ==
  ASSUME CallerAssumption, FlowInv, NEW c \in Callers, Start(c)
  PROVE  FlowInv'
<1>0. c \in Resumers /\ proc[c].pc = "idle" /\ reconciling' = reconciling /\ card' = card /\ task' = task
  BY DEF Start, Resumers
<1>1. CASE Running # {}
  <2>1. PICK r \in DOMAIN runs : runs' = runs /\ Lock(c, r)
    BY <1>1 DEF Start, Running
  <2>2. r \in Nat /\ runs \in Seq(Run) /\ Len(runs) <= MaxRuns /\ reconciling \subseteq DOMAIN runs
    BY DEF FlowInv, TypeInv
  <2> QED
    BY <1>0, <2>1, <2>2, LockFlow
<1>2. CASE Running = {}
  <2> DEFINE new == [state |-> "running", step |-> "topic", topic |-> 0, remix |-> 0]
  <2>0. PICK n : n = Len(runs) + 1
    OBVIOUS
  <2>1. runs' = Append(runs, new) /\ Lock(c, n) /\ Len(runs) < MaxRuns
    BY <1>2, <2>0 DEF Start
  <2>2. new \in Run /\ runs \in Seq(Run) /\ reconciling \subseteq DOMAIN runs
    BY DEF FlowInv, TypeInv, Run, Steps
  <2> HIDE DEF new
  <2>3. /\ runs' \in Seq(Run) /\ Len(runs') = n /\ runs'[n] = new /\ Len(runs) \in Nat
        /\ \A q \in 1..Len(runs) : runs'[q] = runs[q]
    BY <2>0, <2>1, <2>2
  <2>4. DOMAIN runs = 1..Len(runs) /\ DOMAIN runs' = 1..n
    BY <2>2, <2>3
  <2>5. Len(runs') <= MaxRuns /\ n \in Nat /\ n \in DOMAIN runs' /\ DOMAIN runs \subseteq DOMAIN runs'
    BY <2>0, <2>1, <2>3, <2>4 DEF CallerAssumption
  <2>6. Done(n)'
    BY <2>3 DEF Done, new
  <2>7. \A q \in DOMAIN runs' : q \notin DOMAIN runs => q = n
    BY <2>0, <2>3, <2>4
  <2>8. \A q \in DOMAIN runs' : q \notin DOMAIN runs => Done(q)'
    BY <2>6, <2>7
  <2>9. (\A q \in DOMAIN runs : runs'[q] = runs[q]) /\ reconciling' \subseteq DOMAIN runs'
    BY <1>0, <2>2, <2>3, <2>4, <2>5
  <2> QED
    BY <1>0, <2>1, <2>3, <2>5, <2>8, <2>9, LockFlow
<1> QED
  BY <1>1, <1>2

LEMMA AbandonFlow ==
  ASSUME CallerAssumption, FlowInv, NEW c \in Callers, Abandon(c)
  PROVE  FlowInv'
<1>1. c \in Resumers /\ proc[c].pc # "idle" /\ Unlock(c) /\ UNCHANGED <<runs, task, card, reconciling>>
  BY DEF Abandon, Resumers
<1>2. TypeInv' /\ Lasting
  BY <1>1 DEF FlowInv, TypeInv, Unlock, Free, Place, Lasting
<1>3. PICK r \in DOMAIN runs : Done(r)
  BY <1>1 DEF FlowInv, Held
<1>4. Done(r)'
  BY <1>1, <1>2, <1>3, RunsStay DEF FlowInv
<1> QED
  BY <1>1, <1>2, <1>4, UnlockFlow

LEMMA ObservingFlow ==
  ASSUME CallerAssumption, FlowInv, Observing
  PROVE  FlowInv'
<1>0. runs \in Seq(Run) /\ Len(runs) <= MaxRuns /\ reconciling \subseteq DOMAIN runs /\ \A r \in DOMAIN runs : r \in Nat
  BY DEF FlowInv, TypeInv
<1>1. CASE AfterTerminal
  <2>1. UNCHANGED <<runs, task, card, reconciling>> /\ proc["observer"].pc = "idle"
    BY <1>1 DEF AfterTerminal
  <2>2. CASE UNCHANGED <<mu, proc>>
    BY <2>1, <2>2, WorldMoves DEF FlowInv, TypeInv, Lasting
  <2>3. CASE \E r \in DOMAIN runs : Lock("observer", r)
    BY <1>0, <2>1, <2>3, LockFlow DEF Resumers
  <2> QED
    BY <1>1, <2>2, <2>3 DEF AfterTerminal, Running
<1>2. CASE Reconcile
  <2>1. PICK r \in reconciling : reconciling' = reconciling \ {r} /\ Lock("reconciler", r)
    BY <1>2 DEF Reconcile
  <2>2. UNCHANGED <<runs, task, card>> /\ proc["reconciler"].pc = "idle"
    BY <1>2 DEF Reconcile
  <2> QED
    BY <1>0, <2>1, <2>2, LockFlow DEF Resumers
<1> QED
  BY <1>1, <1>2 DEF Observing

\* The record of a resumer at work and its run.
LEMMA AtWork ==
  ASSUME CallerAssumption, FlowInv, NEW p \in Resumers, proc[p].pc # "idle"
  PROVE  /\ mu = p /\ proc[p] \in Place /\ proc[p].run \in DOMAIN runs /\ proc[p].run \in 1..MaxRuns
         /\ runs[proc[p].run] \in Run /\ Done(proc[p].run)
         /\ \A q \in Resumers \ {p} : proc[q].pc = "idle"
<1>1. mu = p /\ proc[p] \in Place /\ proc[p].run \in DOMAIN runs /\ \A q \in Resumers \ {p} : proc[q].pc = "idle"
  BY DEF FlowInv, TypeInv, Held
<1>2. runs \in Seq(Run) /\ Len(runs) \in Nat /\ Len(runs) <= MaxRuns
  BY DEF FlowInv, TypeInv
<1>3. proc[p].run \in 1..MaxRuns /\ runs[proc[p].run] \in Run
  BY <1>1, <1>2 DEF CallerAssumption
<1> QED
  BY <1>1, <1>3 DEF FlowInv

\* The holder takes a step on its run and keeps the mutex.
LEMMA WorkFlow ==
  ASSUME CallerAssumption, FlowInv, NEW p \in Resumers, proc[p].pc # "idle", Lasting,
         NEW w \in Place, proc' = [proc EXCEPT ![p] = w], w.pc # "idle", w.run = proc[p].run,
         mu' = mu, reconciling' = reconciling,
         runs' \in Seq(Run), Len(runs') = Len(runs), task' \in [TaskIds -> Statuses], card' \in BOOLEAN,
         \A q \in DOMAIN runs : q # w.run => runs'[q] = runs[q],
         Done(w.run)',
         w.card => card',
         w.pc \in {"decide"} \cup Steps => runs'[w.run].state = "running" /\ runs'[w.run].step = "topic",
         w.pc \in Steps => w.new = 1,
         w.pc = "topic" => runs'[w.run].topic = 0,
         w.pc = "remix" => MayRemix(w.run)'
  PROVE  FlowInv'
<1>1. proc' \in [Resumers -> Place] /\ proc'[p] = w /\ \A q \in Resumers \ {p} : proc'[q] = proc[q]
  BY DEF FlowInv, TypeInv
<1>2. /\ mu = p /\ proc[p].run \in DOMAIN runs /\ \A q \in Resumers \ {p} : proc[q].pc = "idle"
  BY AtWork
<1>3. DOMAIN runs' = DOMAIN runs
  BY DEF FlowInv, TypeInv
<1>4. TypeInv'
  BY <1>1, <1>3 DEF FlowInv, TypeInv
<1>5. Held'
  BY <1>1, <1>2, <1>3 DEF FlowInv, Held
<1>6. Informed'
  BY <1>1, <1>2 DEF FlowInv, Informed, Steps, Lasting
<1>7. ASSUME NEW q \in DOMAIN runs
      PROVE  Done(q)'
  <2>1. CASE q = w.run
    BY <2>1
  <2>2. CASE q # w.run
    BY <2>2, RunsStay DEF FlowInv
  <2> QED
    BY <2>1, <2>2
<1> QED
  BY <1>3, <1>4, <1>5, <1>6, <1>7 DEF FlowInv

LEMMA ReadCardFlow ==
  ASSUME CallerAssumption, FlowInv, NEW p \in Resumers, ReadCard(p)
  PROVE  FlowInv'
<1>0. PICK w, r : w = [proc[p] EXCEPT !.pc = "decide", !.card = card] /\ r = proc[p].run
  OBVIOUS
<1>1. /\ proc[p].pc = "resume" /\ runs[r].state = "running" /\ runs[r].step = "topic"
      /\ UNCHANGED <<runs, task, card, mu, reconciling>> /\ proc' = [proc EXCEPT ![p] = w]
  BY <1>0 DEF ReadCard
<1>2. proc[p] \in Place /\ card \in BOOLEAN /\ runs \in Seq(Run) /\ task \in [TaskIds -> Statuses]
  BY DEF FlowInv, TypeInv
<1>3. w \in Place /\ w.pc = "decide" /\ w.run = r /\ w.card = card
  BY <1>0, <1>2 DEF Place
<1>4. Done(r) /\ r \in DOMAIN runs
  BY <1>0, <1>1, AtWork
<1>5. Lasting
  BY <1>1 DEF Lasting
<1>6. Done(r)'
  BY <1>1, <1>4, <1>5, RunsStay DEF FlowInv
<1>7. Done(w.run)'
  BY <1>3, <1>6
<1> QED
  BY <1>0, <1>1, <1>2, <1>3, <1>5, <1>7, WorkFlow DEF Steps

\* The run in hand, with another value.
LEMMA RunChanged ==
  ASSUME CallerAssumption, FlowInv, NEW r \in DOMAIN runs, NEW e \in Run, runs' = [runs EXCEPT ![r] = e]
  PROVE  /\ runs' \in Seq(Run) /\ Len(runs') = Len(runs) /\ DOMAIN runs' = DOMAIN runs /\ runs'[r] = e
         /\ \A q \in DOMAIN runs : q # r => runs'[q] = runs[q]
<1>1. runs \in Seq(Run) /\ r \in 1..Len(runs)
  BY DEF FlowInv, TypeInv
<1>2. runs' \in Seq(Run) /\ Len(runs') = Len(runs)
  BY <1>1, ExceptSeq
<1> QED
  BY <1>1, <1>2

\* The holder ends its run and gives the mutex back.
LEMMA EndRunFlow ==
  ASSUME CallerAssumption, FlowInv, NEW p \in Resumers, proc[p].pc # "idle", NEW r, r = proc[p].run,
         NEW x \in {"completed", "failed"}, runs' = [runs EXCEPT ![r].state = x], Unlock(p), Lasting,
         task' \in [TaskIds -> Statuses], card' = card, reconciling' = reconciling,
         x = "completed" => runs[r].remix # 0 /\ Status(r, "remix") = "completed"
  PROVE  FlowInv'
<1>1. r \in DOMAIN runs /\ r \in 1..MaxRuns /\ runs[r] \in Run /\ Done(r)
  BY AtWork
<1>2. PICK e : e = [runs[r] EXCEPT !.state = x]
  OBVIOUS
<1>3. e \in Run /\ e.state = x /\ e.step = runs[r].step /\ e.topic = runs[r].topic /\ e.remix = runs[r].remix
  BY <1>1, <1>2 DEF Run
<1>4. runs' = [runs EXCEPT ![r] = e]
  BY <1>2
<1>5. /\ runs' \in Seq(Run) /\ Len(runs') = Len(runs) /\ DOMAIN runs' = DOMAIN runs /\ runs'[r] = e
      /\ \A q \in DOMAIN runs : q # r => runs'[q] = runs[q]
  BY <1>1, <1>3, <1>4, RunChanged
<1>6. TypeInv'
  BY <1>5 DEF FlowInv, TypeInv, Unlock, Free, Place
<1>7. ASSUME NEW s \in Steps, runs[r][s] # 0, Status(r, s) = "completed"
      PROVE  Status(r, s)' = "completed"
  <2>1. runs[r][s] = 1 /\ runs'[r][s] = 1
    BY <1>1, <1>3, <1>5, <1>7 DEF Run, Steps
  <2>2. <<r, s, 1>> \in TaskIds
    BY <1>1 DEF TaskIds
  <2> QED
    BY <1>7, <2>1, <2>2 DEF Status, Lasting
<1>8. Done(r)'
  BY <1>1, <1>3, <1>5, <1>7 DEF Done, MayRemix, Steps
<1> QED
  BY <1>1, <1>5, <1>6, <1>8, UnlockFlow

LEMMA LaunchFlow ==
  ASSUME CallerAssumption, FlowInv, NEW p \in Resumers, proc[p].pc = "decide", NEW s \in Steps, Launch(p, s),
         s = "topic" => runs[proc[p].run].topic = 0, s = "remix" => MayRemix(proc[p].run),
         UNCHANGED <<card, reconciling>>
  PROVE  FlowInv'
<1>0. PICK r, t : r = proc[p].run /\ t = <<r, s, 1>>
  OBVIOUS
<1>1. r \in DOMAIN runs /\ r \in 1..MaxRuns /\ runs[r] \in Run /\ Done(r) /\ t \in TaskIds
  BY <1>0, AtWork DEF TaskIds
<1>2. runs \in Seq(Run) /\ task \in [TaskIds -> Statuses] /\ card \in BOOLEAN /\ proc[p] \in Place
  BY DEF FlowInv, TypeInv
<1>3. runs[r].state = "running" /\ runs[r].step = "topic" /\ (proc[p].card => card)
  BY <1>0 DEF FlowInv, Informed
<1>4. task' = task \/ (task[t] = "none" /\ task' \in {[task EXCEPT ![t] = "queued"], [task EXCEPT ![t] = "failed"]})
  BY <1>0 DEF Launch, StepTaskId
<1>5. task' \in [TaskIds -> Statuses] /\ Lasting
  BY <1>1, <1>2, <1>4 DEF Lasting, Statuses
<1>6. CASE proc' = [proc EXCEPT ![p].pc = s, ![p].new = 1] /\ UNCHANGED <<runs, mu>>
  <2>1. PICK w : w = [proc[p] EXCEPT !.pc = s, !.new = 1]
    OBVIOUS
  <2>2. w \in Place /\ w.pc = s /\ w.new = 1 /\ w.run = r /\ w.card = proc[p].card
    BY <1>0, <1>2, <2>1 DEF Place
  <2>3. proc' = [proc EXCEPT ![p] = w]
    BY <1>6, <2>1
  <2>4. Done(r)' /\ (MayRemix(r) => MayRemix(r)')
    BY <1>1, <1>5, <1>6, RunsStay DEF FlowInv
  <2>5. Done(w.run)' /\ (s = "remix" => MayRemix(w.run)')
    BY <1>0, <2>2, <2>4
  <2> QED
    BY <1>0, <1>2, <1>3, <1>5, <1>6, <2>2, <2>3, <2>5, WorkFlow DEF Steps
<1>7. CASE FailRun(r) /\ Unlock(p)
  BY <1>0, <1>5, <1>7, EndRunFlow DEF FailRun
<1> QED
  BY <1>0, <1>6, <1>7 DEF Launch, StepTaskId

LEMMA LaunchNextFlow ==
  ASSUME CallerAssumption, FlowInv, NEW p \in Resumers, LaunchNext(p)
  PROVE  FlowInv'
<1>1. proc[p].pc = "decide" /\ UNCHANGED <<card, reconciling>>
  BY DEF LaunchNext
<1>2. proc[p].card => card
  BY DEF FlowInv, Informed
<1>3. CASE runs[proc[p].run].topic = 0
  <2>1. PICK s : s = IF proc[p].card THEN "remix" ELSE "topic"
    OBVIOUS
  <2>2. Launch(p, s) /\ s \in Steps
    BY <1>3, <2>1 DEF LaunchNext, Steps
  <2>3. s = "remix" => MayRemix(proc[p].run)
    BY <1>2, <1>3, <2>1 DEF MayRemix
  <2> QED
    BY <1>1, <1>3, <2>2, <2>3, LaunchFlow
<1>4. CASE runs[proc[p].run].topic # 0
  <2>1. Launch(p, "remix") /\ MayRemix(proc[p].run)
    BY <1>2, <1>4 DEF LaunchNext, MayRemix
  <2> QED
    BY <1>1, <2>1, LaunchFlow DEF Steps
<1> QED
  BY <1>3, <1>4

LEMMA BindFlow ==
  ASSUME CallerAssumption, FlowInv, NEW p \in Resumers, Bind(p)
  PROVE  FlowInv'
<1>0. PICK r, s : r = proc[p].run /\ s = proc[p].pc
  OBVIOUS
<1>1. s \in Steps /\ UNCHANGED <<task, card, mu, reconciling>> /\ s # "idle"
  BY <1>0 DEF Bind, Steps
<1>2. /\ r \in DOMAIN runs /\ r \in 1..MaxRuns /\ runs[r] \in Run /\ Done(r)
      /\ proc[p] \in Place
  BY <1>0, <1>1, AtWork
<1>3. /\ runs[r].state = "running" /\ runs[r].step = "topic" /\ proc[p].new = 1 /\ (proc[p].card => card)
      /\ s = "topic" => runs[r].topic = 0
      /\ s = "remix" => MayRemix(r)
  BY <1>0, <1>1 DEF FlowInv, Informed
<1>4. PICK e : e = [runs[r] EXCEPT ![s] = 1, !.step = s]
  OBVIOUS
<1>5. /\ e \in Run /\ e.state = "running" /\ e.step = s
      /\ e.topic = (IF s = "topic" THEN 1 ELSE runs[r].topic) /\ e.remix = (IF s = "remix" THEN 1 ELSE runs[r].remix)
  <2>1. CASE s = "topic"
    <3>1. e = [runs[r] EXCEPT !.topic = 1, !.step = "topic"]
      BY <1>4, <2>1
    <3> QED
      BY <1>2, <1>3, <2>1, <3>1 DEF Run, Steps
  <2>2. CASE s = "remix"
    <3>1. e = [runs[r] EXCEPT !.remix = 1, !.step = "remix"]
      BY <1>4, <2>2
    <3> QED
      BY <1>2, <1>3, <2>2, <3>1 DEF Run, Steps
  <2> QED
    BY <1>1, <2>1, <2>2 DEF Steps
<1>6. runs' = [runs EXCEPT ![r] = e]
  BY <1>0, <1>3, <1>4 DEF Bind
<1>7. /\ runs' \in Seq(Run) /\ Len(runs') = Len(runs) /\ DOMAIN runs' = DOMAIN runs /\ runs'[r] = e
      /\ \A q \in DOMAIN runs : q # r => runs'[q] = runs[q]
  BY <1>2, <1>5, <1>6, RunChanged
<1>8. PICK w : w = [proc[p] EXCEPT !.pc = IF s = "topic" THEN "decide" ELSE "resume", !.new = 0]
  OBVIOUS
<1>9. /\ w \in Place /\ w.pc = (IF s = "topic" THEN "decide" ELSE "resume") /\ w.run = r /\ w.card = proc[p].card
      /\ proc' = [proc EXCEPT ![p] = w]
  BY <1>0, <1>2, <1>8 DEF Place, Bind
<1>10. Lasting /\ task \in [TaskIds -> Statuses] /\ card \in BOOLEAN
  BY <1>1 DEF Lasting, FlowInv, TypeInv
<1>11. Done(r)'
  <2>1. runs[r].remix = 0
    BY <1>2, <1>3 DEF Done
  <2>2. CASE s = "topic"
    BY <1>5, <1>7, <2>1, <2>2 DEF Done
  <2>3. CASE s = "remix"
    <3>1. MayRemix(r)'
      BY <1>1, <1>3, <1>5, <1>7, <2>3 DEF MayRemix, Status
    <3> QED
      BY <1>5, <1>7, <2>3, <3>1 DEF Done
  <2> QED
    BY <1>1, <2>2, <2>3 DEF Steps
<1>12. Done(w.run)'
  BY <1>9, <1>11
<1> QED
  BY <1>0, <1>1, <1>3, <1>5, <1>7, <1>9, <1>10, <1>12, WorkFlow DEF Steps

LEMMA SettleFlow ==
  ASSUME CallerAssumption, FlowInv, NEW p \in Resumers, Settle(p)
  PROVE  FlowInv'
<1>0. PICK r : r = proc[p].run
  OBVIOUS
<1>1. proc[p].pc # "idle" /\ Unlock(p) /\ UNCHANGED <<task, card, reconciling>>
  BY DEF Settle
<1>2. Lasting /\ task \in [TaskIds -> Statuses]
  BY <1>1 DEF Lasting, FlowInv, TypeInv
<1>3. CASE runs' = runs
  <2>1. TypeInv'
    BY <1>1, <1>3 DEF FlowInv, TypeInv, Unlock, Free, Place
  <2>2. r \in DOMAIN runs /\ Done(r)
    BY <1>0, <1>1, AtWork
  <2>3. Done(r)'
    BY <1>2, <1>3, <2>2, RunsStay DEF FlowInv
  <2> QED
    BY <1>1, <1>2, <1>3, <2>1, <2>2, <2>3, UnlockFlow
<1>4. CASE FailRun(r)
  BY <1>0, <1>1, <1>2, <1>4, EndRunFlow DEF FailRun
<1>5. CASE runs' = [runs EXCEPT ![r].state = "completed"] /\ runs[r].remix # 0 /\ Status(r, "remix") = "completed"
  BY <1>0, <1>1, <1>2, <1>5, EndRunFlow
<1> QED
  BY <1>0, <1>3, <1>4, <1>5 DEF Settle

LEMMA RestartFlow ==
  ASSUME CallerAssumption, FlowInv, Restart
  PROVE  FlowInv'
<1>1. /\ proc' = [p \in Resumers |-> Free] /\ mu' = "free" /\ UNCHANGED <<runs, card>> /\ reconciling' = Running
      /\ task' = [t \in TaskIds |-> IF task[t] = "running" THEN "failed" ELSE task[t]]
  BY DEF Restart, ReconcileTerminalWorkflows
<1>2. task' \in [TaskIds -> Statuses] /\ Lasting
  BY <1>1 DEF FlowInv, TypeInv, Lasting, Statuses
<1>3. TypeInv'
  BY <1>1, <1>2 DEF FlowInv, TypeInv, Running, Free, Place
<1>4. "free" \notin Resumers
  BY DEF Resumers, CallerAssumption
<1>5. Held' /\ Informed'
  BY <1>1, <1>4 DEF Held, Informed, Free, Steps
<1>6. \A r \in DOMAIN runs : Done(r)'
  BY <1>1, <1>2, RunsStay DEF FlowInv
<1> QED
  BY <1>1, <1>3, <1>5, <1>6 DEF FlowInv

-----------------------------------------------------------------------------
(* Theorems                                                                *)

LEMMA FlowNext ==
  ASSUME CallerAssumption, FlowInv, [Next]_vars
  PROVE  FlowInv'
<1>1. CASE Observing
  BY <1>1, ObservingFlow
<1>2. CASE Resuming
  BY <1>2, ReadCardFlow, LaunchNextFlow, BindFlow, SettleFlow DEF Resuming
<1>3. ASSUME NEW t \in TaskIds, RunTask(t) \/ EndTask(t)
      PROVE  FlowInv'
  BY <1>3, RunTaskFlow
<1>4. CASE Restart
  BY <1>4, RestartFlow
<1>5. ASSUME NEW c \in Callers, Start(c) \/ Abandon(c)
      PROVE  FlowInv'
  BY <1>5, StartFlow, AbandonFlow
<1>6. CASE UNCHANGED vars
  <2>1. TypeInv' /\ Lasting
    BY <1>6 DEF vars, FlowInv, TypeInv, Lasting
  <2> QED
    BY <1>6, <2>1, WorldMoves DEF vars
<1> QED
  BY <1>1, <1>2, <1>3, <1>4, <1>5, <1>6 DEF Next, Step

LEMMA FlowCorrect ==
  ASSUME CallerAssumption
  PROVE  Spec => []FlowInv
<1>1. Init => FlowInv
  BY FlowInit
<1>2. FlowInv /\ [Next]_vars => FlowInv'
  BY FlowNext
<1> QED
  BY <1>1, <1>2, PTL DEF Spec

\* Every run, task and resumer of the workflow is well typed, and the mutex of
\* the coordinator is held exactly while one of them is at work (remix.go).
THEOREM TypeCorrect ==
  ASSUME CallerAssumption
  PROVE  Spec => []TypeOK
<1>1. FlowInv => TypeOK
  <2> SUFFICES ASSUME FlowInv
               PROVE  TypeOK
    OBVIOUS
  <2>1. \A r \in DOMAIN runs : runs[r] \in Run
    BY DEF FlowInv, TypeInv
  <2>2. "free" \notin Resumers
    BY DEF Resumers, CallerAssumption
  <2> QED
    BY <2>1, <2>2 DEF FlowInv, TypeInv, Held, TypeOK, Run
<1> QED
  BY <1>1, FlowCorrect, PTL

\* A completed run has a completed remix, and a remix is only bound to a run
\* that has a topic card and whose own topic task, if it has one, completed
\* (resumeRunLocked), although the card is read before the status of the task
\* that writes it and the console may stop between a launch and its binding.
THEOREM StepsDone ==
  ASSUME CallerAssumption
  PROVE  Spec => []CompletedRunDidItsSteps
<1>1. FlowInv => CompletedRunDidItsSteps
  BY DEF FlowInv, Done, MayRemix, CompletedRunDidItsSteps
<1> QED
  BY <1>1, FlowCorrect, PTL

\* A launch finds the task of its run and step by its name, so that there is no second one.
NoSecond == \A r \in 1..MaxRuns, s \in Steps : task[<<r, s, 2>>] = "none"

LEMMA NoSecondStep ==
  ASSUME FlowInv, NoSecond, [Next]_vars
  PROVE  NoSecond'
<1> SUFFICES ASSUME NEW r \in 1..MaxRuns, NEW s \in Steps PROVE task'[<<r, s, 2>>] = "none"
  BY DEF NoSecond
<1> DEFINE t == <<r, s, 2>>
<1>1. t \in TaskIds /\ task[t] = "none" /\ task \in [TaskIds -> Statuses]
  BY DEF TaskIds, NoSecond, FlowInv, TypeInv
<1>2. ASSUME NEW p \in Resumers, LaunchNext(p) PROVE task'[t] = "none"
  <2>1. PICK z \in Steps : Launch(p, z)
    BY <1>2 DEF LaunchNext, Steps
  <2>2. <<proc[p].run, z, 1>> # t
    OBVIOUS
  <2> HIDE DEF t
  <2> QED
    BY <1>1, <2>1, <2>2 DEF Launch, StepTaskId
<1> HIDE DEF t
<1>3. ASSUME NEW p \in Resumers, ReadCard(p) \/ Bind(p) \/ Settle(p) PROVE task'[t] = "none"
  BY <1>1, <1>3 DEF ReadCard, Bind, Settle
<1>4. ASSUME Observing \/ UNCHANGED vars \/ (\E c \in Callers : Start(c) \/ Abandon(c))
      PROVE  task'[t] = "none"
  BY <1>1, <1>4 DEF Observing, AfterTerminal, Reconcile, vars, Start, Abandon
<1>5. ASSUME NEW u \in TaskIds, RunTask(u) \/ EndTask(u) PROVE task'[t] = "none"
  BY <1>1, <1>5 DEF RunTask, EndTask
<1>6. ASSUME Restart PROVE task'[t] = "none"
  BY <1>1, <1>6 DEF Restart
<1>7. task'[t] = "none"
  BY <1>2, <1>3, <1>4, <1>5, <1>6 DEF Next, Step, Resuming
<1> QED
  BY <1>7 DEF t

\* Whatever stops, retries and repeated requests come between the launch of a task and its
\* binding, a run has one topic task and one remix task (workflowStepTaskID, Launch).
THEOREM OneTask ==
  ASSUME CallerAssumption
  PROVE  Spec => []OneTaskPerStep
<1>1. Init => NoSecond
  BY DEF Init, NoSecond, TaskIds
<1>2. NoSecond => OneTaskPerStep
  <2> SUFFICES ASSUME NoSecond, NEW r \in 1..MaxRuns, NEW s \in Steps
               PROVE  Cardinality({k \in 1..2 : task[<<r, s, k>>] # "none"}) <= 1
    BY DEF OneTaskPerStep
  <2> DEFINE K == {k \in 1..2 : task[<<r, s, k>>] # "none"}
  <2>1. K = {} \/ K = {1}
    BY DEF NoSecond
  <2>2. Cardinality({}) = 0 /\ Cardinality({1}) = 1
    BY FS_EmptySet, FS_Singleton
  <2> HIDE DEF K
  <2>3. Cardinality(K) <= 1
    BY <2>1, <2>2
  <2> QED
    BY <2>3 DEF K
<1> QED
  BY <1>1, <1>2, NoSecondStep, FlowCorrect, PTL DEF Spec

-----------------------------------------------------------------------------
(* RemixLab                                                                *)

CONSTANTS Runs, First, Workers

VARIABLES kind, exp, run, drives, worker, req

Lab == INSTANCE RemixLab

Goroutine == {Lab!Idle} \cup [at : {"start", "work", "review"}, run : Runs, row : Lab!Rows]
Asking == {Lab!NoReq} \cup [op : {"retry", "rework", "rerun", "edit", "adopt"}, run : Runs, row : Lab!Rows]

\* What each variable of the lab is.
LabType ==
  /\ kind \in {"none", "prompts", "workflow", "manual"}
  /\ exp \in {"none", "running", "completed", "failed", "partial"}
  /\ run \in [Runs -> Lab!Rows] /\ drives \in Nat
  /\ worker \in [Workers -> Goroutine] /\ req \in [Callers -> Asking]

\* A run that does not exist leaves nothing behind, and only an experiment has runs.
NothingLeft == \A r \in Runs : kind = "none" \/ run[r].st = "none" => run[r] = Lab!NoRun

\* The status of the experiment follows its runs, and every run in flight is driven.
LabInv == LabType /\ NothingLeft /\ Lab!ExperimentStatusIsCurrent /\ Lab!InFlightIsDriven

\* A goroutine or a request that is at work has a run and a row.
LEMMA LabWork ==
  ASSUME LabType
  PROVE  /\ \A w \in Workers : worker[w].at # "off" => /\ worker[w].at \in {"start", "work", "review"}
                                                       /\ worker[w].run \in Runs /\ worker[w].row \in Lab!Rows
                                                       /\ worker[w] # Lab!Idle
         /\ \A w \in Workers : worker[w].at = "off" => worker[w] = Lab!Idle
         /\ \A c \in Callers : req[c].op # "none" => req[c].run \in Runs /\ req[c].row \in Lab!Rows
BY DEF LabType, Goroutine, Asking, Lab!Idle, Lab!NoReq

\* The status of the experiment looks at the statuses of the runs alone.
LEMMA StatusOfRuns ==
  ASSUME NEW f, NEW g, \A r \in Runs : f[r].st = g[r].st
  PROVE  Lab!StatusFromRuns(f) = Lab!StatusFromRuns(g)
<1>1. {f[r].st : r \in Runs} = {g[r].st : r \in Runs}
  OBVIOUS
<1> QED
  BY <1>1 DEF Lab!StatusFromRuns

LEMMA StatusType ==
  ASSUME NEW f
  PROVE  Lab!StatusFromRuns(f) \in {"running", "completed", "failed", "partial"}
BY DEF Lab!StatusFromRuns

\* As long as a run is in flight the experiment runs.
LEMMA InFlightRuns ==
  ASSUME NEW f, NEW r \in Runs, f[r].st \in Lab!InFlight
  PROVE  Lab!StatusFromRuns(f) = "running"
<1> DEFINE S == {f[q].st : q \in Runs} \ {"none"}
<1>1. f[r].st \in S /\ f[r].st \in {"queued", "running"}
  BY DEF Lab!InFlight
<1>2. S \cap Lab!InFlight # {} /\ S # {"completed"} /\ ~(S \subseteq {"failed"})
  BY <1>1
<1>3. Lab!StatusFromRuns(f) = CASE S \cap Lab!InFlight # {} -> "running"
                               [] S = {"completed"} -> "completed"
                               [] S \subseteq {"failed"} -> "failed"
                               [] OTHER -> "partial"
  BY DEF Lab!StatusFromRuns
<1> HIDE DEF S
<1> QED
  BY <1>2, <1>3

\* What UpdateRun writes: one existing run, its comment excepted, and the status of the experiment.
LEMMA UpdateRunWrites ==
  ASSUME LabType, NEW r \in Runs, NEW row \in Lab!Rows, row.st # "none", Lab!UpdateRun(r, row)
  PROVE  /\ run' \in [Runs -> Lab!Rows]
         /\ \A q \in Runs \ {r} : run'[q] = run[q]
         /\ run[r].st = "none" => UNCHANGED <<run, exp>>
         /\ run[r].st # "none" => /\ run'[r].st = row.st /\ run'[r].comment = run[r].comment
                                  /\ exp' = Lab!StatusFromRuns(run')
<1>1. [row EXCEPT !.comment = run[r].comment] \in Lab!Rows
  BY DEF LabType, Lab!Rows
<1>2. /\ [row EXCEPT !.comment = run[r].comment].st = row.st
      /\ [row EXCEPT !.comment = run[r].comment].comment = run[r].comment
  BY DEF Lab!Rows
<1> DEFINE new == [row EXCEPT !.comment = run[r].comment]
<1>3. new \in Lab!Rows /\ new.st = row.st /\ new.comment = run[r].comment
  BY <1>1, <1>2
<1>4. run[r].st # "none" => run' = [run EXCEPT ![r] = new] /\ exp' = Lab!StatusFromRuns(run')
  BY DEF Lab!UpdateRun
<1>5. run[r].st = "none" => UNCHANGED <<run, exp>>
  BY DEF Lab!UpdateRun
<1> HIDE DEF new
<1> QED
  BY <1>3, <1>4, <1>5 DEF LabType

\* The ways in which a step changes the runs and the status of their experiment.
Created  == /\ kind = "none" /\ kind' \in {"prompts", "workflow", "manual"} /\ run' \in [Runs -> Lab!Rows]
            /\ exp' = Lab!StatusFromRuns(run') /\ \A r \in Runs : run'[r].st = "none" => run'[r] = Lab!NoRun
Deleted  == kind' = "none" /\ exp' = "none" /\ run' = [r \in Runs |-> Lab!NoRun]
Updated  == /\ kind' = kind
            /\ \E r \in Runs, row \in Lab!Rows : row.st # "none" /\ Lab!UpdateRun(r, row)
Appended == /\ kind # "none" /\ kind' = kind /\ \E r \in Runs : Lab!AppendRemixRun(r)
Marked   == /\ UNCHANGED <<kind, exp>> /\ run' \in [Runs -> Lab!Rows]
            /\ \A r \in Runs : /\ run'[r].st = run[r].st /\ (run[r].comment => run'[r].comment)
                               /\ (run[r].st = "none" => run'[r] = run[r])
Failed   == kind # "none" /\ kind' = kind /\ Lab!FailNonTerminal
LabChange == Created \/ Deleted \/ Updated \/ Appended \/ Marked \/ Failed

LEMMA CreateChanges ==
  ASSUME Lab!RemixAssumption, LabType,
         Lab!CreateExperimentWithPrompts \/ Lab!CreateWorkflowExperiment \/ Lab!ImportDraft
  PROVE  Created
<1> DEFINE new(st, text) == [Lab!NoRun EXCEPT !.st = st, !.text = text]
           all(st, text) == [r \in Runs |-> IF r \in First THEN new(st, text) ELSE Lab!NoRun]
<1>1. /\ Lab!NoRun \in Lab!Rows /\ Lab!NoRun.st = "none"
      /\ new("queued", FALSE) \in Lab!Rows /\ new("queued", FALSE).st = "queued"
      /\ new("completed", TRUE) \in Lab!Rows /\ new("completed", TRUE).st = "completed"
  BY DEF Lab!NoRun, Lab!Rows
<1>2. PICK r \in First : r \in Runs
  BY DEF Lab!RemixAssumption
<1>3. CASE Lab!CreateExperimentWithPrompts \/ Lab!CreateWorkflowExperiment
  <2>1. run' = all("queued", FALSE) /\ exp' = "running" /\ kind = "none" /\ kind' \in {"prompts", "workflow", "manual"}
    BY <1>3 DEF Lab!CreateExperimentWithPrompts, Lab!CreateWorkflowExperiment, Lab!Create
  <2> HIDE DEF new
  <2>2. /\ run' \in [Runs -> Lab!Rows] /\ \A q \in Runs : run'[q].st = "none" => run'[q] = Lab!NoRun
        /\ run'[r].st = "queued"
    BY <1>1, <1>2, <2>1
  <2>3. Lab!StatusFromRuns(run') = "running"
    BY <1>2, <2>2, InFlightRuns DEF Lab!InFlight
  <2> QED
    BY <2>1, <2>2, <2>3 DEF Created
<1>4. CASE Lab!ImportDraft
  <2>1. run' = all("completed", TRUE) /\ exp' = "completed" /\ kind = "none" /\ kind' \in {"prompts", "workflow", "manual"}
    BY <1>4 DEF Lab!ImportDraft, Lab!Create
  <2> HIDE DEF new
  <2>2. /\ run' \in [Runs -> Lab!Rows] /\ \A q \in Runs : run'[q].st = "none" => run'[q] = Lab!NoRun
        /\ run'[r].st = "completed" /\ \A q \in Runs : run'[q].st \in {"none", "completed"}
    BY <1>1, <1>2, <2>1
  <2> DEFINE S == {run'[q].st : q \in Runs} \ {"none"}
  <2>3. S = {"completed"}
    BY <1>2, <2>2
  <2>4. Lab!StatusFromRuns(run') = CASE S \cap Lab!InFlight # {} -> "running"
                                     [] S = {"completed"} -> "completed"
                                     [] S \subseteq {"failed"} -> "failed"
                                     [] OTHER -> "partial"
    BY DEF Lab!StatusFromRuns
  <2> HIDE DEF S
  <2>5. Lab!StatusFromRuns(run') = "completed"
    BY <2>3, <2>4 DEF Lab!InFlight
  <2> QED
    BY <2>1, <2>2, <2>5 DEF Created
<1> QED
  BY <1>3, <1>4

\* A goroutine writes its run.
LEMMA WorkChanges ==
  ASSUME LabType, NEW w \in Workers, Lab!Working(w)
  PROVE  Updated
<1>1. worker[w].at \in {"start", "work", "review"}
  BY DEF Lab!Working, Lab!StartRun, Lab!FinishRun, Lab!FinishRework
<1>2. worker[w].run \in Runs /\ worker[w].row \in Lab!Rows
  BY <1>1, LabWork
<1>3. ASSUME NEW st \in {"running", "failed", "completed"}, NEW text \in BOOLEAN
      PROVE  Lab!Row(w, st, text) \in Lab!Rows /\ Lab!Row(w, st, text).st # "none"
  BY <1>2 DEF Lab!Row, Lab!Rows
<1>4. worker[w].row.text \in BOOLEAN
  BY <1>2 DEF Lab!Rows
<1>5. \E st \in {"running", "failed", "completed"}, text \in BOOLEAN : Lab!UpdateRun(worker[w].run, Lab!Row(w, st, text))
  <2>1. CASE Lab!StartRun(w)
    BY <1>4, <2>1 DEF Lab!StartRun
  <2>2. CASE Lab!FinishRun(w)
    <3>1. PICK st \in {"completed", "failed"}, text \in BOOLEAN : Lab!UpdateRun(worker[w].run, Lab!Row(w, st, text))
      BY <2>2 DEF Lab!FinishRun
    <3> QED
      BY <3>1
  <2>3. CASE Lab!FinishRework(w)
    BY <1>4, <2>3 DEF Lab!FinishRework
  <2> QED
    BY <2>1, <2>2, <2>3 DEF Lab!Working
<1>6. kind' = kind
  BY DEF Lab!Working, Lab!StartRun, Lab!FinishRun, Lab!FinishRework
<1> QED
  BY <1>2, <1>3, <1>5, <1>6 DEF Updated

\* A request writes one run, appends one, or marks one.
LEMMA AnswerChanges ==
  ASSUME LabType, NEW c \in Callers, Lab!Answering(c)
  PROVE  Updated \/ Appended \/ Marked
<1>1. req[c].op # "none"
  BY DEF Lab!Answering, Lab!RetryRun, Lab!Rework, Lab!Rerun, Lab!UpdateRunPackage, Lab!Adopt, Lab!Asked
<1>2. req[c].run \in Runs /\ req[c].row \in Lab!Rows
  BY <1>1, LabWork
<1>3. kind' = kind
  BY DEF Lab!Answering, Lab!RetryRun, Lab!Rework, Lab!Rerun, Lab!UpdateRunPackage, Lab!Adopt, Lab!Done
<1>4. ASSUME NEW st \in {"queued", "running"}, Lab!UpdateRun(req[c].run, [req[c].row EXCEPT !.st = st])
      PROVE  Updated
  <2>1. [req[c].row EXCEPT !.st = st] \in Lab!Rows /\ [req[c].row EXCEPT !.st = st].st # "none"
    BY <1>2 DEF Lab!Rows
  <2> QED
    BY <1>2, <1>3, <1>4, <2>1 DEF Updated
<1>5. CASE Lab!RetryRun(c)
  BY <1>4, <1>5 DEF Lab!RetryRun
<1>6. CASE Lab!Rework(c)
  BY <1>4, <1>6 DEF Lab!Rework
<1>7. CASE Lab!Rerun(c)
  <2>1. CASE kind = "none" \/ \E r \in Runs : run[r].st \in Lab!InFlight
    <3>1. UNCHANGED <<run, exp>>
      BY <1>7, <2>1 DEF Lab!Rerun
    <3> QED
      BY <1>3, <3>1 DEF Marked, LabType
  <2>2. CASE ~(kind = "none" \/ \E r \in Runs : run[r].st \in Lab!InFlight)
    <3>1. \E r \in Runs : Lab!AppendRemixRun(r)
      BY <1>7, <2>2 DEF Lab!Rerun
    <3> QED
      BY <1>3, <2>2, <3>1 DEF Appended
  <2> QED
    BY <2>1, <2>2
<1>8. CASE Lab!UpdateRunPackage(c) \/ Lab!Adopt(c)
  <2>1. exp' = exp
    BY <1>8 DEF Lab!UpdateRunPackage, Lab!Adopt
  <2> DEFINE x == req[c].run
             text == [run[x] EXCEPT !.text = TRUE]
             adopted == [run[x] EXCEPT !.adopted = TRUE]
  <2>2. /\ run[x] \in Lab!Rows /\ text \in Lab!Rows /\ adopted \in Lab!Rows
        /\ text.st = run[x].st /\ text.comment = run[x].comment
        /\ adopted.st = run[x].st /\ adopted.comment = run[x].comment
    BY <1>2 DEF LabType, Lab!Rows
  <2>3. \/ run' = run
        \/ run[x].st # "none" /\ (run' = [run EXCEPT ![x] = text] \/ run' = [run EXCEPT ![x] = adopted])
    BY <1>8 DEF Lab!UpdateRunPackage, Lab!Adopt
  <2> HIDE DEF text, adopted, x
  <2> QED
    BY <1>2, <1>3, <2>1, <2>2, <2>3 DEF Marked, LabType, x
<1> QED
  BY <1>5, <1>6, <1>7, <1>8 DEF Lab!Answering

LEMMA LabChanges ==
  ASSUME Lab!RemixAssumption, LabType, [Lab!Next]_(Lab!vars)
  PROVE  LabChange
<1>1. CASE UNCHANGED <<kind, exp, run>>
  BY <1>1 DEF LabChange, Marked, LabType
<1>2. CASE Lab!CreateExperimentWithPrompts \/ Lab!CreateWorkflowExperiment \/ Lab!ImportDraft
  BY <1>2, CreateChanges DEF LabChange
<1>3. CASE Lab!DeleteExperiment
  BY <1>3 DEF Lab!DeleteExperiment, LabChange, Deleted
<1>4. CASE Lab!Restart
  BY <1>4 DEF Lab!Restart, LabChange, Failed
<1>5. ASSUME NEW w \in Workers, Lab!Working(w) PROVE LabChange
  BY <1>5, WorkChanges DEF LabChange
<1>6. ASSUME NEW c \in Callers, Lab!Answering(c) PROVE LabChange
  BY <1>6, AnswerChanges DEF LabChange
<1>7. ASSUME NEW r \in Runs, Lab!PatchComment(r) PROVE LabChange
  <2> DEFINE new == [run[r] EXCEPT !.comment = TRUE]
  <2>1. new \in Lab!Rows /\ new.st = run[r].st /\ new.comment
    BY DEF LabType, Lab!Rows
  <2>2. run[r].st # "none" /\ run' = [run EXCEPT ![r] = new] /\ UNCHANGED <<kind, exp>>
    BY <1>7 DEF Lab!PatchComment
  <2> HIDE DEF new
  <2> QED
    BY <2>1, <2>2 DEF LabChange, Marked, LabType
<1>8. CASE Lab!Drive \/ UNCHANGED Lab!vars
  BY <1>1, <1>8 DEF Lab!Drive, Lab!vars
<1>9. ASSUME NEW c \in Callers, NEW r \in Runs, NEW op \in {"retry", "rework", "rerun", "edit", "adopt"}, Lab!Ask(c, op, r)
      PROVE  LabChange
  BY <1>1, <1>9 DEF Lab!Ask
<1> QED
  BY <1>2, <1>3, <1>4, <1>5, <1>6, <1>7, <1>8, <1>9 DEF Lab!Next

\* An appended run is queued in a row that was free.
LEMMA AppendWrites ==
  ASSUME LabType, NEW r \in Runs, Lab!AppendRemixRun(r)
  PROVE  /\ run' \in [Runs -> Lab!Rows] /\ run[r].st = "none" /\ run'[r].st = "queued" /\ exp' = "running"
         /\ \A q \in Runs \ {r} : run'[q] = run[q]
<1> DEFINE new == [Lab!NoRun EXCEPT !.st = "queued"]
<1>1. new \in Lab!Rows /\ new.st = "queued"
  BY DEF Lab!NoRun, Lab!Rows
<1>2. run[r].st = "none" /\ run' = [run EXCEPT ![r] = new] /\ exp' = "running"
  BY DEF Lab!AppendRemixRun
<1> HIDE DEF new
<1> QED
  BY <1>1, <1>2 DEF LabType

\* After a restart nothing is in flight.
LEMMA FailWrites ==
  ASSUME LabType, Lab!FailNonTerminal
  PROVE  /\ run' \in [Runs -> Lab!Rows]
         /\ \A r \in Runs : /\ run[r].st \in Lab!InFlight => run'[r].st = "failed" /\ run'[r].comment = run[r].comment
                            /\ run[r].st \notin Lab!InFlight => run'[r] = run[r]
         /\ (exp' = exp /\ run' = run) \/ exp' = Lab!StatusFromRuns(run')
<1> DEFINE lost(r) == [run[r] EXCEPT !.st = "failed"]
<1>1. \A r \in Runs : lost(r) \in Lab!Rows /\ lost(r).st = "failed" /\ lost(r).comment = run[r].comment
  BY DEF LabType, Lab!Rows
<1>2. run' = [r \in Runs |-> IF run[r].st \in Lab!InFlight THEN lost(r) ELSE run[r]]
  BY DEF Lab!FailNonTerminal
<1>3. (exp' = exp /\ run' = run) \/ exp' = Lab!StatusFromRuns(run')
  BY DEF Lab!FailNonTerminal
<1> HIDE DEF lost
<1> QED
  BY <1>1, <1>2, <1>3 DEF LabType

LEMMA LabInit ==
  ASSUME Lab!Init
  PROVE  LabInv
<1>1. /\ \A r \in Runs : run[r] = Lab!NoRun
      /\ Lab!NoRun \in Lab!Rows /\ Lab!NoRun.st = "none"
  BY DEF Lab!Init, Lab!NoRun, Lab!Rows
<1>2. LabType
  BY <1>1 DEF Lab!Init, LabType, Goroutine, Asking
<1> QED
  BY <1>1, <1>2 DEF LabInv, NothingLeft, Lab!Init, Lab!ExperimentStatusIsCurrent, Lab!InFlightIsDriven

\* The goroutines and requests stay well typed.
LEMMA LabTables ==
  ASSUME LabType, [Lab!Next]_(Lab!vars)
  PROVE  drives' \in Nat /\ worker' \in [Workers -> Goroutine] /\ req' \in [Callers -> Asking]
<1>0. /\ worker \in [Workers -> Goroutine] /\ req \in [Callers -> Asking] /\ drives \in Nat /\ run \in [Runs -> Lab!Rows]
      /\ Lab!Idle \in Goroutine /\ Lab!NoReq \in Asking
  BY DEF LabType, Goroutine, Asking
<1>1. CASE \/ Lab!CreateExperimentWithPrompts \/ Lab!CreateWorkflowExperiment \/ Lab!ImportDraft
           \/ Lab!DeleteExperiment \/ UNCHANGED Lab!vars
  BY <1>0, <1>1 DEF Lab!CreateExperimentWithPrompts, Lab!CreateWorkflowExperiment, Lab!ImportDraft, Lab!Create,
     Lab!DeleteExperiment, Lab!vars
<1>2. CASE Lab!Restart
  BY <1>0, <1>2 DEF Lab!Restart
<1>3. CASE Lab!Drive
  <2> DEFINE todo == {r \in Runs : run[r].st = "queued"}
             begun(r) == [at |-> "start", run |-> r, row |-> run[r]]
             chosen(f, w) == CHOOSE q \in todo : f[q] = w
  <2>1. PICK f \in Lab!Injection(todo, {w \in Workers : worker[w] = Lab!Idle}) :
           worker' = [w \in Workers |-> IF \E r \in todo : f[r] = w THEN begun(chosen(f, w)) ELSE worker[w]]
    BY <1>3 DEF Lab!Drive
  <2>2. \A r \in todo : begun(r) \in Goroutine
    BY <1>0 DEF Goroutine
  <2>3. \A w \in Workers : (\E r \in todo : f[r] = w) => chosen(f, w) \in todo
    OBVIOUS
  <2>4. drives > 0 /\ drives' = drives - 1 /\ req' = req
    BY <1>3 DEF Lab!Drive
  <2> HIDE DEF todo, begun, chosen
  <2> QED
    BY <1>0, <2>1, <2>2, <2>3, <2>4
<1>4. ASSUME NEW w \in Workers, Lab!Working(w)
      PROVE  drives' \in Nat /\ worker' \in [Workers -> Goroutine] /\ req' \in [Callers -> Asking]
  <2>1. drives' = drives /\ req' = req
    BY <1>4 DEF Lab!Working, Lab!StartRun, Lab!FinishRun, Lab!FinishRework
  <2> DEFINE going == [worker[w] EXCEPT !.at = "work"]
  <2>2. worker' = [worker EXCEPT ![w] = Lab!Idle] \/ (worker[w].at = "start" /\ worker' = [worker EXCEPT ![w] = going])
    BY <1>0, <1>4 DEF Lab!Working, Lab!StartRun, Lab!FinishRun, Lab!FinishRework
  <2>3. worker[w].at = "start" => going \in Goroutine
    BY <1>0 DEF Goroutine, Lab!Idle
  <2> HIDE DEF going
  <2> QED
    BY <1>0, <2>1, <2>2, <2>3
<1>5. ASSUME NEW c \in Callers, Lab!Answering(c)
      PROVE  drives' \in Nat /\ worker' \in [Workers -> Goroutine] /\ req' \in [Callers -> Asking]
  <2>1. req' = [req EXCEPT ![c] = Lab!NoReq]
    BY <1>5 DEF Lab!Answering, Lab!RetryRun, Lab!Rework, Lab!Rerun, Lab!UpdateRunPackage, Lab!Adopt, Lab!Done
  <2>2. drives' = drives \/ drives' = drives + 1
    BY <1>5 DEF Lab!Answering, Lab!RetryRun, Lab!Rework, Lab!Rerun, Lab!UpdateRunPackage, Lab!Adopt
  <2>3. CASE Lab!Rework(c)
    <3> DEFINE begun == [at |-> "review", run |-> req[c].run, row |-> req[c].row]
    <3>1. req[c].run \in Runs /\ req[c].row \in Lab!Rows
      BY <2>3, LabWork DEF Lab!Rework, Lab!Asked
    <3>2. begun \in Goroutine
      BY <3>1 DEF Goroutine
    <3>3. worker' = worker \/ \E w \in Workers : worker' = [worker EXCEPT ![w] = begun]
      BY <2>3 DEF Lab!Rework
    <3> HIDE DEF begun
    <3> QED
      BY <1>0, <2>1, <2>2, <3>2, <3>3
  <2>4. ~Lab!Rework(c) => worker' = worker
    BY <1>5 DEF Lab!Answering, Lab!RetryRun, Lab!Rerun, Lab!UpdateRunPackage, Lab!Adopt
  <2> QED
    BY <1>0, <2>1, <2>2, <2>3, <2>4
<1>6. ASSUME NEW c \in Callers, NEW r \in Runs, NEW op \in {"retry", "rework", "rerun", "edit", "adopt"}, Lab!Ask(c, op, r)
      PROVE  drives' \in Nat /\ worker' \in [Workers -> Goroutine] /\ req' \in [Callers -> Asking]
  <2> DEFINE asked == [op |-> op, run |-> r, row |-> run[r]]
  <2>1. asked \in Asking
    BY <1>0 DEF Asking
  <2>2. req' = [req EXCEPT ![c] = asked] /\ UNCHANGED <<drives, worker>>
    BY <1>6 DEF Lab!Ask
  <2> HIDE DEF asked
  <2> QED
    BY <1>0, <2>1, <2>2
<1>7. ASSUME NEW r \in Runs, Lab!PatchComment(r)
      PROVE  drives' \in Nat /\ worker' \in [Workers -> Goroutine] /\ req' \in [Callers -> Asking]
  BY <1>0, <1>7 DEF Lab!PatchComment
<1> QED
  BY <1>1, <1>2, <1>3, <1>4, <1>5, <1>6, <1>7 DEF Lab!Next

\* Runs and experiment stay well typed, and nothing is left of what is gone.
LEMMA LabRunsStep ==
  ASSUME LabType, NothingLeft, LabChange
  PROVE  run' \in [Runs -> Lab!Rows] /\ NothingLeft' /\ kind' \in {"none", "prompts", "workflow", "manual"}
<1>0. Lab!NoRun \in Lab!Rows /\ Lab!NoRun.st = "none" /\ kind \in {"none", "prompts", "workflow", "manual"}
  BY DEF Lab!NoRun, Lab!Rows, LabType
<1>1. CASE Created
  BY <1>1 DEF Created, NothingLeft
<1>2. CASE Deleted
  BY <1>0, <1>2 DEF Deleted, NothingLeft
<1>3. CASE Updated
  <2>1. PICK r \in Runs, row \in Lab!Rows : row.st # "none" /\ Lab!UpdateRun(r, row)
    BY <1>3 DEF Updated
  <2>2. kind' = kind
    BY <1>3 DEF Updated
  <2>3. run[r].st # "none" => kind # "none"
    BY <1>0 DEF NothingLeft
  <2> QED
    BY <1>0, <2>1, <2>2, <2>3, UpdateRunWrites DEF NothingLeft, LabType
<1>4. CASE Appended
  BY <1>0, <1>4, AppendWrites DEF Appended, NothingLeft
<1>5. CASE Marked
  BY <1>0, <1>5 DEF Marked, NothingLeft
<1>6. CASE Failed
  BY <1>0, <1>6, FailWrites DEF Failed, NothingLeft, Lab!InFlight
<1> QED
  BY <1>1, <1>2, <1>3, <1>4, <1>5, <1>6 DEF LabChange

\* Every writer of a run judges the experiment by the runs as it leaves them.
LEMMA LabStatusStep ==
  ASSUME LabType, NothingLeft, NothingLeft', Lab!ExperimentStatusIsCurrent, LabChange
  PROVE  Lab!ExperimentStatusIsCurrent' /\ exp' \in {"none", "running", "completed", "failed", "partial"}
<1> SUFFICES Lab!ExperimentStatusIsCurrent'
  BY StatusType DEF Lab!ExperimentStatusIsCurrent
<1>1. CASE Created
  BY <1>1 DEF Created, Lab!ExperimentStatusIsCurrent
<1>2. CASE Deleted
  BY <1>2 DEF Deleted, Lab!ExperimentStatusIsCurrent
<1>3. CASE Updated
  <2>1. PICK r \in Runs, row \in Lab!Rows : row.st # "none" /\ Lab!UpdateRun(r, row)
    BY <1>3 DEF Updated
  <2>2. kind' = kind
    BY <1>3 DEF Updated
  <2>3. run[r].st # "none" => kind # "none"
    BY DEF NothingLeft, Lab!NoRun
  <2> QED
    BY <2>1, <2>2, <2>3, UpdateRunWrites DEF Lab!ExperimentStatusIsCurrent
<1>4. CASE Appended
  <2>1. PICK r \in Runs : Lab!AppendRemixRun(r)
    BY <1>4 DEF Appended
  <2>2. Lab!StatusFromRuns(run') = "running"
    BY <2>1, AppendWrites, InFlightRuns DEF Lab!InFlight
  <2> QED
    BY <1>4, <2>1, <2>2, AppendWrites DEF Appended, Lab!ExperimentStatusIsCurrent
<1>5. CASE Marked
  <2>1. Lab!StatusFromRuns(run') = Lab!StatusFromRuns(run)
    BY <1>5, StatusOfRuns DEF Marked
  <2> QED
    BY <1>5, <2>1 DEF Marked, Lab!ExperimentStatusIsCurrent
<1>6. CASE Failed
  BY <1>6, FailWrites DEF Failed, Lab!ExperimentStatusIsCurrent
<1> QED
  BY <1>1, <1>2, <1>3, <1>4, <1>5, <1>6 DEF LabChange

\* The goroutines of run r that keep it: a queued run may also rely on a drive.
Handled(r) == \E w \in Workers : worker[w].at # "off" /\ worker[w].run = r
Worked(r)  == \E w \in Workers : worker[w].at \in {"work", "review"} /\ worker[w].run = r
DrivenRun(r) == /\ run[r].st = "queued" => drives > 0 \/ Handled(r)
                /\ run[r].st = "running" => Worked(r)

LEMMA DrivenRuns ==
  ASSUME LabType
  PROVE  Lab!InFlightIsDriven <=> \A r \in Runs : DrivenRun(r)
<1>1. \A w \in Workers : worker[w] # Lab!Idle <=> worker[w].at # "off"
  BY LabWork DEF Lab!Idle
<1> QED
  BY <1>1 DEF Lab!InFlightIsDriven, DrivenRun, Handled, Worked

\* A run that is not written keeps its goroutines as long as none leaves it.
LEMMA StillDriven ==
  ASSUME LabType, NEW r \in Runs, DrivenRun(r), run'[r].st = run[r].st, drives > 0 => drives' > 0,
         \A w \in Workers : worker[w].at # "off" /\ worker[w].run = r => worker'[w] = worker[w]
  PROVE  DrivenRun(r)'
BY DEF DrivenRun, Handled, Worked, LabType

LEMMA DriveDrives ==
  ASSUME LabType, Lab!Drive, NEW r \in Runs, DrivenRun(r)
  PROVE  DrivenRun(r)'
<1> DEFINE todo == {q \in Runs : run[q].st = "queued"}
           begun(q) == [at |-> "start", run |-> q, row |-> run[q]]
           chosen(f, w) == CHOOSE q \in todo : f[q] = w
<1>1. PICK f \in Lab!Injection(todo, {w \in Workers : worker[w] = Lab!Idle}) :
         worker' = [w \in Workers |-> IF \E q \in todo : f[q] = w THEN begun(chosen(f, w)) ELSE worker[w]]
  BY DEF Lab!Drive
<1>2. /\ f \in [todo -> {w \in Workers : worker[w] = Lab!Idle}] /\ \A p, q \in todo : f[p] = f[q] => p = q
  BY DEF Lab!Injection, Lab!IsInjective
<1>3. \A q \in todo : begun(q).at = "start" /\ begun(q).run = q
  OBVIOUS
<1>4. \A q \in todo : chosen(f, f[q]) = q
  BY <1>2
<1>5. run' = run
  BY DEF Lab!Drive
<1>6. Lab!Idle.at = "off"
  BY DEF Lab!Idle
<1> HIDE DEF begun, chosen
<1>7. CASE run[r].st = "queued"
  <2>1. r \in todo /\ f[r] \in Workers
    BY <1>2, <1>7
  <2>2. worker'[f[r]] = begun(r)
    BY <1>1, <1>4, <2>1
  <2> QED
    BY <1>3, <1>5, <1>7, <2>1, <2>2 DEF DrivenRun, Handled
<1>8. CASE run[r].st # "queued"
  <2>1. \A w \in Workers : worker[w].at # "off" => worker'[w] = worker[w]
    BY <1>1, <1>2, <1>6
  <2> QED
    BY <1>5, <1>8, <2>1 DEF DrivenRun, Worked
<1> QED
  BY <1>7, <1>8

LEMMA WorkDrives ==
  ASSUME LabType, NEW w \in Workers, Lab!Working(w), NEW r \in Runs, DrivenRun(r)
  PROVE  DrivenRun(r)'
<1> DEFINE x == worker[w].run
<1>1. worker[w].at \in {"start", "work", "review"} /\ drives' = drives
  BY DEF Lab!Working, Lab!StartRun, Lab!FinishRun, Lab!FinishRework
<1>2. x \in Runs /\ worker[w].row \in Lab!Rows /\ worker \in [Workers -> Goroutine]
  BY <1>1, LabWork DEF LabType
<1>3. ASSUME NEW st \in {"running", "failed", "completed"}, NEW text \in BOOLEAN
      PROVE  Lab!Row(w, st, text) \in Lab!Rows /\ Lab!Row(w, st, text).st = st
  BY <1>2 DEF Lab!Row, Lab!Rows
<1>4. worker[w].row.text \in BOOLEAN
  BY <1>2 DEF Lab!Rows
<1>5. \A v \in Workers \ {w} : worker'[v] = worker[v]
  BY <1>2 DEF Lab!Working, Lab!StartRun, Lab!FinishRun, Lab!FinishRework
<1>6. \/ \E st \in {"failed", "completed"}, text \in BOOLEAN : Lab!UpdateRun(x, Lab!Row(w, st, text))
      \/ /\ Lab!UpdateRun(x, Lab!Row(w, "running", worker[w].row.text))
         /\ run[x].st # "none" => worker'[w] = [worker[w] EXCEPT !.at = "work"]
  <2>1. CASE Lab!StartRun(w)
    BY <1>2, <1>4, <2>1 DEF Lab!StartRun
  <2>2. CASE Lab!FinishRun(w)
    <3>1. PICK st \in {"completed", "failed"}, text \in BOOLEAN : Lab!UpdateRun(worker[w].run, Lab!Row(w, st, text))
      BY <2>2 DEF Lab!FinishRun
    <3> QED
      BY <3>1
  <2>3. CASE Lab!FinishRework(w)
    BY <1>4, <2>3 DEF Lab!FinishRework
  <2> QED
    BY <2>1, <2>2, <2>3 DEF Lab!Working
<1>7. \A q \in Runs \ {x} : run'[q] = run[q]
  BY <1>2, <1>3, <1>4, <1>6, UpdateRunWrites
<1>8. CASE r # x
  BY <1>1, <1>5, <1>7, <1>8, StillDriven
<1>9. CASE r = x
  <2>1. CASE run[x].st = "none"
    <3>1. run'[x].st = "none"
      BY <1>2, <1>3, <1>4, <1>6, <2>1, UpdateRunWrites
    <3> QED
      BY <1>9, <3>1 DEF DrivenRun
  <2>2. CASE run[x].st # "none"
    <3>1. \/ run'[x].st \in {"failed", "completed"}
          \/ run'[x].st = "running" /\ worker'[w] = [worker[w] EXCEPT !.at = "work"]
      BY <1>2, <1>3, <1>4, <1>6, <2>2, UpdateRunWrites
    <3>2. [worker[w] EXCEPT !.at = "work"].at = "work" /\ [worker[w] EXCEPT !.at = "work"].run = x
      BY <1>1, <1>2 DEF Goroutine, Lab!Idle
    <3> QED
      BY <1>9, <3>1, <3>2 DEF DrivenRun, Worked
  <2> QED
    BY <2>1, <2>2
<1> QED
  BY <1>8, <1>9

LEMMA AnswerDrives ==
  ASSUME LabType, NEW c \in Callers, Lab!Answering(c), NEW r \in Runs, DrivenRun(r)
  PROVE  DrivenRun(r)'
<1> DEFINE x == req[c].run
           row(st) == [req[c].row EXCEPT !.st = st]
<1>1. req[c].op # "none"
  BY DEF Lab!Answering, Lab!RetryRun, Lab!Rework, Lab!Rerun, Lab!UpdateRunPackage, Lab!Adopt, Lab!Asked
<1>2. x \in Runs /\ \A st \in {"queued", "running"} : row(st) \in Lab!Rows /\ row(st).st = st
  BY <1>1, LabWork DEF Lab!Rows
<1>3. CASE Lab!RetryRun(c)
  <2>1. /\ Lab!UpdateRun(x, row("queued")) /\ worker' = worker
        /\ drives' = IF run[x].st = "none" THEN drives ELSE drives + 1
    BY <1>3 DEF Lab!RetryRun
  <2> HIDE DEF x, row
  <2>2. /\ \A q \in Runs \ {x} : run'[q] = run[q]
        /\ run[x].st = "none" => run' = run
        /\ run[x].st # "none" => run'[x].st = "queued"
    BY <1>2, <2>1, UpdateRunWrites
  <2>3. CASE r = x /\ run[x].st # "none"
    BY <2>1, <2>2, <2>3 DEF DrivenRun, LabType
  <2>4. CASE r # x \/ run[x].st = "none"
    BY <2>1, <2>2, <2>4, StillDriven DEF LabType
  <2> QED
    BY <2>3, <2>4
<1>4. CASE Lab!Rework(c)
  <2> DEFINE begun == [at |-> "review", run |-> x, row |-> req[c].row]
  <2>1. /\ Lab!UpdateRun(x, row("running")) /\ drives' = drives
        /\ run[x].st = "none" => worker' = worker
        /\ run[x].st # "none" => \E w \in Workers : worker[w] = Lab!Idle /\ worker' = [worker EXCEPT ![w] = begun]
    BY <1>4 DEF Lab!Rework
  <2>2. begun.at = "review" /\ begun.run = x /\ Lab!Idle.at = "off"
    BY DEF Lab!Idle
  <2> HIDE DEF x, row, begun
  <2>3. /\ \A q \in Runs \ {x} : run'[q] = run[q]
        /\ run[x].st = "none" => run' = run
        /\ run[x].st # "none" => run'[x].st = "running"
    BY <1>2, <2>1, UpdateRunWrites
  <2>4. \A w \in Workers : worker[w].at # "off" => worker'[w] = worker[w]
    BY <2>1, <2>2 DEF LabType
  <2>5. CASE r = x /\ run[x].st # "none"
    <3>1. PICK w \in Workers : worker' = [worker EXCEPT ![w] = begun]
      BY <2>1, <2>5
    <3>2. worker'[w] = begun
      BY <3>1 DEF LabType
    <3> QED
      BY <2>2, <2>3, <2>5, <3>2 DEF DrivenRun, Worked
  <2>6. CASE r # x \/ run[x].st = "none"
    BY <2>1, <2>3, <2>4, <2>6, StillDriven DEF LabType
  <2> QED
    BY <2>5, <2>6
<1>5. CASE Lab!Rerun(c)
  <2>1. worker' = worker /\ (UNCHANGED <<run, drives>> \/ (drives' = drives + 1 /\ \E q \in Runs : Lab!AppendRemixRun(q)))
    BY <1>5 DEF Lab!Rerun
  <2>2. CASE UNCHANGED <<run, drives>>
    BY <2>1, <2>2, StillDriven
  <2>3. ASSUME NEW q \in Runs, Lab!AppendRemixRun(q), drives' = drives + 1 PROVE DrivenRun(r)'
    <3>1. CASE r = q
      BY <2>3, <3>1, AppendWrites DEF DrivenRun, LabType
    <3>2. CASE r # q
      BY <2>1, <2>3, <3>2, AppendWrites, StillDriven DEF LabType
    <3> QED
      BY <3>1, <3>2
  <2> QED
    BY <2>1, <2>2, <2>3
<1>6. CASE Lab!UpdateRunPackage(c) \/ Lab!Adopt(c)
  <2>1. UNCHANGED <<drives, worker>>
    BY <1>6 DEF Lab!UpdateRunPackage, Lab!Adopt
  <2>2. run[x] \in Lab!Rows
    BY <1>2 DEF LabType
  <2> DEFINE text == [run[x] EXCEPT !.text = TRUE]
             adopted == [run[x] EXCEPT !.adopted = TRUE]
  <2>3. text.st = run[x].st /\ adopted.st = run[x].st
    BY <2>2 DEF Lab!Rows
  <2>4. run' = run \/ run' = [run EXCEPT ![x] = text] \/ run' = [run EXCEPT ![x] = adopted]
    BY <1>6 DEF Lab!UpdateRunPackage, Lab!Adopt
  <2> HIDE DEF text, adopted, x
  <2>5. run'[r].st = run[r].st
    BY <1>2, <2>3, <2>4 DEF LabType
  <2> QED
    BY <2>1, <2>5, StillDriven
<1> QED
  BY <1>3, <1>4, <1>5, <1>6 DEF Lab!Answering

\* No step leaves a run in flight with nobody to move it.
LEMMA LabDrivenStep ==
  ASSUME LabType, LabType', Lab!InFlightIsDriven, [Lab!Next]_(Lab!vars)
  PROVE  Lab!InFlightIsDriven'
<1>0. \A r \in Runs : DrivenRun(r)
  BY DrivenRuns
<1>1. (\A r \in Runs : DrivenRun(r)') => Lab!InFlightIsDriven'
  <2>1. \A w \in Workers : worker'[w] # Lab!Idle <=> worker'[w].at # "off"
    BY DEF LabType, Goroutine, Lab!Idle
  <2> QED
    BY <2>1 DEF Lab!InFlightIsDriven, DrivenRun, Handled, Worked
<1> SUFFICES ASSUME NEW r \in Runs PROVE DrivenRun(r)'
  BY <1>1
<1>2. CASE Lab!CreateExperimentWithPrompts \/ Lab!CreateWorkflowExperiment \/ Lab!ImportDraft
  <2> DEFINE new(st, text) == [Lab!NoRun EXCEPT !.st = st, !.text = text]
             all(st, text) == [q \in Runs |-> IF q \in First THEN new(st, text) ELSE Lab!NoRun]
  <2>1. /\ Lab!NoRun.st = "none" /\ new("queued", FALSE).st = "queued" /\ new("completed", TRUE).st = "completed"
    BY DEF Lab!NoRun
  <2>2. (run' = all("queued", FALSE) /\ drives' = 1) \/ run' = all("completed", TRUE)
    BY <1>2 DEF Lab!CreateExperimentWithPrompts, Lab!CreateWorkflowExperiment, Lab!ImportDraft, Lab!Create
  <2> HIDE DEF new
  <2>3. (run'[r].st \in {"none", "queued"} /\ drives' = 1) \/ run'[r].st \in {"none", "completed"}
    BY <2>1, <2>2
  <2> QED
    BY <2>3 DEF DrivenRun
<1>3. CASE Lab!DeleteExperiment
  BY <1>3 DEF Lab!DeleteExperiment, DrivenRun, Lab!NoRun
<1>4. CASE Lab!Restart
  BY <1>4, FailWrites DEF Lab!Restart, DrivenRun, Lab!InFlight
<1>5. ASSUME NEW q \in Runs, Lab!PatchComment(q) PROVE DrivenRun(r)'
  <2> DEFINE new == [run[q] EXCEPT !.comment = TRUE]
  <2>1. new.st = run[q].st
    BY DEF LabType, Lab!Rows
  <2>2. run' = [run EXCEPT ![q] = new] /\ UNCHANGED <<drives, worker>>
    BY <1>5 DEF Lab!PatchComment
  <2> HIDE DEF new
  <2>3. run'[r].st = run[r].st
    BY <2>1, <2>2 DEF LabType
  <2> QED
    BY <1>0, <2>2, <2>3, StillDriven
<1>6. ASSUME NEW c \in Callers, NEW q \in Runs, NEW op \in {"retry", "rework", "rerun", "edit", "adopt"}, Lab!Ask(c, op, q)
      PROVE  DrivenRun(r)'
  BY <1>0, <1>6, StillDriven DEF Lab!Ask
<1>7. CASE UNCHANGED Lab!vars
  BY <1>0, <1>7, StillDriven DEF Lab!vars
<1> QED
  BY <1>0, <1>2, <1>3, <1>4, <1>5, <1>6, <1>7, DriveDrives, WorkDrives, AnswerDrives DEF Lab!Next

LEMMA LabNext ==
  ASSUME Lab!RemixAssumption, LabInv, [Lab!Next]_(Lab!vars)
  PROVE  LabInv'
<1>1. LabChange
  BY LabChanges DEF LabInv
<1>2. run' \in [Runs -> Lab!Rows] /\ NothingLeft' /\ kind' \in {"none", "prompts", "workflow", "manual"}
  BY <1>1, LabRunsStep DEF LabInv
<1>3. Lab!ExperimentStatusIsCurrent' /\ exp' \in {"none", "running", "completed", "failed", "partial"}
  BY <1>1, <1>2, LabStatusStep DEF LabInv
<1>4. LabType'
  BY <1>2, <1>3, LabTables DEF LabInv, LabType
<1> QED
  BY <1>2, <1>3, <1>4, LabDrivenStep DEF LabInv

LEMMA LabHolds ==
  ASSUME Lab!RemixAssumption
  PROVE  Lab!Spec => []LabInv
BY LabInit, LabNext, PTL DEF Lab!Spec

\* Every row, drive, goroutine and request of the lab is well typed, also those that
\* write back what they read before a deletion or a restart.
THEOREM LabTypeCorrect ==
  ASSUME Lab!RemixAssumption
  PROVE  Lab!Spec => []Lab!TypeOK
<1>1. LabInv => Lab!TypeOK
  BY LabWork DEF LabInv, LabType, Lab!TypeOK, Goroutine, Asking
<1> QED
  BY <1>1, LabHolds, PTL

\* The status of an experiment is what its runs say, whichever goroutine, request or
\* restart wrote last (UpdateRun, AppendRemixRun, FailNonTerminal).
THEOREM StatusFollowsRuns ==
  ASSUME Lab!RemixAssumption
  PROVE  Lab!Spec => []Lab!ExperimentStatusIsCurrent
<1>1. LabInv => Lab!ExperimentStatusIsCurrent
  BY DEF LabInv
<1> QED
  BY <1>1, LabHolds, PTL

\* A queued run has a drive or a goroutine, a running one a goroutine, through retries,
\* reworks, repetitions, deletions and restarts (drive, executeRun, RetryRun, Rework).
THEOREM RunsAreDriven ==
  ASSUME Lab!RemixAssumption
  PROVE  Lab!Spec => []Lab!InFlightIsDriven
<1>1. LabInv => Lab!InFlightIsDriven
  BY DEF LabInv
<1> QED
  BY <1>1, LabHolds, PTL

\* No row that a goroutine or a request read earlier takes back a comment (UpdateRun,
\* UpdateRunPackage, PatchComment).
THEOREM CommentsStay ==
  ASSUME Lab!RemixAssumption
  PROVE  Lab!Spec => Lab!CommentIsKept
<1>1. LabInv /\ [Lab!Next]_(Lab!vars) => [Lab!KeepsComments]_(Lab!vars)
  <2> SUFFICES ASSUME LabInv, [Lab!Next]_(Lab!vars), NEW r \in Runs, run[r].comment, run'[r].st # "none"
               PROVE  run'[r].comment
    BY DEF Lab!KeepsComments
  <2>0. LabType /\ NothingLeft /\ Lab!NoRun.comment = FALSE /\ Lab!NoRun.st = "none"
    BY DEF LabInv, Lab!NoRun
  <2>1. run[r].st # "none" /\ kind # "none"
    BY <2>0 DEF NothingLeft
  <2>2. LabChange
    BY LabChanges DEF LabInv
  <2>3. CASE Created \/ Deleted
    BY <2>0, <2>1, <2>3 DEF Created, Deleted
  <2>4. CASE Updated
    <3>1. PICK q \in Runs, row \in Lab!Rows : row.st # "none" /\ Lab!UpdateRun(q, row)
      BY <2>4 DEF Updated
    <3> QED
      BY <2>0, <2>1, <3>1, UpdateRunWrites
  <2>5. CASE Appended
    BY <2>0, <2>1, <2>5, AppendWrites DEF Appended
  <2>6. CASE Marked
    BY <2>6 DEF Marked
  <2>7. CASE Failed
    BY <2>0, <2>7, FailWrites DEF Failed
  <2> QED
    BY <2>2, <2>3, <2>4, <2>5, <2>6, <2>7 DEF LabChange
<1> QED
  BY <1>1, LabHolds, PTL DEF Lab!Spec, Lab!CommentIsKept

-----------------------------------------------------------------------------
(* RemixProduction, with the tasks of the console as `jobs` and the requests in `asked` *)

CONSTANTS AutoStart, CaptionsDisabled, MaxTasks, MaxFinishes, MaxFaults

VARIABLES row, active, drv, jobs, voice, gate, asked, finishes, ignored, lost, faults

Production == INSTANCE RemixProduction WITH task <- jobs, req <- asked, Auto <- AutoStart

Ids == 1..MaxTasks
Redone == {"spoken", "captions", "narration", "montage"}
Drawn == {t \in Ids : jobs[t].st = "completed"}

\* A row of a production, when the tasks in D are completed.
Fit(r, D) ==
  /\ r \in Production!Rows
  /\ r.status \in {"none", "waiting_confirm"} => r.step = "confirm"
  /\ r.status \in {"running", "failed"} => r.step \in Redone \cup {"project"}
  /\ r.status = "failed" /\ r.step = "captions" => ~CaptionsDisabled
  /\ r.step \in Redone \cup {"done"} => r.project
  /\ r.status = "completed" => r.step = "done" /\ r.task["montage"] \in D

\* What each variable of a production is.
ProductionTables ==
  /\ active \in BOOLEAN /\ ignored \in BOOLEAN /\ lost \in BOOLEAN
  /\ jobs \in [Ids -> [kind : Production!Kinds, st : {"none", "active", "completed", "failed"}]]
  /\ voice \in [ready : BOOLEAN, busy : BOOLEAN] /\ gate \in {"off", "read", "absent"}
Driver  == [at : {"off", "load", "step", "wait", "exit"}, rec : Production!Rows]
Request == [op : {"none", "start"} \cup Production!Steps, row : Production!Rows]

\* A request writes back a row that it could act on when it read it.
MayAct(q) == /\ q.op = "start" => q.row.status \in {"none", "waiting_confirm", "failed"}
             /\ q.op \in Redone => q.row.project
             /\ q.op = "captions" => ~CaptionsDisabled

\* The driver works on a running copy, and waits for a task of its own.
Copied == /\ drv.at \in {"step", "wait"} => drv.rec.status = "running"
          /\ drv.at = "wait" => drv.rec.step \in Production!Kinds /\ drv.rec.task[drv.rec.step] \in Ids

\* The entry of the driver stays while it exits; a row that runs then, or without a driver,
\* has been launched in vain, or its end was not written.
Entered == /\ active <=> drv.at # "off"
           /\ drv.at \in {"off", "exit"} /\ row.status = "running" => ignored \/ lost

ProductionInv ==
  /\ ProductionTables /\ Copied /\ Entered
  /\ Fit(row, Drawn)
  /\ drv \in Driver /\ Fit(drv.rec, Drawn)
  /\ asked \in [Callers -> Request] /\ \A c \in Callers : Fit(asked[c].row, Drawn) /\ MayAct(asked[c])

\* A completed task stays completed, so that a row that fits goes on to fit.
LEMMA FitsOn ==
  ASSUME NEW D, NEW E, D \subseteq E, NEW r, Fit(r, D)
  PROVE  Fit(r, E)
BY DEF Fit

\* The first rows of a production.
LEMMA FirstFit ==
  ASSUME Production!ProductionAssumption, NEW D
  PROVE  /\ Fit(Production!None, D) /\ Production!None.status = "none"
         /\ Fit(Production!Row("running", "project"), D) /\ Production!Row("running", "project").status = "running"
         /\ Fit(Production!Row("waiting_confirm", "confirm"), D)
         /\ Production!Row("waiting_confirm", "confirm").status = "waiting_confirm"
<1>1. Production!NoTasks \in [Production!Kinds -> 0..MaxTasks]
  BY DEF Production!NoTasks, Production!ProductionAssumption
<1> QED
  BY <1>1 DEF Fit, Production!None, Production!Row, Production!Rows, Production!Steps, Redone

\* The rows that a request writes.
Begun(old) == [old EXCEPT !.status = "running", !.step = IF old.status = "failed" THEN old.step ELSE "project"]
Redo(old, step) ==
  [old EXCEPT !.status = "running", !.step = step,
              !.task = [k \in Production!Kinds |-> IF k \in Production!Cleared(step) THEN 0 ELSE old.task[k]],
              !.force = old.force \/ step \in {"spoken", "narration"}]

LEMMA BegunFits ==
  ASSUME NEW D, NEW old, Fit(old, D), old.status \in {"waiting_confirm", "failed"}
  PROVE  Fit(Begun(old), D) /\ Begun(old).status = "running"
<1> DEFINE step == IF old.status = "failed" THEN old.step ELSE "project"
<1>1. step \in Production!Steps /\ step \in Redone \cup {"project"} /\ (step \in Redone => old.project)
  BY DEF Fit, Redone, Production!Rows, Production!Steps
<1> HIDE DEF step
<1>2. Begun(old) = [old EXCEPT !.status = "running", !.step = step]
  BY DEF Begun, step
<1> QED
  BY <1>1, <1>2 DEF Fit, Redone, Production!Rows, Production!Steps

LEMMA RedoFits ==
  ASSUME Production!ProductionAssumption, NEW D, NEW old, Fit(old, D), NEW step \in Redone, old.project
  PROVE  Fit(Redo(old, step), D) /\ Redo(old, step).status = "running"
<1> DEFINE left == [k \in Production!Kinds |-> IF k \in Production!Cleared(step) THEN 0 ELSE old.task[k]]
           force == old.force \/ step \in {"spoken", "narration"}
<1>1. old \in Production!Rows /\ left \in [Production!Kinds -> 0..MaxTasks] /\ force \in BOOLEAN /\ step \in Production!Steps
  BY DEF Fit, Redone, Production!Rows, Production!Steps, Production!ProductionAssumption
<1>2. Redo(old, step) = [old EXCEPT !.status = "running", !.step = step, !.task = left, !.force = force]
  BY DEF Redo
<1> HIDE DEF left, force
<1>3. /\ Redo(old, step) \in Production!Rows /\ Redo(old, step).status = "running"
      /\ Redo(old, step).step = step /\ Redo(old, step).project = old.project
  BY <1>1, <1>2 DEF Production!Rows
<1> QED
  BY <1>3 DEF Fit, Redone

\* The rows that the driver writes.
LEMMA StepFits ==
  ASSUME NEW D, NEW r, Fit(r, D), r.status = "running", r.project, NEW step \in Redone
  PROVE  Fit([r EXCEPT !.step = step], D) /\ [r EXCEPT !.step = step].status = "running"
BY DEF Fit, Redone, Production!Rows, Production!Steps

LEMMA DoneFits ==
  ASSUME NEW D, NEW r, Fit(r, D), r.status = "running", r.project, r.task["montage"] \in D
  PROVE  LET d == [r EXCEPT !.step = "done", !.status = "completed"] IN Fit(d, D) /\ d.status = "completed"
BY DEF Fit, Redone, Production!Rows, Production!Steps

LEMMA FailFits ==
  ASSUME NEW D, NEW r, Fit(r, D), r.status = "running", r.step # "captions"
  PROVE  Fit([r EXCEPT !.status = "failed"], D) /\ [r EXCEPT !.status = "failed"].status = "failed"
BY DEF Fit, Redone, Production!Rows, Production!Steps

LEMMA TaskFits ==
  ASSUME NEW D, NEW r, Fit(r, D), r.status = "running", NEW k \in Production!Kinds, NEW t \in Ids
  PROVE  LET d == [r EXCEPT !.task[k] = t]
         IN  /\ Fit(d, D) /\ d.status = "running" /\ d.step = r.step /\ d.task[k] = t
<1>1. r \in Production!Rows /\ [r.task EXCEPT ![k] = t] \in [Production!Kinds -> 0..MaxTasks]
  BY DEF Fit, Ids, Production!Rows
<1>2. [r.task EXCEPT ![k] = t][k] = t
  BY <1>1 DEF Production!Rows
<1> DEFINE m == [r.task EXCEPT ![k] = t]
           d == [r EXCEPT !.task = m]
<1>3. [r EXCEPT !.task[k] = t] = d
  OBVIOUS
<1> HIDE DEF m
<1>4. d \in Production!Rows /\ d.status = "running" /\ d.step = r.step /\ d.task = m /\ d.project = r.project
  BY <1>1 DEF Production!Rows, m
<1> HIDE DEF d
<1> QED
  BY <1>2, <1>3, <1>4 DEF Fit, m

LEMMA ProductionInit ==
  ASSUME Production!ProductionAssumption, Production!Init
  PROVE  ProductionInv
<1>1. /\ row = Production!None /\ active = FALSE /\ ignored = FALSE /\ lost = FALSE /\ gate = "off"
      /\ drv = [at |-> "off", rec |-> Production!None]
      /\ jobs = [t \in Ids |-> [kind |-> "spoken", st |-> "none"]]
      /\ voice = [ready |-> FALSE, busy |-> FALSE]
      /\ asked = [c \in Callers |-> [op |-> "none", row |-> Production!None]]
  BY DEF Production!Init, Production!Off, Production!NoReq, Ids
<1>2. Fit(Production!None, Drawn) /\ Production!None.status = "none" /\ Production!None \in Production!Rows
  BY FirstFit DEF Fit
<1>3. ProductionTables
  BY <1>1 DEF ProductionTables, Production!Kinds
<1>4. Copied /\ Entered /\ drv \in Driver
  BY <1>1, <1>2 DEF Copied, Entered, Driver
<1>5. asked \in [Callers -> Request] /\ \A c \in Callers : Fit(asked[c].row, Drawn) /\ MayAct(asked[c])
  BY <1>1, <1>2 DEF Request, MayAct, Redone
<1> QED
  BY <1>1, <1>2, <1>3, <1>4, <1>5 DEF ProductionInv

\* A launch starts a driver, or finds one.
LEMMA LaunchSteps ==
  ASSUME Production!ProductionAssumption, ProductionInv, Production!Launch
  PROVE  /\ active' \in BOOLEAN /\ ignored' \in BOOLEAN /\ lost' \in BOOLEAN /\ Copied' /\ Entered'
         /\ drv' \in Driver /\ Fit(drv'.rec, Drawn)
<1>1. CASE active
  BY <1>1 DEF Production!Launch, ProductionInv, ProductionTables, Copied, Entered
<1>2. CASE ~active
  <2>1. drv' = [at |-> "load", rec |-> Production!None] /\ active' = TRUE /\ ignored' = active /\ lost' = (active /\ lost)
    BY <1>2 DEF Production!Launch
  <2>2. Fit(Production!None, Drawn) /\ Production!None \in Production!Rows
    BY FirstFit DEF Fit
  <2>3. drv' \in Driver /\ drv'.rec = Production!None /\ drv'.at = "load"
    BY <2>1, <2>2 DEF Driver
  <2> QED
    BY <1>2, <2>1, <2>2, <2>3 DEF ProductionInv, ProductionTables, Copied, Entered
<1> QED
  BY <1>1, <1>2

\* The steps outside the driver leave the tasks alone, or end one.
Beside == /\ drv' \in Driver /\ Fit(drv'.rec, Drawn) /\ Copied' /\ Entered'
          /\ active' \in BOOLEAN /\ ignored' \in BOOLEAN /\ lost' \in BOOLEAN

LEMMA BesideHolds ==
  ASSUME ProductionInv, Beside, Drawn \subseteq Drawn', Fit(row', Drawn'),
         jobs' \in [Ids -> [kind : Production!Kinds, st : {"none", "active", "completed", "failed"}]],
         voice' \in [ready : BOOLEAN, busy : BOOLEAN], gate' \in {"off", "read", "absent"},
         asked' \in [Callers -> Request], \A c \in Callers : Fit(asked'[c].row, Drawn') /\ MayAct(asked'[c])
  PROVE  ProductionInv'
<1>1. Fit(drv'.rec, Drawn')
  BY FitsOn DEF Beside
<1> QED
  BY <1>1 DEF ProductionInv, Beside, ProductionTables

LEMMA GateSteps ==
  ASSUME Production!ProductionAssumption, ProductionInv,
         Production!FinishRun \/ Production!ReadGate \/ Production!WriteGate
  PROVE  ProductionInv'
<1>0. UNCHANGED <<jobs, voice, asked>> /\ Drawn' = Drawn /\ gate' \in {"off", "read", "absent"}
  BY DEF Production!FinishRun, Production!ReadGate, Production!WriteGate, Drawn
<1>1. CASE Production!FinishRun \/ Production!ReadGate
  <2>1. UNCHANGED <<row, active, drv, ignored, lost>>
    BY <1>1 DEF Production!FinishRun, Production!ReadGate
  <2> QED
    BY <1>0, <2>1 DEF ProductionInv, ProductionTables, Copied, Entered
<1>2. CASE Production!WriteGate
  <2>1. CASE AutoStart
    <3>1. row' = Production!Row("running", "project") /\ Production!Launch
      BY <1>2, <2>1 DEF Production!WriteGate
    <3>2. Beside
      BY <3>1, LaunchSteps DEF Beside
    <3>3. Fit(row', Drawn')
      BY <1>0, <3>1, FirstFit
    <3> QED
      BY <1>0, <3>2, <3>3, BesideHolds DEF ProductionInv, ProductionTables
  <2>2. CASE ~AutoStart
    <3>1. row' = Production!Row("waiting_confirm", "confirm") /\ UNCHANGED <<active, drv, ignored, lost>>
      BY <1>2, <2>2 DEF Production!WriteGate, Production!Unlaunched
    <3>2. Fit(row', Drawn') /\ row'.status = "waiting_confirm"
      BY <1>0, <3>1, FirstFit
    <3>3. Beside
      BY <3>1, <3>2 DEF Beside, ProductionInv, ProductionTables, Copied, Entered
    <3> QED
      BY <1>0, <3>2, <3>3, BesideHolds DEF ProductionInv, ProductionTables
  <2> QED
    BY <2>1, <2>2
<1> QED
  BY <1>1, <1>2

\* A request reads the row; it may act on it as it is.
LEMMA ReadSteps ==
  ASSUME Production!ProductionAssumption, ProductionInv, NEW c \in Callers,
         Production!ReadStart(c) \/ \E s \in Redone : Production!ReadRedo(c, s)
  PROVE  ProductionInv'
<1>1. UNCHANGED <<row, active, drv, jobs, voice, gate, ignored, lost>> /\ Drawn' = Drawn
  BY DEF Production!ReadStart, Production!ReadRedo, Drawn
<1>2. PICK q \in Request : asked' = [asked EXCEPT ![c] = q] /\ q.row = row /\ MayAct(q)
  <2>1. CASE Production!ReadStart(c)
    <3> DEFINE q == [op |-> "start", row |-> row]
    <3>1. q \in Request /\ q.row = row /\ MayAct(q) /\ asked' = [asked EXCEPT ![c] = q]
      BY <2>1 DEF Production!ReadStart, Request, MayAct, ProductionInv, Fit, Redone
    <3> QED
      BY <3>1
  <2>2. ASSUME NEW s \in Redone, Production!ReadRedo(c, s)
        PROVE  \E q \in Request : asked' = [asked EXCEPT ![c] = q] /\ q.row = row /\ MayAct(q)
    <3> DEFINE q == [op |-> s, row |-> row]
    <3>1. q \in Request /\ q.row = row /\ MayAct(q) /\ asked' = [asked EXCEPT ![c] = q]
      BY <2>2 DEF Production!ReadRedo, Request, MayAct, ProductionInv, Fit, Redone, Production!Steps
    <3> QED
      BY <3>1
  <2> QED
    BY <2>1, <2>2
<1>3. /\ asked' \in [Callers -> Request]
      /\ \A d \in Callers : Fit(asked'[d].row, Drawn') /\ MayAct(asked'[d])
  BY <1>1, <1>2 DEF ProductionInv
<1> QED
  BY <1>1, <1>3 DEF ProductionInv, ProductionTables, Copied, Entered

\* A request writes its row back, unless the row is gone, and launches the driver.
LEMMA WriteSteps ==
  ASSUME Production!ProductionAssumption, ProductionInv, NEW c \in Callers,
         Production!StartProduction(c) \/ \E s \in Redone : Production!RedoProductionStep(c, s)
  PROVE  ProductionInv'
<1>1. UNCHANGED <<jobs, voice, gate>> /\ Drawn' = Drawn /\ asked' = [asked EXCEPT ![c] = Production!NoReq]
  BY DEF Production!StartProduction, Production!RedoProductionStep, Drawn
<1>2. Production!NoReq \in Request /\ MayAct(Production!NoReq) /\ Fit(Production!NoReq.row, Drawn)
  BY FirstFit DEF Production!NoReq, Request, MayAct, Fit, Redone
<1>3. /\ asked' \in [Callers -> Request]
      /\ \A d \in Callers : Fit(asked'[d].row, Drawn') /\ MayAct(asked'[d])
  BY <1>1, <1>2 DEF ProductionInv
<1> DEFINE old == asked[c].row
<1>4. Fit(old, Drawn) /\ MayAct(asked[c])
  BY DEF ProductionInv
<1>5. /\ \/ Fit(row', Drawn) /\ Production!Launch
         \/ row' = row /\ UNCHANGED <<active, drv, ignored, lost>>
  <2>1. CASE Production!StartProduction(c)
    <3>1. CASE old.status = "none"
      <4>1. row' = Production!Row("running", "project") /\ Production!Launch
        BY <2>1, <3>1 DEF Production!StartProduction
      <4> QED
        BY <4>1, FirstFit
    <3>2. CASE old.status # "none"
      <4>1. old.status \in {"waiting_confirm", "failed"}
        BY <1>4, <2>1, <3>2 DEF MayAct, Production!StartProduction
      <4>2. /\ row' = IF row.status = "none" THEN row ELSE Begun(old)
            /\ IF row.status = "none" THEN UNCHANGED <<active, drv, ignored, lost>> ELSE Production!Launch
        BY <2>1, <3>2 DEF Production!StartProduction, Production!Save, Production!Unlaunched, Begun
      <4> QED
        BY <1>4, <4>1, <4>2, BegunFits
    <3> QED
      BY <3>1, <3>2
  <2>2. ASSUME NEW s \in Redone, Production!RedoProductionStep(c, s)
        PROVE  \/ Fit(row', Drawn) /\ Production!Launch
               \/ row' = row /\ UNCHANGED <<active, drv, ignored, lost>>
    <3>1. old.project
      BY <1>4, <2>2 DEF MayAct, Production!RedoProductionStep
    <3>2. /\ row' = IF row.status = "none" THEN row ELSE Redo(old, s)
          /\ IF row.status = "none" THEN UNCHANGED <<active, drv, ignored, lost>> ELSE Production!Launch
      BY <2>2 DEF Production!RedoProductionStep, Production!Save, Production!Unlaunched, Redo
    <3> QED
      BY <1>4, <3>1, <3>2, RedoFits
  <2> QED
    BY <2>1, <2>2
<1>6. CASE Fit(row', Drawn) /\ Production!Launch
  <2>1. Beside
    BY <1>6, LaunchSteps DEF Beside
  <2> QED
    BY <1>1, <1>3, <1>6, <2>1, BesideHolds DEF ProductionInv, ProductionTables
<1>7. CASE row' = row /\ UNCHANGED <<active, drv, ignored, lost>>
  BY <1>1, <1>3, <1>7 DEF ProductionInv, ProductionTables, Copied, Entered
<1> QED
  BY <1>5, <1>6, <1>7

\* What the rest of the console does.
LEMMA ConsoleSteps ==
  ASSUME Production!ProductionAssumption, ProductionInv,
         Production!DeleteExperiment \/ Production!OtherNarration \/ Production!Restart \/ \E t \in Ids : Production!EndTask(t)
  PROVE  ProductionInv'
<1>1. CASE Production!DeleteExperiment
  <2>1. row' = Production!None /\ UNCHANGED <<active, drv, jobs, voice, gate, asked, ignored, lost>> /\ Drawn' = Drawn
    BY <1>1 DEF Production!DeleteExperiment, Drawn
  <2>2. Fit(row', Drawn') /\ row'.status = "none"
    BY <2>1, FirstFit
  <2> QED
    BY <2>1, <2>2 DEF ProductionInv, ProductionTables, Copied, Entered
<1>2. CASE Production!OtherNarration
  <2>1. UNCHANGED <<row, drv, jobs, active, gate, asked, ignored, lost>> /\ Drawn' = Drawn
    BY <1>2 DEF Production!OtherNarration, Production!Others, Production!Kept, Drawn
  <2>2. voice' \in [ready : BOOLEAN, busy : BOOLEAN]
    <3> DEFINE calm == [voice EXCEPT !.busy = FALSE]
               busy == [voice EXCEPT !.busy = TRUE]
    <3>1. voice' \in {calm, busy, [ready |-> TRUE, busy |-> FALSE]}
      BY <1>2 DEF Production!OtherNarration
    <3>2. calm \in [ready : BOOLEAN, busy : BOOLEAN] /\ busy \in [ready : BOOLEAN, busy : BOOLEAN]
      BY DEF ProductionInv, ProductionTables
    <3>3. [ready |-> TRUE, busy |-> FALSE] \in [ready : BOOLEAN, busy : BOOLEAN]
      OBVIOUS
    <3> HIDE DEF calm, busy
    <3> QED
      BY <3>1, <3>2, <3>3
  <2> QED
    BY <2>1, <2>2 DEF ProductionInv, ProductionTables, Copied, Entered
<1>3. CASE Production!Restart
  <2>1. /\ UNCHANGED <<row, jobs>> /\ Drawn' = Drawn /\ gate' = "off" /\ ignored' = FALSE /\ lost' = FALSE
        /\ asked' = [c \in Callers |-> Production!NoReq] /\ voice' = [voice EXCEPT !.busy = FALSE]
        /\ active' = (row.status = "running")
        /\ drv' = IF row.status = "running" THEN [at |-> "load", rec |-> Production!None] ELSE Production!Off
    BY <1>3 DEF Production!Restart, Production!ResumeAll, Drawn
  <2>2. Production!NoReq \in Request /\ MayAct(Production!NoReq) /\ Fit(Production!NoReq.row, Drawn)
    BY FirstFit DEF Production!NoReq, Request, MayAct, Fit, Redone
  <2>3. /\ drv' \in Driver /\ drv'.rec = Production!None
        /\ drv'.at = IF row.status = "running" THEN "load" ELSE "off"
    BY <2>1, FirstFit DEF Driver, Fit, Production!Off
  <2>4. Beside
    BY <2>1, <2>3, FirstFit DEF Beside, Copied, Entered
  <2>5. voice' \in [ready : BOOLEAN, busy : BOOLEAN]
    BY <2>1 DEF ProductionInv, ProductionTables
  <2>6. asked' \in [Callers -> Request] /\ \A c \in Callers : Fit(asked'[c].row, Drawn') /\ MayAct(asked'[c])
    BY <2>1, <2>2
  <2> QED
    BY <2>1, <2>4, <2>5, <2>6, BesideHolds DEF ProductionInv, ProductionTables
<1>4. ASSUME NEW t \in Ids, Production!EndTask(t) PROVE ProductionInv'
  <2>1. UNCHANGED <<row, drv, voice, active, gate, asked, ignored, lost>> /\ jobs[t].st = "active"
    BY <1>4 DEF Production!EndTask, Production!Others, Production!Kept
  <2>2. PICK st \in {"completed", "failed"} : jobs' = [jobs EXCEPT ![t].st = st]
    BY <1>4 DEF Production!EndTask
  <2>3. Drawn \subseteq Drawn'
    BY <2>1, <2>2 DEF Drawn, ProductionInv, ProductionTables
  <2>4. jobs' \in [Ids -> [kind : Production!Kinds, st : {"none", "active", "completed", "failed"}]]
    BY <2>2 DEF ProductionInv, ProductionTables
  <2>5. Fit(row', Drawn') /\ \A c \in Callers : Fit(asked'[c].row, Drawn') /\ MayAct(asked'[c])
    BY <2>1, <2>3, FitsOn DEF ProductionInv
  <2>6. Beside
    BY <2>1 DEF Beside, ProductionInv, ProductionTables, Copied, Entered
  <2> QED
    BY <2>1, <2>3, <2>4, <2>5, <2>6, BesideHolds DEF ProductionInv, ProductionTables
<1> QED
  BY <1>1, <1>2, <1>3, <1>4

\* The driver writes its copy, or cannot.
Wrote == \/ row' = (IF row.status = "none" THEN row ELSE drv'.rec) /\ lost' = FALSE
         \/ row' = row /\ lost' = TRUE

\* The driver goes on with a row that fits, or ends with one that does not run or that it could
\* not read or write.
Drives ==
  /\ UNCHANGED <<active, gate, asked, ignored>> /\ active /\ lost' \in BOOLEAN
  /\ drv' \in Driver /\ Fit(drv'.rec, Drawn') /\ Copied'
  /\ \/ row' = row /\ drv'.at \in {"step", "wait"}
     \/ drv.at = "load" /\ row' = row /\ row.status # "running" /\ drv'.at = "exit"
     \/ drv.at = "load" /\ row' = row /\ lost' = TRUE /\ drv'.at = "exit"
     \/ Wrote /\ drv'.at \in {"step", "wait"}
     \/ Wrote /\ drv'.at = "exit" /\ drv'.rec.status # "running"

LEMMA RecordWrites ==
  ASSUME Production!Record(drv'.rec)
  PROVE  Wrote /\ lost' \in BOOLEAN
BY DEF Production!Record, Production!Save, Wrote

LEMMA DrivesHolds ==
  ASSUME ProductionInv, Drives, Drawn \subseteq Drawn', voice' \in [ready : BOOLEAN, busy : BOOLEAN],
         jobs' \in [Ids -> [kind : Production!Kinds, st : {"none", "active", "completed", "failed"}]]
  PROVE  ProductionInv'
<1>1. \A c \in Callers : Fit(asked'[c].row, Drawn') /\ MayAct(asked'[c])
  BY FitsOn DEF ProductionInv, Drives
<1>2. Fit(row', Drawn')
  BY FitsOn DEF ProductionInv, Drives, Wrote
<1>3. Entered'
  BY DEF ProductionInv, Entered, Drives, Wrote
<1> QED
  BY <1>1, <1>2, <1>3 DEF ProductionInv, Drives, ProductionTables

\* The next step of the driver, with a copy that has its project.
LEMMA AdvanceDrives ==
  ASSUME ProductionInv, active, Production!Others, NEW r, Fit(r, Drawn), r.status = "running", r.project,
         NEW step \in Redone \cup {"done"}, Production!Advance(r, step), step = "done" => r.task["montage"] \in Drawn,
         jobs' = jobs
  PROVE  Drives
<1>0. Drawn' = Drawn /\ UNCHANGED <<active, gate, asked, ignored>>
  BY DEF Drawn, Production!Others
<1>1. CASE step = "done"
  <2> DEFINE d == [r EXCEPT !.step = "done", !.status = "completed"]
  <2>1. Fit(d, Drawn) /\ d.status = "completed"
    BY <1>1, DoneFits
  <2>2. drv' = [at |-> "exit", rec |-> d]
    BY <1>1 DEF Production!Advance
  <2> HIDE DEF d
  <2>3. drv' \in Driver /\ drv'.at = "exit" /\ drv'.rec = d
    BY <2>1, <2>2 DEF Driver, Fit
  <2>4. Wrote /\ lost' \in BOOLEAN
    BY RecordWrites DEF Production!Advance
  <2> QED
    BY <1>0, <2>1, <2>3, <2>4 DEF Drives, Copied
<1>2. CASE step # "done"
  <2> DEFINE d == [r EXCEPT !.step = step]
  <2>1. Fit(d, Drawn) /\ d.status = "running"
    BY <1>2, StepFits
  <2>2. drv' = [at |-> "step", rec |-> d]
    BY <1>2 DEF Production!Advance
  <2> HIDE DEF d
  <2>3. drv' \in Driver /\ drv'.at = "step" /\ drv'.rec = d
    BY <2>1, <2>2 DEF Driver, Fit
  <2>4. Wrote /\ lost' \in BOOLEAN
    BY RecordWrites DEF Production!Advance
  <2> QED
    BY <1>0, <2>1, <2>3, <2>4 DEF Drives, Copied
<1> QED
  BY <1>1, <1>2

LEMMA FailDrives ==
  ASSUME ProductionInv, active, Production!Others, NEW r, Fit(r, Drawn), r.status = "running", r.step # "captions",
         Production!FailStep(r), jobs' = jobs
  PROVE  Drives
<1>0. Drawn' = Drawn /\ UNCHANGED <<active, gate, asked, ignored>>
  BY DEF Drawn, Production!Others
<1> DEFINE d == [r EXCEPT !.status = "failed"]
<1>1. Fit(d, Drawn) /\ d.status = "failed"
  BY FailFits
<1>2. drv' = [at |-> "exit", rec |-> d] /\ Wrote /\ lost' \in BOOLEAN
  BY RecordWrites DEF Production!FailStep
<1> HIDE DEF d
<1>3. drv' \in Driver /\ drv'.at = "exit" /\ drv'.rec = d
  BY <1>1, <1>2 DEF Driver, Fit
<1> QED
  BY <1>0, <1>1, <1>2, <1>3 DEF Drives, Copied

\* The driver at a step: its copy runs.
LEMMA DriverAt ==
  ASSUME ProductionInv, drv.at \in {"step", "wait"}
  PROVE  /\ active /\ Fit(drv.rec, Drawn) /\ drv.rec.status = "running"
         /\ drv.rec.step \in Redone => drv.rec.project
BY DEF ProductionInv, Copied, Entered, Fit

LEMMA PlainDriverSteps ==
  ASSUME Production!ProductionAssumption, ProductionInv,
         Production!Load \/ Production!StepProject \/ Production!SkipCaptions \/ Production!StepNarration \/ Production!Exit
  PROVE  ProductionInv'
<1>0. jobs' = jobs /\ Drawn' = Drawn
  BY DEF Production!Load, Production!StepProject, Production!SkipCaptions, Production!StepNarration, Production!Exit, Drawn
<1>1. jobs' \in [Ids -> [kind : Production!Kinds, st : {"none", "active", "completed", "failed"}]]
  BY <1>0 DEF ProductionInv, ProductionTables
<1>2. CASE Production!Load
  <2>1. UNCHANGED <<row, voice, active, gate, asked, ignored>> /\ drv.at = "load"
    BY <1>2 DEF Production!Load, Production!Others
  <2>2. \/ /\ drv' = IF row.status = "running" THEN [at |-> "step", rec |-> row] ELSE [drv EXCEPT !.at = "exit"]
           /\ lost' = lost
        \/ drv' = [drv EXCEPT !.at = "exit"] /\ lost' = TRUE
    BY <1>2 DEF Production!Load, Production!Kept
  <2>3. active /\ Fit(row, Drawn) /\ Fit(drv.rec, Drawn) /\ drv \in Driver /\ voice \in [ready : BOOLEAN, busy : BOOLEAN]
    BY <2>1 DEF ProductionInv, Entered, ProductionTables
  <2>4. /\ drv' \in Driver /\ Fit(drv'.rec, Drawn) /\ Copied' /\ lost' \in BOOLEAN
        /\ \/ row.status = "running" /\ drv'.at = "step"
           \/ (row.status # "running" \/ lost' = TRUE) /\ drv'.at = "exit"
    <3>1. row \in Production!Rows /\ lost \in BOOLEAN
      BY DEF ProductionInv, ProductionTables, Fit
    <3>2. drv' \in Driver /\ drv'.rec \in {drv.rec, row} /\ drv'.at \in {"step", "exit"}
      BY <2>2, <2>3, <3>1 DEF Driver
    <3>3. Fit(drv'.rec, Drawn)
      BY <2>3, <3>2
    <3>4. \/ row.status = "running" /\ drv'.at = "step" /\ drv'.rec = row /\ lost' = lost
          \/ row.status # "running" /\ drv'.at = "exit" /\ lost' = lost
          \/ lost' = TRUE /\ drv'.at = "exit"
      BY <2>2, <2>3 DEF Driver
    <3>5. Copied'
      BY <3>4 DEF Copied
    <3> QED
      BY <3>1, <3>2, <3>3, <3>4, <3>5
  <2>5. Drives
    BY <1>0, <2>1, <2>3, <2>4 DEF Drives
  <2> QED
    BY <1>0, <1>1, <2>1, <2>3, <2>5, DrivesHolds
<1>3. CASE Production!StepProject
  <2>1. drv.at = "step" /\ drv.rec.step = "project" /\ voice' = voice /\ Production!Others
    BY <1>3 DEF Production!StepProject, Production!At
  <2>2. active /\ Fit(drv.rec, Drawn) /\ drv.rec.status = "running"
    BY <2>1, DriverAt
  <2> DEFINE r == [drv.rec EXCEPT !.project = TRUE]
  <2>3. Fit(r, Drawn) /\ r.status = "running" /\ r.project
    BY <2>1, <2>2 DEF Fit, Redone, Production!Rows
  <2>4. Production!Advance(r, "spoken") \/ Production!FailStep(drv.rec)
    BY <1>3 DEF Production!StepProject
  <2> HIDE DEF r
  <2>5. Drives
    <3>1. CASE Production!Advance(r, "spoken")
      BY <1>0, <2>1, <2>2, <2>3, <3>1, AdvanceDrives DEF Redone
    <3>2. CASE Production!FailStep(drv.rec)
      BY <1>0, <2>1, <2>2, <3>2, FailDrives
    <3> QED
      BY <2>4, <3>1, <3>2
  <2> QED
    BY <1>0, <1>1, <2>1, <2>5, DrivesHolds DEF ProductionInv, ProductionTables
<1>4. CASE Production!SkipCaptions
  <2>1. drv.at = "step" /\ drv.rec.step = "captions" /\ voice' = voice /\ Production!Others /\ Production!Advance(drv.rec, "narration")
    BY <1>4 DEF Production!SkipCaptions, Production!At
  <2>2. Drives
    BY <1>0, <2>1, DriverAt, AdvanceDrives DEF Redone
  <2> QED
    BY <1>0, <1>1, <2>1, <2>2, DrivesHolds DEF ProductionInv, ProductionTables
<1>5. CASE Production!StepNarration
  <2>1. drv.at = "step" /\ drv.rec.step = "narration" /\ Production!Others
    BY <1>5 DEF Production!StepNarration, Production!At
  <2>2. active /\ Fit(drv.rec, Drawn) /\ drv.rec.status = "running" /\ drv.rec.project
    BY <2>1, DriverAt DEF Redone
  <2> DEFINE r == [drv.rec EXCEPT !.force = FALSE]
             made == [voice EXCEPT !.ready = TRUE]
  <2>3. Fit(r, Drawn) /\ r.status = "running" /\ r.project
    BY <2>1, <2>2 DEF Fit, Redone, Production!Rows
  <2>4. /\ voice' = voice \/ voice' = made
        /\ Production!Advance(drv.rec, "montage") \/ Production!Advance(r, "montage") \/ Production!FailStep(drv.rec)
    BY <1>5 DEF Production!StepNarration
  <2>5. voice' \in [ready : BOOLEAN, busy : BOOLEAN]
    BY <2>4 DEF ProductionInv, ProductionTables
  <2> HIDE DEF r, made
  <2>6. Drives
    <3>1. CASE Production!Advance(r, "montage")
      BY <1>0, <2>1, <2>2, <2>3, <3>1, AdvanceDrives DEF Redone
    <3>2. CASE Production!FailStep(drv.rec)
      BY <1>0, <2>1, <2>2, <3>2, FailDrives
    <3>3. CASE Production!Advance(drv.rec, "montage")
      BY <1>0, <2>1, <2>2, <3>3, AdvanceDrives DEF Redone
    <3> QED
      BY <2>4, <3>1, <3>2, <3>3
  <2> QED
    BY <1>0, <1>1, <2>5, <2>6, DrivesHolds
<1>6. CASE Production!Exit
  <2>1. UNCHANGED <<row, voice, gate, asked, ignored, lost>> /\ active' = FALSE /\ drv' = Production!Off /\ drv.at = "exit"
    BY <1>6 DEF Production!Exit
  <2>2. drv' \in Driver /\ Fit(drv'.rec, Drawn) /\ drv'.at = "off"
    BY <2>1, FirstFit DEF Production!Off, Driver, Fit
  <2> QED
    BY <1>0, <2>1, <2>2 DEF ProductionInv, ProductionTables, Copied, Entered
<1> QED
  BY <1>2, <1>3, <1>4, <1>5, <1>6

\* A task of a step is taken up, made or waited for.
LEMMA TaskDriverSteps ==
  ASSUME Production!ProductionAssumption, ProductionInv, NEW k \in Production!Kinds,
         Production!StepTask(k) \/ Production!WaitTask(k)
  PROVE  ProductionInv'
<1> DEFINE next == Production!After(k)
<1>1. /\ k \in Redone /\ next \in Redone \cup {"done"}
      /\ next = "done" => k = "montage"
  BY DEF Production!Kinds, Production!After, Redone
<1>2. drv.at \in {"step", "wait"} /\ drv.rec.step = k /\ voice' = voice /\ Production!Others
  BY DEF Production!StepTask, Production!WaitTask, Production!At
<1>3. active /\ Fit(drv.rec, Drawn) /\ drv.rec.status = "running" /\ drv.rec.project
  BY <1>1, <1>2, DriverAt
<1>4. drv.rec \in Production!Rows /\ drv.rec.task[k] \in 0..MaxTasks
  BY <1>3 DEF Fit, Production!Rows
<1>5. UNCHANGED <<active, gate, asked, ignored>>
  BY <1>2 DEF Production!Others
<1>6. voice' \in [ready : BOOLEAN, busy : BOOLEAN]
  BY <1>2 DEF ProductionInv, ProductionTables
<1> HIDE DEF next
<1>7. ASSUME Production!Advance(drv.rec, next), jobs' = jobs, next = "done" => drv.rec.task["montage"] \in Drawn
      PROVE  Drives
  BY <1>1, <1>2, <1>3, <1>7, AdvanceDrives
<1>8. ASSUME Production!FailStep(drv.rec), jobs' = jobs, k # "captions"
      PROVE  Drives
  BY <1>2, <1>3, <1>8, FailDrives
<1>9. ASSUME drv.rec.task[k] # 0, jobs[drv.rec.task[k]].st = "completed"
      PROVE  drv.rec.task[k] \in Drawn
  BY <1>4, <1>9 DEF Drawn, Ids, Production!ProductionAssumption
<1>10. CASE Production!WaitTask(k)
  <2>1. drv.rec.task[k] \in Ids
    BY <1>2, <1>10 DEF ProductionInv, Copied, Production!WaitTask
  <2>2. /\ jobs' = jobs
        /\ \/ (k = "captions" \/ jobs[drv.rec.task[k]].st = "completed") /\ Production!Advance(drv.rec, next)
           \/ k # "captions" /\ Production!FailStep(drv.rec)
    BY <1>10 DEF Production!WaitTask, next
  <2>3. drv.rec.task[k] # 0
    BY <2>1 DEF Ids, Production!ProductionAssumption
  <2>4. Drives
    BY <1>1, <1>7, <1>8, <1>9, <2>2, <2>3
  <2>5. Drawn' = Drawn
    BY <2>2 DEF Drawn
  <2> QED
    BY <1>6, <2>2, <2>4, <2>5, DrivesHolds DEF ProductionInv, ProductionTables
<1>11. CASE Production!StepTask(k)
  <2> DEFINE old == drv.rec.task[k]
             st == IF old = 0 THEN "none" ELSE jobs[old].st
  <2>1. \/ st = "completed" /\ Production!Advance(drv.rec, next) /\ jobs' = jobs
        \/ st = "active" /\ drv' = [drv EXCEPT !.at = "wait"] /\ UNCHANGED <<row, jobs, lost>>
        \/ Production!CreateTask(k)
        \/ k = "captions" /\ Production!Advance(drv.rec, next) /\ jobs' = jobs
        \/ k # "captions" /\ Production!FailStep(drv.rec) /\ jobs' = jobs
    BY <1>11 DEF Production!StepTask, Production!Kept, next
  <2>2. CASE Production!CreateTask(k)
    <3>1. PICK t \in 1..MaxTasks :
             /\ \/ jobs[t].st = "active" /\ jobs' = jobs
                \/ jobs[t].st = "none" /\ jobs' = [jobs EXCEPT ![t] = [kind |-> k, st |-> "active"]]
             /\ drv' = [at |-> "wait", rec |-> [drv.rec EXCEPT !.task[k] = t]]
             /\ Production!Record(drv'.rec)
      BY <2>2 DEF Production!CreateTask
    <3> DEFINE d == [drv.rec EXCEPT !.task[k] = t]
    <3>2. t \in Ids
      BY DEF Ids
    <3>3. Fit(d, Drawn) /\ d.status = "running" /\ d.step = k /\ d.task[k] = t
      BY <1>2, <1>3, <3>2, TaskFits
    <3>4. drv' = [at |-> "wait", rec |-> d] /\ Wrote /\ lost' \in BOOLEAN
      BY <3>1, RecordWrites
    <3> HIDE DEF d
    <3>5. drv' \in Driver /\ drv'.at = "wait" /\ drv'.rec = d
      BY <3>3, <3>4 DEF Driver, Fit
    <3>6. jobs' \in [Ids -> [kind : Production!Kinds, st : {"none", "active", "completed", "failed"}]] /\ Drawn \subseteq Drawn'
      BY <3>1, <3>2 DEF ProductionInv, ProductionTables, Drawn
    <3>7. Fit(drv'.rec, Drawn') /\ Copied'
      BY <3>2, <3>3, <3>5, <3>6, FitsOn DEF Copied
    <3>8. Drives
      BY <1>3, <1>5, <3>4, <3>5, <3>7 DEF Drives
    <3> QED
      BY <1>6, <3>6, <3>8, DrivesHolds
  <2>3. CASE ~Production!CreateTask(k)
    <3>1. jobs' = jobs /\ Drawn' = Drawn
      BY <2>1, <2>3 DEF Drawn
    <3>2. Drives
      <4>1. CASE st = "active" /\ drv' = [drv EXCEPT !.at = "wait"] /\ UNCHANGED <<row, jobs, lost>>
        <5>1. old \in Ids
          BY <1>4, <4>1 DEF Ids, Production!ProductionAssumption
        <5>2. drv' \in Driver /\ drv'.at = "wait" /\ drv'.rec = drv.rec
          BY <4>1 DEF ProductionInv, Driver
        <5>3. Copied'
          BY <1>2, <1>3, <5>1, <5>2 DEF Copied
        <5> QED
          BY <1>3, <1>5, <3>1, <4>1, <5>2, <5>3 DEF Drives, ProductionInv, ProductionTables
      <4>2. CASE st = "completed" /\ Production!Advance(drv.rec, next)
        <5>1. old \in Drawn
          BY <1>9, <4>2
        <5> QED
          BY <1>1, <1>7, <3>1, <4>2, <5>1
      <4>3. CASE k = "captions" /\ Production!Advance(drv.rec, next)
        BY <1>1, <1>7, <3>1, <4>3
      <4>4. CASE k # "captions" /\ Production!FailStep(drv.rec)
        BY <1>8, <3>1, <4>4
      <4> QED
        BY <2>1, <2>3, <4>1, <4>2, <4>3, <4>4
    <3> QED
      BY <1>6, <3>1, <3>2, DrivesHolds DEF ProductionInv, ProductionTables
  <2> QED
    BY <2>2, <2>3
<1> QED
  BY <1>10, <1>11

LEMMA ProductionNext ==
  ASSUME Production!ProductionAssumption, ProductionInv, [Production!Next]_(Production!vars)
  PROVE  ProductionInv'
<1>1. CASE UNCHANGED Production!vars
  <2>1. UNCHANGED <<row, active, drv, jobs, voice, gate, asked, ignored, lost>> /\ Drawn' = Drawn
    BY <1>1 DEF Production!vars, Drawn
  <2> QED
    BY <2>1 DEF ProductionInv, ProductionTables, Copied, Entered
<1>2. CASE Production!Driving
  <2>1. CASE \E k \in Production!Kinds : Production!StepTask(k) \/ Production!WaitTask(k)
    BY <2>1, TaskDriverSteps
  <2>2. CASE ~\E k \in Production!Kinds : Production!StepTask(k) \/ Production!WaitTask(k)
    BY <1>2, <2>2, PlainDriverSteps DEF Production!Driving
  <2> QED
    BY <2>1, <2>2
<1>3. CASE Production!FinishRun \/ Production!ReadGate \/ Production!WriteGate
  BY <1>3, GateSteps
<1>4. ASSUME NEW c \in Callers, Production!ReadStart(c) \/ Production!StartProduction(c)
      PROVE  ProductionInv'
  BY <1>4, ReadSteps, WriteSteps
<1>5. ASSUME NEW c \in Callers, NEW s \in Redone, Production!ReadRedo(c, s) \/ Production!RedoProductionStep(c, s)
      PROVE  ProductionInv'
  BY <1>5, ReadSteps, WriteSteps
<1>6. CASE Production!DeleteExperiment \/ Production!OtherNarration \/ Production!Restart \/ \E t \in Ids : Production!EndTask(t)
  BY <1>6, ConsoleSteps
<1> QED
  BY <1>1, <1>2, <1>3, <1>4, <1>5, <1>6 DEF Production!Next, Redone, Ids

LEMMA ProductionHolds ==
  ASSUME Production!ProductionAssumption
  PROVE  Production!Spec => []ProductionInv
BY ProductionInit, ProductionNext, PTL DEF Production!Spec

\* The row of a production, the driver with its copy, the gate, the tasks, the narration
\* and the requests are well typed in every reachable state.
THEOREM ProductionTypeCorrect ==
  ASSUME Production!ProductionAssumption
  PROVE  Production!Spec => []Production!TypeOK
<1>1. ProductionInv => Production!TypeOK
  BY DEF ProductionInv, ProductionTables, Driver, Request, Fit, Ids, Production!TypeOK
<1> QED
  BY <1>1, ProductionHolds, PTL


\* A production that is shown as running has a driver, or its launch met the entry of a
\* driver that was about to leave, or the last statement of its driver on the row failed
\* (Launch, Driver.run, advance, ResumeAll).
THEOREM ProductionDriven ==
  ASSUME Production!ProductionAssumption
  PROVE  Production!Spec => []Production!RunningIsDriven
<1>1. ProductionInv => Production!RunningIsDriven
  <2> SUFFICES ASSUME ProductionInv, row.status = "running", ~ignored, ~lost PROVE active
    BY DEF Production!RunningIsDriven
  <2> QED
    BY DEF ProductionInv, Entered
<1> QED
  BY <1>1, ProductionHolds, PTL

\* A completed production has its project and a draft whose task completed, through every
\* redo, resume and request that writes an older row back (advance, RedoProductionStep).
THEOREM DraftThere ==
  ASSUME Production!ProductionAssumption
  PROVE  Production!Spec => []Production!CompletedHasDraft
<1>1. ProductionInv => Production!CompletedHasDraft
  BY DEF ProductionInv, Fit, Drawn, Ids, Redone, Production!ProductionAssumption, Production!CompletedHasDraft
<1> QED
  BY <1>1, ProductionHolds, PTL

\* The nodes are in the order of the steps, and every step but one that is passed over has one.
LEMMA NodesInOrder ==
  ASSUME Production!ProductionAssumption
  PROVE  /\ DOMAIN Production!Nodes \subseteq Nat
         /\ \A i \in DOMAIN Production!Nodes : Production!Order(i) \in 1..5
         /\ \A i, j \in DOMAIN Production!Nodes : i < j => Production!Order(i) < Production!Order(j)
         /\ \A s \in Redone \cup {"project"} : ~(s = "captions" /\ CaptionsDisabled) =>
              \E i \in DOMAIN Production!Nodes : Production!Nodes[i] = s /\ Production!Order(i) = Production!StepOrder[s]
         /\ CaptionsDisabled => \A i \in DOMAIN Production!Nodes : Production!Order(i) # 3
<1>1. /\ Production!StepOrder["project"] = 1 /\ Production!StepOrder["spoken"] = 2 /\ Production!StepOrder["captions"] = 3
      /\ Production!StepOrder["narration"] = 4 /\ Production!StepOrder["montage"] = 5
  BY DEF Production!StepOrder
<1>2. CASE CaptionsDisabled
  <2>1. Production!Nodes = <<"project", "spoken", "narration", "montage">>
    BY <1>2 DEF Production!Nodes
  <2>2. /\ DOMAIN Production!Nodes = 1..4
        /\ Production!Nodes[1] = "project" /\ Production!Nodes[2] = "spoken"
        /\ Production!Nodes[3] = "narration" /\ Production!Nodes[4] = "montage"
    BY <2>1
  <2>3. /\ Production!Order(1) = 1 /\ Production!Order(2) = 2 /\ Production!Order(3) = 4 /\ Production!Order(4) = 5
    BY <1>1, <2>2 DEF Production!Order
  <2>4. \A i \in 1..4 : i = 1 \/ i = 2 \/ i = 3 \/ i = 4
    OBVIOUS
  <2> QED
    BY <1>1, <1>2, <2>2, <2>3, <2>4 DEF Redone
<1>3. CASE ~CaptionsDisabled
  <2>1. Production!Nodes = <<"project", "spoken", "captions", "narration", "montage">>
    BY <1>3 DEF Production!Nodes, Production!AllNodes
  <2>2. /\ DOMAIN Production!Nodes = 1..5
        /\ Production!Nodes[1] = "project" /\ Production!Nodes[2] = "spoken" /\ Production!Nodes[3] = "captions"
        /\ Production!Nodes[4] = "narration" /\ Production!Nodes[5] = "montage"
    BY <2>1
  <2>3. /\ Production!Order(1) = 1 /\ Production!Order(2) = 2 /\ Production!Order(3) = 3
        /\ Production!Order(4) = 4 /\ Production!Order(5) = 5
    BY <1>1, <2>2 DEF Production!Order
  <2>4. \A i \in 1..5 : i = 1 \/ i = 2 \/ i = 3 \/ i = 4 \/ i = 5
    OBVIOUS
  <2> QED
    BY <1>1, <1>3, <2>2, <2>3, <2>4 DEF Redone
<1> QED
  BY <1>2, <1>3

\* What a node shows, by where the production is.
LEMMA NodeShows ==
  ASSUME Production!ProductionAssumption, ProductionInv, NEW i \in DOMAIN Production!Nodes
  PROVE  /\ row.status = "waiting_confirm" => Production!NodeStage(i) = "missing"
         /\ row.status # "waiting_confirm" =>
              /\ Production!Order(i) < Production!StepOrder[row.step] \/ row.step = "done" =>
                   Production!NodeStage(i) \in {"ok", "skipped"}
              /\ Production!Order(i) = Production!StepOrder[row.step] /\ row.step # "done" =>
                   Production!NodeStage(i) = IF row.status = "completed" THEN "ok" ELSE row.status
              /\ Production!Order(i) > Production!StepOrder[row.step] /\ row.step # "done" =>
                   Production!NodeStage(i) = "missing"
<1> DEFINE o == Production!Order(i)
           c == Production!StepOrder[row.step]
           quiet == Production!Nodes[i] = "captions" /\ row.task["captions"] = 0
<1>1. o \in 1..5
  BY NodesInOrder
<1>2. c \in 0..6
  BY DEF ProductionInv, Fit, Production!Rows, Production!Steps, Production!StepOrder
<1>3. Production!NodeStage(i) =
        CASE row.status = "waiting_confirm" -> "missing"
          [] row.status # "waiting_confirm" /\ (o < c \/ row.step = "done") -> IF quiet THEN "skipped" ELSE "ok"
          [] row.status # "waiting_confirm" /\ o = c /\ row.step # "done" -> IF row.status = "completed" THEN "ok" ELSE row.status
          [] OTHER -> "missing"
  BY DEF Production!NodeStage
<1> HIDE DEF o, c, quiet
<1>4. CASE row.status = "waiting_confirm"
  BY <1>3, <1>4
<1>5. CASE row.status # "waiting_confirm" /\ (o < c \/ row.step = "done")
  <2>1. Production!NodeStage(i) = IF quiet THEN "skipped" ELSE "ok"
    BY <1>1, <1>2, <1>3, <1>5
  <2> QED
    BY <1>1, <1>2, <1>5, <2>1 DEF o, c
<1>6. CASE row.status # "waiting_confirm" /\ o = c /\ row.step # "done"
  <2>1. Production!NodeStage(i) = IF row.status = "completed" THEN "ok" ELSE row.status
    BY <1>1, <1>2, <1>3, <1>6
  <2> QED
    BY <1>1, <1>2, <1>6, <2>1 DEF o, c
<1>7. CASE row.status # "waiting_confirm" /\ o > c /\ row.step # "done"
  <2>1. Production!NodeStage(i) = "missing"
    BY <1>1, <1>2, <1>3, <1>7
  <2> QED
    BY <1>1, <1>2, <1>7, <2>1 DEF o, c
<1> QED
  BY <1>1, <1>2, <1>4, <1>5, <1>6, <1>7

\* What the canvas shows of a production is where it is (appendProductionStages): one node
\* runs or failed, those before it are done, those after it are missing, and a finished
\* production waits to be published.
THEOREM CanvasCorrect ==
  ASSUME Production!ProductionAssumption
  PROVE  Production!Spec => []Production!CanvasShowsTheStep
<1>1. ProductionInv => Production!CanvasShowsTheStep
  <2> SUFFICES ASSUME ProductionInv, row.status # "none" PROVE Production!CanvasShowsTheStep
    BY DEF Production!CanvasShowsTheStep
  <2> DEFINE D == DOMAIN Production!Nodes
             stage(i) == Production!NodeStage(i)
             o(i) == Production!Order(i)
             c == Production!StepOrder[row.step]
             at == {i \in D : stage(i) \in {"running", "failed"}}
  <2>1. Fit(row, Drawn) /\ row.status \in {"waiting_confirm", "running", "completed", "failed"}
    BY DEF ProductionInv, Fit, Production!Rows
  <2>2. /\ D \subseteq Nat /\ \A i, j \in D : i < j => o(i) < o(j)
        /\ \A i \in D : o(i) \in 1..5
    BY NodesInOrder
  <2>3. c \in 0..6
    BY <2>1 DEF Fit, Production!Rows, Production!Steps, Production!StepOrder
  <2>4. \A i \in D :
           /\ row.status = "waiting_confirm" => stage(i) = "missing"
           /\ row.status # "waiting_confirm" =>
                /\ o(i) < c \/ row.step = "done" => stage(i) \in {"ok", "skipped"}
                /\ o(i) = c /\ row.step # "done" => stage(i) = IF row.status = "completed" THEN "ok" ELSE row.status
                /\ o(i) > c /\ row.step # "done" => stage(i) = "missing"
    BY NodeShows
  <2>5. /\ row.status \in {"running", "failed"} => row.step \in Redone \cup {"project"}
        /\ row.status = "completed" => row.step = "done"
        /\ row.status = "failed" /\ row.step = "captions" => ~CaptionsDisabled
    BY <2>1 DEF Fit
  <2>6. row.status \in {"running", "failed"} /\ ~Production!Passing =>
          \E i \in D : Production!Nodes[i] = row.step /\ o(i) = c
    BY <2>1, <2>5, NodesInOrder DEF Production!Passing
  <2>7. /\ (Production!PublishStage = "waiting") <=> (row.status = "completed")
        /\ (Production!GateStage = "waiting") <=> (row.status = "waiting_confirm")
    BY DEF Production!PublishStage, Production!GateStage
  <2> HIDE DEF D, stage, o, c
  <2>8. ASSUME row.status \in {"waiting_confirm", "completed"}
        PROVE  /\ at = {}
               /\ row.status = "completed" => \A j \in D : stage(j) \in {"ok", "skipped"}
    BY <2>4, <2>5, <2>8
  <2>9. ASSUME row.status \in {"running", "failed"}
        PROVE  /\ ~Production!Passing => \E i \in at : at = {i} /\ Production!Nodes[i] = row.step
               /\ \A i \in at, j \in D : /\ j < i => stage(j) \in {"ok", "skipped"}
                                         /\ j > i => stage(j) = "missing"
    <3>1. row.step # "done" /\ row.status \notin {"waiting_confirm", "completed"}
      BY <2>5, <2>9 DEF Redone
    <3>2. \A i \in D : i \in at <=> o(i) = c
      BY <2>2, <2>3, <2>4, <2>9, <3>1
    <3>3. \A i, j \in D : o(i) = o(j) => i = j
      BY <2>2
    <3>4. \A i, j \in D : i \in at => /\ j < i => stage(j) \in {"ok", "skipped"}
                                      /\ j > i => stage(j) = "missing"
      BY <2>2, <2>3, <2>4, <3>1, <3>2
    <3>5. ASSUME ~Production!Passing PROVE \E i \in at : at = {i} /\ Production!Nodes[i] = row.step
      BY <2>6, <2>9, <3>2, <3>3, <3>5
    <3> QED
      BY <3>4, <3>5
  <2> QED
    BY <2>1, <2>7, <2>8, <2>9 DEF Production!CanvasShowsTheStep, D, stage
<1> QED
  BY <1>1, ProductionHolds, PTL

(***************************************************************************)
(* RemixFlow with its canvas, for any agents and graphs and any number of  *)
(* attempts.                                                               *)
(*                                                                         *)
(* A run that waits for its attempt has no script, no review and no draft  *)
(* (Script, Canvas), so what is found later was written by the attempt.    *)
(***************************************************************************)
CONSTANTS Agents, Reviewed, Graphs, MaxAttempts
VARIABLES deps, status, attempt, at, out, file, last, wave, res, fed, redo, raw, errs, logged

Flow == INSTANCE RunCanvas

\* An attempt is under way exactly while the run is running, and only its agents have a wave.
FlowTables ==
  /\ attempt \in Nat /\ out \in [Agents -> Nat] /\ file \in [{"script", "review"} -> Nat]
  /\ res \in [Agents -> {"none", "asked"} \cup Flow!Ended] /\ fed \in [Agents -> [Agents -> Nat]]
  /\ wave \subseteq Agents /\ (wave # {} => at = "agents")
  /\ (at = "idle") = (status # "running") /\ redo \subseteq Agents

\* An agent is under way in its wave only; what it waits for has ended before, outside of it,
\* and what its prompt held of that is still its result.
Waves ==
  /\ \A a \in Agents \ wave : res[a] # "asked"
  /\ \A a \in Agents : a \in wave \/ res[a] # "none" =>
        \A b \in deps[a] : b \in Agents \ wave /\ res[b] \in Flow!Ended
  /\ \A a \in Agents : res[a] \in {"asked", "called", "empty"} =>
        \A b \in deps[a] : fed[a][b] = Flow!Result(b)

\* A run that waits for its attempt has no script, and a script there is of the attempt.
Script == file["script"] \in {0, attempt} /\ (status = "queued" => file["script"] = 0)

\* An agent to be run again has no output until it has been called.
Again ==
  \A a \in redo : /\ status = "queued" => out[a] = 0
                  /\ status = "running" => res[a] # "cached" /\ (res[a] = "none" => out[a] = 0)

AttemptInv == FlowTables /\ (at # "idle" => Waves) /\ Script /\ Again

LEMMA AttemptInit == Flow!Init => AttemptInv
BY DEF Flow!Init, AttemptInv, FlowTables, Script, Again

\* What an agent of the wave does for itself leaves the others what they have: no agent waits
\* for one of its own wave, and none that has been asked for one that has yet to end.
LEMMA WaveMove ==
  ASSUME FlowTables, Waves, NEW a \in wave, UNCHANGED <<deps, wave>>, res'[a] # "none",
         \A b \in Agents \ {a} : res'[b] = res[b] /\ out'[b] = out[b] /\ fed'[b] = fed[b],
         res'[a] \in {"asked", "called", "empty"} => \A b \in deps[a] : fed'[a][b] = Flow!Result(b)
  PROVE  Waves'
<1>1. a \in Agents /\ \A b \in deps[a] : b \in Agents \ wave
  BY DEF FlowTables, Waves
<1>2. \A c \in Agents : (c \in wave \/ res'[c] # "none") => c \in wave \/ res[c] # "none"
  OBVIOUS
<1>3. \A c \in Agents : (c \in wave \/ res[c] # "none") =>
        \A b \in deps[c] : b \in Agents \ {a} /\ b \notin wave /\ res[b] \in Flow!Ended
  BY DEF Waves
<1>4. \A b \in Agents \ {a} : Flow!Result(b)' = Flow!Result(b)
  BY DEF Flow!Result
<1>5. \A c \in Agents \ wave' : res'[c] # "asked"
  BY DEF Waves
<1>6. \A c \in Agents : c \in wave' \/ res'[c] # "none" =>
        \A b \in deps'[c] : b \in Agents \ wave' /\ res'[b] \in Flow!Ended
  BY <1>2, <1>3
<1>7. ASSUME NEW c \in Agents, res'[c] \in {"asked", "called", "empty"}, NEW b \in deps'[c]
      PROVE  fed'[c][b] = Flow!Result(b)'
  <2>1. c \in wave \/ res[c] # "none"
    BY <1>7
  <2>2. b \in deps[c] /\ Flow!Result(b)' = Flow!Result(b)
    BY <1>7, <2>1, <1>3, <1>4
  <2>3. fed'[c][b] = Flow!Result(b)
    BY <1>7, <2>2 DEF Waves
  <2> QED
    BY <2>2, <2>3
<1> QED
  BY <1>5, <1>6, <1>7 DEF Waves

\* A node is answered from the disk or asks, saves the answer and ends.
LEMMA NodeStep ==
  ASSUME AttemptInv, NEW a \in Agents, Flow!RunNode(a)
  PROVE  AttemptInv'
<1>0. /\ FlowTables /\ Script /\ Again /\ Waves /\ a \in wave /\ at = "agents" /\ status = "running"
      /\ UNCHANGED <<deps, status, attempt, at, file, last, wave, redo>>
  BY DEF AttemptInv, FlowTables, Waves, Flow!RunNode, Flow!Cached, Flow!Ask, Flow!SaveOutput,
         Flow!Answered, Flow!agents
<1>1. CASE Flow!Cached(a)
  <2>1. PICK r \in {"cached", "error"} : res' = [res EXCEPT ![a] = r]
    BY <1>1 DEF Flow!Cached
  <2>2. out[a] # 0 /\ res[a] = "none" /\ UNCHANGED <<out, fed>>
    BY <1>1 DEF Flow!Cached
  <2>3. res'[a] = r /\ \A b \in Agents \ {a} : res'[b] = res[b]
    BY <1>0, <2>1 DEF FlowTables
  <2>4. FlowTables'
    BY <1>0, <2>1, <2>2 DEF FlowTables, Flow!Ended
  <2>5. Waves'
    BY <1>0, <2>2, <2>3, WaveMove
  <2>6. Again'
    BY <1>0, <2>2, <2>3 DEF Again, FlowTables
  <2> QED
    BY <1>0, <2>4, <2>5, <2>6 DEF AttemptInv, Script
<1>2. CASE Flow!Ask(a)
  <2> DEFINE f == [b \in Agents |-> IF b \in deps[a] THEN Flow!Result(b) ELSE 0]
  <2>1. fed' = [fed EXCEPT ![a] = f] /\ res' = [res EXCEPT ![a] = "asked"] /\ res[a] = "none" /\ out' = out
    BY <1>2 DEF Flow!Ask
  <2>2. f \in [Agents -> Nat]
    BY <1>0 DEF FlowTables, Flow!Result
  <2>3. \A b \in deps[a] : b \in Agents
    BY <1>0 DEF Waves
  <2>4. \A b \in deps[a] : f[b] = Flow!Result(b)
    BY <2>3
  <2> HIDE DEF f
  <2>5. /\ res'[a] = "asked" /\ fed'[a] = f
        /\ \A b \in Agents \ {a} : res'[b] = res[b] /\ fed'[b] = fed[b]
    BY <1>0, <2>1 DEF FlowTables
  <2>6. FlowTables'
    BY <1>0, <2>1, <2>2 DEF FlowTables
  <2>7. Waves'
    BY <1>0, <2>1, <2>4, <2>5, WaveMove
  <2>8. Again'
    BY <1>0, <2>1, <2>5 DEF Again, FlowTables
  <2> QED
    BY <1>0, <2>6, <2>7, <2>8 DEF AttemptInv, Script
<1>3. CASE Flow!SaveOutput(a)
  <2>1. res[a] = "asked" /\ out' = [out EXCEPT ![a] = attempt] /\ UNCHANGED <<res, fed>>
    BY <1>3 DEF Flow!SaveOutput, Flow!agents
  <2>2. \A b \in Agents \ {a} : out'[b] = out[b]
    BY <1>0, <2>1 DEF FlowTables
  <2>3. FlowTables'
    BY <1>0, <2>1 DEF FlowTables
  <2>4. Waves'
    BY <1>0, <2>1, <2>2, WaveMove DEF Waves
  <2>5. Again'
    BY <1>0, <2>1, <2>2 DEF Again, FlowTables
  <2> QED
    BY <1>0, <2>3, <2>4, <2>5 DEF AttemptInv, Script
<1>4. CASE Flow!Answered(a)
  <2>1. PICK r \in {"called", "empty", "error"} : res' = [res EXCEPT ![a] = r]
    BY <1>4 DEF Flow!Answered
  <2>2. res[a] = "asked" /\ UNCHANGED <<out, fed>>
    BY <1>4 DEF Flow!Answered
  <2>3. res'[a] = r /\ \A b \in Agents \ {a} : res'[b] = res[b]
    BY <1>0, <2>1 DEF FlowTables
  <2>4. FlowTables'
    BY <1>0, <2>1, <2>2 DEF FlowTables, Flow!Ended
  <2>5. Waves'
    BY <1>0, <2>2, <2>3, WaveMove DEF Waves
  <2>6. Again'
    BY <1>0, <2>2, <2>3 DEF Again, FlowTables
  <2> QED
    BY <1>0, <2>4, <2>5, <2>6 DEF AttemptInv, Script
<1> QED
  BY <1>1, <1>2, <1>3, <1>4 DEF Flow!RunNode

LEMMA AttemptNext == AttemptInv /\ [Flow!Next]_(Flow!vars) => AttemptInv'
<1> SUFFICES ASSUME AttemptInv, [Flow!Next]_(Flow!vars) PROVE AttemptInv'
  OBVIOUS
<1>1. CASE Flow!StartAttempt
  <2>1. attempt' = attempt + 1 /\ attempt' \in Nat /\ status' = "running" /\ at' = "agents" /\ file["script"] = 0 /\ status = "queued"
        /\ res' = [a \in Agents |-> "none"] /\ UNCHANGED <<deps, out, file, wave, fed, redo>> /\ wave = {}
    BY <1>1 DEF Flow!StartAttempt, Flow!Go, AttemptInv, FlowTables, Script
  <2>2. FlowTables'
    BY <2>1 DEF AttemptInv, FlowTables
  <2>3. Waves'
    BY <2>1 DEF Waves
  <2> QED
    BY <2>1, <2>2, <2>3 DEF AttemptInv, FlowTables, Script, Again
<1>2. CASE Flow!StartWave \/ Flow!EndWave
  <2>1. /\ UNCHANGED <<deps, status, attempt, at, out, file, res, fed, redo>> /\ at = "agents"
        /\ AttemptInv /\ FlowTables /\ Waves
    BY <1>2 DEF Flow!StartWave, Flow!EndWave, AttemptInv, FlowTables
  <2>2. \A b : Flow!Result(b)' = Flow!Result(b)
    BY <2>1 DEF Flow!Result
  <2>3. CASE Flow!StartWave
    <3>1. wave = {} /\ wave' = Flow!NextWave
      BY <2>3 DEF Flow!StartWave
    <3>2. \A a \in Agents : res[a] # "none" => res[a] \in Flow!Ended
      BY <2>1, <3>1 DEF FlowTables, Waves
    <3>3. \A a \in wave' : a \in Agents /\ res[a] = "none" /\ \A b \in deps[a] : b \in Agents /\ res[b] # "none"
      BY <3>1 DEF Flow!NextWave
    <3>4. \A b \in Agents : res[b] \in Flow!Ended => b \notin wave'
      BY <3>3 DEF Flow!Ended
    <3>5. Waves'
      BY <2>1, <2>2, <3>1, <3>2, <3>3, <3>4 DEF Waves
    <3> QED
      BY <2>1, <3>3, <3>5 DEF AttemptInv, FlowTables, Script, Again
  <2>4. CASE Flow!EndWave
    <3>1. wave' = {} /\ \A a \in wave : res[a] \in Flow!Ended
      BY <2>4 DEF Flow!EndWave
    <3>2. \A a \in Agents : res[a] # "asked"
      BY <2>1, <3>1 DEF Waves, Flow!Ended
    <3>3. Waves'
      BY <2>1, <2>2, <3>1, <3>2 DEF Waves
    <3> QED
      BY <2>1, <3>1, <3>3 DEF AttemptInv, FlowTables, Script, Again
  <2> QED
    BY <1>2, <2>3, <2>4
<1>8. CASE Flow!EndAgents \/ Flow!Write \/ Flow!Keep
  <2>1. /\ UNCHANGED <<deps, status, attempt, out, wave, res, fed, redo>> /\ at # "idle" /\ wave = {}
        /\ at' \in {"writer", "keep", "read", "review", "deliver"}
    BY <1>8 DEF Flow!EndAgents, Flow!Write, Flow!Keep, Flow!Go, Flow!Fail, Flow!agents, AttemptInv, FlowTables
  <2>2. file' \in {file, [file EXCEPT !.script = attempt]}
    BY <1>8 DEF Flow!EndAgents, Flow!Write, Flow!Keep
  <2>3. file' \in [{"script", "review"} -> Nat] /\ file'["script"] \in {file["script"], attempt}
    BY <2>2 DEF AttemptInv, FlowTables
  <2>4. Waves'
    BY <2>1 DEF AttemptInv, Waves, Flow!Result
  <2> QED
    BY <2>1, <2>3, <2>4 DEF AttemptInv, FlowTables, Script, Again
<1>3. CASE Flow!Review \/ Flow!Deliver
  <2>1. /\ UNCHANGED <<deps, status, attempt, out, wave, res, fed, redo>> /\ at # "idle" /\ wave = {}
        /\ at' \in {"read", "deliver"}
    BY <1>3 DEF Flow!Review, Flow!Deliver, Flow!Go, Flow!Fail, Flow!agents, AttemptInv, FlowTables
  <2>2. \/ file' = file \/ file' = [file EXCEPT !.script = attempt]
        \/ file' = [file EXCEPT !.review = attempt] \/ file' = [file EXCEPT !.review = attempt, !.script = attempt]
    BY <1>3 DEF Flow!Review, Flow!Deliver
  <2>3. file' \in [{"script", "review"} -> Nat] /\ file'["script"] \in {file["script"], attempt}
    BY <2>2 DEF AttemptInv, FlowTables
  <2>4. Waves'
    BY <2>1 DEF AttemptInv, Waves, Flow!Result
  <2> QED
    BY <2>1, <2>3, <2>4 DEF AttemptInv, FlowTables, Script, Again
<1>4. CASE Flow!ReadBack \/ Flow!Stop
  <2>1. /\ UNCHANGED <<deps, attempt, out, file, res, fed>> /\ at' = "idle" /\ wave' = {}
        /\ status' \in {"completed", "failed"} /\ redo' = {}
    BY <1>4 DEF Flow!ReadBack, Flow!Stop, Flow!Go, Flow!agents, AttemptInv, FlowTables
  <2> QED
    BY <2>1 DEF AttemptInv, FlowTables, Script, Again
<1>5. ASSUME NEW a \in Agents, Flow!RunNode(a) PROVE AttemptInv'
  BY <1>5, NodeStep
<1>6. ASSUME NEW S \in {{}} \cup {{a} : a \in Agents}, Flow!RetryRun(S) PROVE AttemptInv'
  <2>1. S \subseteq Agents
    OBVIOUS
  <2>2. /\ at' = at /\ at = "idle" /\ attempt' = attempt /\ res' = res /\ deps' = deps /\ status' = "queued" /\ redo' = S
        /\ wave' = wave /\ fed' = fed
        /\ out' = [a \in Agents |-> IF a \in S THEN 0 ELSE out[a]] /\ file' = [f \in {"script", "review"} |-> 0]
    BY <1>6 DEF Flow!RetryRun, Flow!agents
  <2>3. out' \in [Agents -> Nat] /\ \A a \in S : out'[a] = 0
    BY <2>1, <2>2 DEF AttemptInv, FlowTables
  <2> QED
    BY <2>1, <2>2, <2>3 DEF AttemptInv, FlowTables, Script, Again
<1>7. CASE UNCHANGED Flow!vars
  BY <1>7 DEF Flow!vars, AttemptInv, FlowTables, Waves, Flow!Result, Script, Again
<1> QED
  BY <1>1, <1>2, <1>3, <1>4, <1>5, <1>6, <1>7, <1>8 DEF Flow!Next

\* The writer's answer is of the attempt, and is there from its end on; a review needs it.
Canvas ==
  /\ raw \in {0, attempt} /\ (at # "idle" => attempt # 0)
  /\ (status = "queued" => raw = 0 /\ file["review"] = 0) /\ (at \in {"agents", "writer"} => raw = 0)
  /\ (at \in {"review", "deliver"} => raw = attempt) /\ (at = "read" /\ last = "ok" => raw = attempt)
  /\ (status = "completed" => raw # 0) /\ (file["review"] # 0 => raw = attempt)

CanvasInv == AttemptInv /\ Canvas

LEMMA CanvasNext == CanvasInv /\ [Flow!NextCanvas]_<<Flow!vars, Flow!canvas>> => CanvasInv'
<1> SUFFICES ASSUME CanvasInv, [Flow!NextCanvas]_<<Flow!vars, Flow!canvas>> PROVE CanvasInv'
  OBVIOUS
<1>0. AttemptInv /\ Canvas /\ FlowTables /\ attempt \in Nat /\ file \in [{"script", "review"} -> Nat]
  BY DEF CanvasInv, AttemptInv, FlowTables
<1>1. [Flow!Next]_(Flow!vars)
  BY DEF Flow!NextCanvas, Flow!EndAgentsSeen, Flow!WriteSeen, Flow!Captured, Flow!KeepSeen, Flow!Next
<1>2. AttemptInv'
  BY <1>0, <1>1, AttemptNext
<1>3. Canvas'
  <2>1. CASE Flow!EndAgentsSeen
    <3>1. raw' = raw /\ at = "agents" /\ at' = "writer" /\ UNCHANGED <<status, attempt, file>>
      BY <2>1 DEF Flow!EndAgentsSeen, Flow!EndAgents, Flow!Go
    <3> QED
      BY <1>0, <3>1 DEF Canvas
  <2>2. CASE Flow!WriteSeen
    <3>1. at = "writer" /\ UNCHANGED <<status, attempt, file, raw>>
      BY <2>2 DEF Flow!WriteSeen, Flow!Write
    <3>2. \/ at' = "read" /\ last' = "failed"
          \/ at' = "keep"
      BY <2>2 DEF Flow!WriteSeen, Flow!Write, Flow!Go, Flow!Fail
    <3>3. status = "running"
      BY <1>0, <3>1 DEF FlowTables
    <3> QED
      BY <1>0, <3>1, <3>2, <3>3 DEF Canvas
  <2>9. CASE Flow!Captured
    <3>1. at = "keep" /\ raw' = attempt /\ UNCHANGED <<status, attempt, at, file, last>>
      BY <2>9 DEF Flow!Captured, Flow!vars
    <3>2. status = "running"
      BY <1>0, <3>1 DEF FlowTables
    <3> QED
      BY <1>0, <3>1, <3>2 DEF Canvas
  <2>10. CASE Flow!KeepSeen
    <3>1. at = "keep" /\ raw = attempt /\ at' \in {"review", "deliver"} /\ UNCHANGED <<status, attempt, raw>>
      BY <2>10 DEF Flow!KeepSeen, Flow!Keep, Flow!Go, Flow!canvas
    <3>2. status = "running"
      BY <1>0, <3>1 DEF FlowTables
    <3> QED
      BY <1>0, <3>1, <3>2 DEF Canvas
  <2>3. CASE raw' = raw /\ Flow!StartAttempt
    <3>1. attempt' = attempt + 1 /\ at' = "agents" /\ status = "queued" /\ status' = "running" /\ file' = file
      BY <2>3 DEF Flow!StartAttempt, Flow!Go
    <3> QED
      BY <1>0, <2>3, <3>1 DEF Canvas
  <2>4. CASE raw' = raw /\ (Flow!Review \/ Flow!Deliver)
    <3>1. UNCHANGED <<status, attempt>> /\ at \in {"review", "deliver"} /\ at' \in {"read", "deliver"}
      BY <2>4 DEF Flow!Review, Flow!Deliver, Flow!Go, Flow!Fail
    <3>2. status = "running"
      BY <1>0, <3>1 DEF FlowTables
    <3> QED
      BY <1>0, <2>4, <3>1, <3>2 DEF Canvas
  <2>5. CASE raw' = raw /\ (Flow!ReadBack \/ Flow!Stop)
    <3>1. /\ UNCHANGED <<attempt, file>> /\ at # "idle" /\ at' = "idle" /\ status' \in {"completed", "failed"}
          /\ status' = "completed" => at = "read" /\ last = "ok"
      BY <2>5 DEF Flow!ReadBack, Flow!Stop, Flow!Go
    <3> QED
      BY <1>0, <2>5, <3>1 DEF Canvas
  <2>6. ASSUME NEW a \in Agents, raw' = raw, Flow!RunNode(a) PROVE Canvas'
    <3>1. UNCHANGED <<status, attempt, at, file, last>>
      BY <2>6 DEF Flow!RunNode, Flow!Cached, Flow!Ask, Flow!SaveOutput, Flow!Answered
    <3> QED
      BY <1>0, <2>6, <3>1 DEF Canvas
  <2>7. ASSUME NEW S, Flow!RetryRun(S), raw' = 0 PROVE Canvas'
    <3>1. at = "idle" /\ at' = at /\ status' = "queued" /\ file' = [f \in {"script", "review"} |-> 0] /\ attempt' = attempt
      BY <2>7 DEF Flow!RetryRun
    <3> QED
      BY <2>7, <3>1 DEF Canvas
  <2>11. CASE raw' = raw /\ (Flow!StartWave \/ Flow!EndWave)
    <3>1. UNCHANGED <<status, attempt, at, file, last>>
      BY <2>11 DEF Flow!StartWave, Flow!EndWave
    <3> QED
      BY <1>0, <2>11, <3>1 DEF Canvas
  <2>8. CASE UNCHANGED <<Flow!vars, Flow!canvas>>
    BY <1>0, <2>8 DEF Flow!vars, Flow!canvas, Canvas
  <2> QED
    BY <2>1, <2>2, <2>3, <2>4, <2>5, <2>6, <2>7, <2>8, <2>9, <2>10, <2>11 DEF Flow!NextCanvas, Flow!Same, Flow!canvas, Flow!Removed
<1> QED
  BY <1>2, <1>3 DEF CanvasInv

LEMMA CanvasHolds == Flow!SpecCanvas => []CanvasInv
<1>1. Flow!InitCanvas => CanvasInv
  BY AttemptInit DEF Flow!InitCanvas, Flow!Init, CanvasInv, Canvas
<1> QED
  BY <1>1, CanvasNext, PTL DEF Flow!SpecCanvas

\* Whatever order the goroutines of the waves answer and save in, what the prompt of an agent
\* held of those it is connected to is what the attempt has of them (flowrun.go).
THEOREM AskedInOrder == Flow!SpecCanvas => []Flow!AskedWithTheResults
<1>1. CanvasInv => Flow!AskedWithTheResults
  BY DEF CanvasInv, AttemptInv, Waves, Flow!AskedWithTheResults
<1> QED
  BY <1>1, CanvasHolds, PTL

\* The script a run is shown with was written by its last attempt (RetryRun, executeRun).
THEOREM ScriptIsCurrent == Flow!SpecCanvas => []Flow!ScriptIsOfThisAttempt
<1>1. CanvasInv => Flow!ScriptIsOfThisAttempt
  BY DEF CanvasInv, AttemptInv, Script, Flow!ScriptIsOfThisAttempt
<1> QED
  BY <1>1, CanvasHolds, PTL

\* An agent that the operator asked to run again is not answered from the disk (RetryRun).
THEOREM RedoneIsCalled == Flow!SpecCanvas => []Flow!RedoneAgentIsCalled
<1>1. CanvasInv => Flow!RedoneAgentIsCalled
  BY DEF CanvasInv, AttemptInv, Again, Flow!RedoneAgentIsCalled
<1> QED
  BY <1>1, CanvasHolds, PTL

\* Through every retry and stop the canvas shows the attempt under way: no draft of an earlier
\* one as the writer's, and of a run that failed without a draft that it broke at the writer
\* (RunStages).
THEOREM RunCanvasIsCurrent == Flow!SpecCanvas => []Flow!CanvasIsOfThisAttempt
<1>1. CanvasInv => Flow!CanvasIsOfThisAttempt
  <2> SUFFICES ASSUME CanvasInv PROVE Flow!CanvasIsOfThisAttempt
    OBVIOUS
  <2>1. raw # 0 => raw = attempt /\ at # "agents"
    BY DEF CanvasInv, Canvas
  <2>2. status = "failed" /\ raw = 0 => Flow!WriterStage = "failed"
    BY DEF Flow!WriterStage
  <2>3. status = "completed" => Flow!WriterStage = "ok" /\ Flow!FinalStage = "ok"
    BY DEF CanvasInv, Canvas, Flow!WriterStage, Flow!FinalStage
  <2>4. Flow!ReviewStages # {"skipped"} => raw = attempt
    BY DEF CanvasInv, Canvas, Flow!ReviewStages
  <2> QED
    BY <2>1, <2>2, <2>3, <2>4 DEF Flow!CanvasIsOfThisAttempt
<1> QED
  BY <1>1, CanvasHolds, PTL
=============================================================================

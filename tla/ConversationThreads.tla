------------------------ MODULE ConversationThreads ------------------------
(* Conversations and the threads of the App Server behind them: the service  *)
(* (internal/conversation/service.go), the dispatcher that binds a task to    *)
(* the main conversation of its project (internal/codex/dispatcher.go), the   *)
(* broker's replacement of a thread that is gone, and the rows of             *)
(* internal/store/conversations.go.                                          *)
(*                                                                           *)
(* A thread is made on the server first and a row is written for it after:    *)
(* when something in between fails the thread is archived, or, when that      *)
(* fails too, written down to be archived later. There is one project;        *)
(* nothing here relates two of them. A session is named by the thread it was  *)
(* made with. A reply of thread/start that is lost leaves a thread nobody     *)
(* knows of, and is not modelled.                                            *)
EXTENDS Naturals, FiniteSets

CONSTANTS Callers,     \* requests and dispatches under way at the same time
          Tasks,       \* App Server tasks of the project
          MaxThreads,  \* bound: threads ever started
          MaxFaults,   \* bound: calls of the server and writes that fail
          MaxGone,     \* bound: threads removed on the server's side
          MaxCrashes,  \* bound: crashes of the console
          ReadsFail    \* whether the read of the owned threads may fail

None == 0
Free == "free"
NoTask == "no task"
Ids == 1..MaxThreads

VARIABLES threads,   \* [Ids -> status on the server]
          sessions,  \* [Ids -> [role, thread]]
          intents,   \* thread_cleanup_intents
          tasks,     \* [Tasks -> [status, session]]
          callers,   \* what each caller is doing
          ensureMu,  \* the caller that holds the lock of EnsureProjectMainSession
          orphans,   \* threads a crash took out of a caller's hands
          late,      \* tasks bound to a conversation that was, or was about to be, set aside
          faults, gone, crashes
vars == <<threads, sessions, intents, tasks, callers, ensureMu, orphans, late, faults, gone, crashes>>

Idle == [pc |-> "idle", op |-> "none", task |-> NoTask, session |-> None, thread |-> None, items |-> {}, owned |-> {}]
Rows == {s \in Ids : sessions[s].role \notin {"none", "deleted"}}
Mains == {s \in Ids : sessions[s].role = "main"}
Owned == {sessions[s].thread : s \in Rows}
OwnedReads == {Owned} \cup (IF ReadsFail THEN {{}} ELSE {})
Busy(s) == \E t \in Tasks : tasks[t].status = "queued" /\ tasks[t].session = s
Fault == faults < MaxFaults /\ faults' = faults + 1

Go(c, next) == callers' = [callers EXCEPT ![c] = next]
(* The end of a call; a call that held the lock lets go of it.               *)
Leave(c) == Go(c, Idle) /\ ensureMu' = IF ensureMu = c THEN Free ELSE ensureMu
Ensures(c) == callers[c].op \in {"task", "recover"}

-----------------------------------------------------------------------------
(* How calls begin.                                                          *)

Begin(c, op, task, s, pc) == callers[c].pc = "idle" /\ Go(c, [Idle EXCEPT !.pc = pc, !.op = op, !.task = task, !.session = s])

(* A dispatched task, and each project a start recovers, take the lock.      *)
EnsureProjectMainSession(c) ==
  /\ ensureMu = Free /\ ensureMu' = c
  /\ \/ \E t \in Tasks : tasks[t].status = "new" /\ Begin(c, "task", t, None, "retry")
     \/ Mains # {} /\ Begin(c, "recover", NoTask, None, "retry")
  /\ UNCHANGED <<threads, sessions, intents, tasks, orphans, late, faults, gone, crashes>>
(* A general conversation, or a fork of one, does not.                       *)
Create(c) == /\ \/ Begin(c, "chat", NoTask, None, "retry")
                \/ \E s \in Rows : Begin(c, "fork", NoTask, s, "retry")
             /\ UNCHANGED <<threads, sessions, intents, tasks, ensureMu, orphans, late, faults, gone, crashes>>
(* The broker found the thread of a session missing when it began a turn; it  *)
(* holds the lock of the session.                                            *)
replaceMissingThread(c) ==
  /\ \E s \in Rows : /\ threads[sessions[s].thread] # "live"
                      /\ \A d \in Callers : ~(callers[d].op = "replace" /\ callers[d].session = s)
                      /\ Begin(c, "replace", NoTask, s, "start")
  /\ UNCHANGED <<threads, sessions, intents, tasks, ensureMu, orphans, late, faults, gone, crashes>>

-----------------------------------------------------------------------------
(* retryThreadCleanup: what is written down and what is owned are read first, *)
(* then one thread after the other is archived.                              *)

RetryReads(c) ==
  /\ callers[c].pc = "retry"
  /\ \E owned \in OwnedReads : Go(c, [callers[c] EXCEPT !.pc = "retrying", !.items = intents, !.owned = owned])
  /\ UNCHANGED <<threads, sessions, intents, tasks, ensureMu, orphans, late, faults, gone, crashes>>

(* thread/archive. A thread that is not live is refused or accepted.         *)
Archived(t) == threads' = [threads EXCEPT ![t] = IF @ = "live" THEN "archived" ELSE @] /\ UNCHANGED faults
ArchiveRefused(t) == (IF threads[t] = "live" THEN Fault ELSE UNCHANGED faults) /\ UNCHANGED threads

RetryOne(c) ==
  /\ callers[c].pc = "retrying"
  /\ \E t \in callers[c].items :
       /\ Go(c, [callers[c] EXCEPT !.items = @ \ {t}])
       /\ \/ t \in callers[c].owned /\ intents' = intents \ {t} /\ UNCHANGED <<threads, faults>>
          \/ t \notin callers[c].owned /\ Archived(t) /\ intents' = intents \ {t}
          \/ t \notin callers[c].owned /\ ArchiveRefused(t) /\ intents' = intents \cup {t}
  /\ UNCHANGED <<sessions, tasks, ensureMu, orphans, late, gone, crashes>>
RetryEnds(c) ==
  /\ callers[c].pc = "retrying" /\ callers[c].items = {}
  /\ Go(c, [callers[c] EXCEPT !.pc = IF Ensures(c) THEN "resolve" ELSE "start", !.owned = {}])
  /\ UNCHANGED <<threads, sessions, intents, tasks, ensureMu, orphans, late, faults, gone, crashes>>

-----------------------------------------------------------------------------
(* EnsureProjectMainSession, continued.                                      *)

Found(c, s) == IF callers[c].op = "recover" THEN Leave(c)
               ELSE Go(c, [callers[c] EXCEPT !.pc = "bind", !.session = s]) /\ ensureMu' = Free

(* The main session is returned when its thread still exists, refused when    *)
(* it does not and work is under way on it, and demoted otherwise.           *)
Resolve(c) ==
  /\ callers[c].pc = "resolve"
  /\ IF Mains = {} THEN Go(c, [callers[c] EXCEPT !.pc = "start"]) /\ UNCHANGED <<ensureMu, faults>>
     ELSE \E s \in Mains :
            \/ threads[sessions[s].thread] = "live" /\ Found(c, s) /\ UNCHANGED faults
            \/ threads[sessions[s].thread] # "live" /\ Go(c, [callers[c] EXCEPT !.pc = "check", !.session = s]) /\ UNCHANGED <<ensureMu, faults>>
            \/ Fault /\ Leave(c)
  /\ UNCHANGED <<threads, sessions, intents, tasks, orphans, late, gone, crashes>>
(* Mutant: work under way is not looked for.                                  *)
NeverBusy(s) == FALSE
SessionHasActiveWork(s) == Busy(s)
CheckActivity(c) ==
  /\ callers[c].pc = "check"
  /\ IF SessionHasActiveWork(callers[c].session) THEN Leave(c) ELSE Go(c, [callers[c] EXCEPT !.pc = "demote"]) /\ UNCHANGED ensureMu
  /\ UNCHANGED <<threads, sessions, intents, tasks, orphans, late, faults, gone, crashes>>
DemoteProjectMainSession(c) ==
  /\ callers[c].pc = "demote"
  /\ sessions' = [sessions EXCEPT ![callers[c].session].role = "demoted"]
  /\ Go(c, [callers[c] EXCEPT !.pc = "start", !.session = None])
  /\ UNCHANGED <<threads, intents, tasks, ensureMu, orphans, late, faults, gone, crashes>>

-----------------------------------------------------------------------------
(* createSession, Fork and the broker's replacement: a thread is started,     *)
(* named when it is the project's, and written down.                         *)

Start(c) ==
  /\ callers[c].pc = "start"
  /\ \/ \E t \in Ids : /\ threads[t] = "none" /\ \A u \in Ids : u < t => threads[u] # "none"
                       /\ callers[c].op = "fork" => threads[sessions[callers[c].session].thread] = "live"
                       /\ threads' = [threads EXCEPT ![t] = "live"]
                       /\ Go(c, [callers[c] EXCEPT !.pc = IF Ensures(c) THEN "name" ELSE "persist", !.thread = t])
                       /\ UNCHANGED <<ensureMu, faults>>
     \/ Fault /\ Leave(c) /\ UNCHANGED threads
  /\ UNCHANGED <<sessions, intents, tasks, orphans, late, gone, crashes>>
Name(c) ==
  /\ callers[c].pc = "name"
  /\ \/ Go(c, [callers[c] EXCEPT !.pc = "persist"]) /\ UNCHANGED faults
     \/ Fault /\ Go(c, [callers[c] EXCEPT !.pc = "cleanup"])
  /\ UNCHANGED <<threads, sessions, intents, tasks, ensureMu, orphans, late, gone, crashes>>

RoleOf(c) == CASE Ensures(c) -> "main" [] callers[c].op = "fork" -> "fork" [] OTHER -> "chat"
Written(c) == IF callers[c].op = "replace" THEN [sessions EXCEPT ![callers[c].session].thread = callers[c].thread]
              ELSE [sessions EXCEPT ![callers[c].thread] = [role |-> RoleOf(c), thread |-> callers[c].thread]]
RowIsThere(c) == callers[c].op = "replace" => callers[c].session \in Rows

(* The write succeeds, fails, or fails although the row is there.            *)
Persist(c) ==
  /\ callers[c].pc = "persist"
  /\ \/ /\ RowIsThere(c) /\ sessions' = Written(c) /\ UNCHANGED faults
        /\ IF Ensures(c) THEN Found(c, callers[c].thread) ELSE Leave(c)
     \/ /\ RowIsThere(c) /\ callers[c].op # "replace" /\ Fault /\ sessions' = Written(c)
        /\ Go(c, [callers[c] EXCEPT !.pc = "cleanup"]) /\ UNCHANGED ensureMu
     \/ /\ (IF RowIsThere(c) THEN Fault ELSE UNCHANGED faults) /\ UNCHANGED <<sessions, ensureMu>>
        /\ Go(c, [callers[c] EXCEPT !.pc = "cleanup"])
  /\ UNCHANGED <<threads, intents, tasks, orphans, late, gone, crashes>>

(* cleanupOrphanThread, and its mutants: without the look at who owns the     *)
(* thread, and without a note when the server refuses.                       *)
Unchecked(c, owned) == FALSE
IsOwned(c, owned) == callers[c].op # "replace" /\ callers[c].thread \in owned
NotNoted(t) == intents
Noted(t) == intents \cup {t}
cleanupOrphanThread(c) ==
  /\ callers[c].pc = "cleanup"
  /\ \E owned \in OwnedReads, t \in {callers[c].thread} :
       IF IsOwned(c, owned) THEN UNCHANGED <<threads, intents, faults>>
       ELSE \/ Archived(t) /\ UNCHANGED intents
            \/ ArchiveRefused(t) /\ intents' = Noted(t)
  /\ IF Ensures(c) THEN Go(c, [callers[c] EXCEPT !.pc = "winner"]) /\ UNCHANGED ensureMu ELSE Leave(c)
  /\ UNCHANGED <<sessions, tasks, orphans, late, gone, crashes>>
(* After a failed creation the row that is there, if any, is the winner.      *)
Winner(c) ==
  /\ callers[c].pc = "winner"
  /\ IF Mains = {} THEN Leave(c) ELSE \E s \in Mains : Found(c, s)
  /\ UNCHANGED <<threads, sessions, intents, tasks, orphans, late, faults, gone, crashes>>

-----------------------------------------------------------------------------
(* bindPreparedProjectTask: the lock is no longer held, and the conversation  *)
(* may have been set aside, or another call be about to. A task that refers   *)
(* to a deleted conversation is refused by the database and not dispatched.   *)
SetAside(s) == sessions[s].role # "main" \/ \E d \in Callers : callers[d].pc = "demote" /\ callers[d].session = s
BindTask(c) ==
  /\ callers[c].pc = "bind"
  /\ \E t \in {callers[c].task}, s \in {callers[c].session} :
       /\ tasks' = [tasks EXCEPT ![t] = IF s \in Rows THEN [status |-> "queued", session |-> s] ELSE [@ EXCEPT !.status = "done"]]
       /\ late' = late \cup {u \in {t} : SetAside(s)}
  /\ Go(c, Idle)
  /\ UNCHANGED <<threads, sessions, intents, ensureMu, orphans, faults, gone, crashes>>
TaskEnds == /\ \E t \in Tasks : tasks[t].status = "queued" /\ tasks' = [tasks EXCEPT ![t].status = "done"]
            /\ UNCHANGED <<threads, sessions, intents, callers, ensureMu, orphans, late, faults, gone, crashes>>

(* DeleteMapping: the row goes, the thread stays with the server.            *)
DeleteMapping == /\ \E s \in Rows : /\ sessions[s].role # "main" /\ ~Busy(s)
                                    /\ sessions' = [sessions EXCEPT ![s].role = "deleted"]
                                    /\ orphans' = orphans \cup {sessions[s].thread}
                 /\ UNCHANGED <<threads, intents, tasks, callers, ensureMu, late, faults, gone, crashes>>

ThreadGoes == /\ gone < MaxGone /\ gone' = gone + 1
              /\ \E t \in Owned : threads[t] = "live" /\ threads' = [threads EXCEPT ![t] = "gone"]
              /\ UNCHANGED <<sessions, intents, tasks, callers, ensureMu, orphans, late, faults, crashes>>
Crash == /\ crashes < MaxCrashes /\ crashes' = crashes + 1
         /\ orphans' = orphans \cup {callers[c].thread : c \in Callers}
         /\ callers' = [c \in Callers |-> Idle] /\ ensureMu' = Free
         /\ UNCHANGED <<threads, sessions, intents, tasks, late, faults, gone>>

Init == /\ threads = [t \in Ids |-> "none"] /\ sessions = [s \in Ids |-> [role |-> "none", thread |-> None]]
        /\ intents = {} /\ tasks = [t \in Tasks |-> [status |-> "new", session |-> None]]
        /\ callers = [c \in Callers |-> Idle] /\ ensureMu = Free
        /\ orphans = {} /\ late = {} /\ faults = 0 /\ gone = 0 /\ crashes = 0
Next == \/ \E c \in Callers : \/ EnsureProjectMainSession(c) \/ Create(c) \/ replaceMissingThread(c)
                              \/ RetryReads(c) \/ RetryOne(c) \/ RetryEnds(c)
                              \/ Resolve(c) \/ CheckActivity(c) \/ DemoteProjectMainSession(c)
                              \/ Start(c) \/ Name(c) \/ Persist(c) \/ cleanupOrphanThread(c) \/ Winner(c) \/ BindTask(c)
        \/ TaskEnds \/ DeleteMapping \/ ThreadGoes \/ Crash
Spec == Init /\ [][Next]_vars

-----------------------------------------------------------------------------
(* Properties.                                                               *)

TypeOK == /\ threads \in [Ids -> {"none", "live", "archived", "gone"}]
          /\ sessions \in [Ids -> [role : {"none", "main", "demoted", "chat", "fork", "deleted"}, thread : 0..MaxThreads]]
          /\ intents \subseteq Ids /\ orphans \subseteq 0..MaxThreads /\ late \subseteq Tasks
          /\ tasks \in [Tasks -> [status : {"new", "queued", "done"}, session : 0..MaxThreads]]
          /\ ensureMu \in Callers \cup {Free}

(* A thread a conversation is bound to is never archived by the console.      *)
OwnedThreadIsKept == \A s \in Rows : threads[sessions[s].thread] # "archived"

(* A thread that was started and belongs to no conversation is archived, is   *)
(* written down to be archived, or is still in the hands of the call that     *)
(* started it (a crash and a deleted conversation leave theirs behind).       *)
OrphanIsRemembered ==
  \A t \in Ids : threads[t] = "live" =>
     t \in Owned \cup intents \cup orphans \cup {callers[c].thread : c \in Callers}

(* A project has one main conversation, and work that was bound to it keeps   *)
(* it there: whoever sets it aside has found none. Only a task that was bound *)
(* after that look is left behind.                                           *)
BoundWorkStaysOnMain == /\ Cardinality(Mains) <= 1
                        /\ \A t \in Tasks \ late : tasks[t].status = "queued" => sessions[tasks[t].session].role = "main"

(* What the repository says: "Formal tasks always bind the durable winner",   *)
(* and a task is bound to the main conversation of its project. That does not *)
(* hold of two dispatches; no run is spent on it.                            *)
QueuedWorkIsOnMain == \A t \in Tasks : tasks[t].status = "queued" => sessions[tasks[t].session].role = "main"
=============================================================================

------------------------------ MODULE LabAgent ------------------------------
(***************************************************************************)
(* The assistant of the remix lab and the prompt library it drafts changes *)
(* for (internal/remixlab/agent.go, library.go, store.go, their handlers   *)
(* in internal/httpapi/remix_lab.go and the panel of RemixLabPage.tsx).    *)
(* Everything is a JSON file that is read whole and written back whole; no *)
(* lock orders two requests. A chat goes on when the page that asked has   *)
(* gone. The model's answers, the experiments and the workflow are outside.*)
(***************************************************************************)
EXTENDS Naturals, Sequences, FiniteSets, SequencesExt

CONSTANTS Callers, Builtin, Custom,      \* requests, prompts of the catalog, prompts of the operator
          TextOf,                        \* what the user says in each exchange
          MaxStoredAgentTurns, MaxRequestAgentTurns,
          MaxOps, MaxDrops               \* bounds of the instance

VARIABLES file,      \* library.json: the overlay of each prompt and the deleted prompts of the catalog
          active,    \* active.json: the prompt of the daily remix
          pending,   \* agent_pending.json: the drafts that can be confirmed
          last,      \* agent_last.json
          history,   \* agent_history.json
          chat,      \* the exchanges, each a request that outlives its page
          page,      \* the panel: the exchange it waits for, the drafts it shows, the last reset
          req,       \* the other requests
          done,      \* how often a draft has been executed
          ops, drops

vars == <<file, active, pending, last, history, chat, page, req, done, ops, drops>>
library == <<file, active>>
talk == <<pending, last, history, chat>>

Prompts == Builtin \cup Custom
Chats == DOMAIN TextOf
Kinds == {"upsert_prompt", "delete_prompt", "set_active_prompt", "start_experiment"}
Drafts == [chat : Chats, kind : Kinds \ {"start_experiment"}, prompt : Prompts]
          \cup [chat : Chats, kind : {"start_experiment"}, prompt : {"none"}]
NoChat == [at |-> "none", context |-> {}, drafts |-> {}, seen |-> <<>>]
NoDraft == [chat |-> 0, kind |-> "none", prompt |-> "none"]
NoReq == [op |-> "none", at |-> "none", prompt |-> "none", draft |-> NoDraft, seen |-> {}, file |-> <<>>]
NoActive == [id |-> "none", edit |-> 0]
NoLast == [chat |-> 0, reply |-> FALSE, drafts |-> {}]
Files == [edit : [Prompts -> 0..MaxOps], deleted : SUBSET Builtin]

\* ListLibrary: the catalog without the deleted prompts, and the operator's own.
ListLibrary(f) == {p \in Prompts : IF p \in Builtin THEN p \notin f.deleted ELSE f.edit[p] > 0}

TypeOK ==
    /\ file \in Files /\ active.id \in Prompts \cup {"none"} /\ active.edit \in 0..MaxOps
    /\ pending \subseteq Drafts /\ last.chat \in 0..Len(TextOf) /\ last.drafts \subseteq Drafts
    /\ history \in Seq(Chats \X {"user", "assistant"}) /\ Len(history) <= MaxStoredAgentTurns
    /\ \A k \in Chats : chat[k].at \in {"none", "asked", "remember", "read", "append", "answer", "end"}
    /\ page.wait \in 0..Len(TextOf) /\ page.shown \subseteq Drafts
    /\ \A c \in Callers : req[c].op \in Kinds \cup {"none"} /\ req[c].at \in {"none", "read", "write", "clear", "save"}

Init ==
    /\ file = [edit |-> [p \in Prompts |-> 0], deleted |-> {}] /\ active = NoActive
    /\ pending = {} /\ last = NoLast /\ history = <<>>
    /\ chat = [k \in Chats |-> NoChat]
    /\ page = [wait |-> 0, shown |-> {}, asked |-> 0, since |-> 0]
    /\ req = [c \in Callers |-> NoReq]
    /\ done = [d \in Drafts |-> 0] /\ ops = 0 /\ drops = 0

LastTurns(turns, n) == SubSeq(turns, IF Len(turns) > n THEN Len(turns) - n + 1 ELSE 1, Len(turns))

----------------------------------------------------------------------------
(* AgentChat: the context is read, the model answers, three files are written *)

\* historyMessages replays the last turns.
Context == {t[1] : t \in Range(LastTurns(history, MaxRequestAgentTurns))}

\* submitAgent: one exchange at a time from the page.
Ask ==
    /\ page.wait = 0 /\ page.asked < Len(TextOf)
    /\ LET k == page.asked + 1
       IN  /\ page' = [page EXCEPT !.wait = k, !.asked = k]
           /\ chat' = [chat EXCEPT ![k] = [NoChat EXCEPT !.at = "asked", !.context = Context]]
    /\ UNCHANGED <<library, pending, last, history, req, done, ops, drops>>

Fails(k) ==
    /\ chat[k].at = "asked"
    /\ last' = [chat |-> k, reply |-> FALSE, drafts |-> {}]
    /\ chat' = [chat EXCEPT ![k].at = "answer"]
    /\ UNCHANGED <<library, pending, history, page, req, done, ops, drops>>

\* An answer that is no JSON is kept as the reply and leaves the pending drafts alone.
RepliesPlainly(k) ==
    /\ chat[k].at = "asked"
    /\ chat' = [chat EXCEPT ![k].at = "remember"]
    /\ UNCHANGED <<library, pending, last, history, page, req, done, ops, drops>>

\* parseAgentReply keeps the complete drafts of a known type; they replace the pending ones.
Replies(k) ==
    /\ chat[k].at = "asked"
    /\ \E d \in {{}} \cup {{x} : x \in {y \in Drafts : y.chat = k}} :
          /\ pending' = d
          /\ chat' = [chat EXCEPT ![k].at = "remember", ![k].drafts = d]
    /\ UNCHANGED <<library, last, history, page, req, done, ops, drops>>

RememberLast(k) ==
    /\ chat[k].at = "remember"
    /\ last' = [chat |-> k, reply |-> TRUE, drafts |-> chat[k].drafts]
    /\ chat' = [chat EXCEPT ![k].at = "read"]
    /\ UNCHANGED <<library, pending, history, page, req, done, ops, drops>>

ReadHistory(k) ==
    /\ chat[k].at = "read"
    /\ chat' = [chat EXCEPT ![k].at = "append", ![k].seen = history]
    /\ UNCHANGED <<library, pending, last, history, page, req, done, ops, drops>>

\* Mutant: the oldest turns are cut one at a time.
ClippedByTurn(turns) ==
    IF Len(turns) > MaxStoredAgentTurns THEN LastTurns(turns, MaxStoredAgentTurns - 1) ELSE turns
\* Mutant: the conversation only grows.
Unclipped(turns) == turns
Clipped(turns) == LastTurns(turns, MaxStoredAgentTurns)

AppendHistory(k) ==
    /\ chat[k].at = "append"
    /\ history' = Clipped(chat[k].seen \o <<<<k, "user">>, <<k, "assistant">>>>)
    /\ chat' = [chat EXCEPT ![k].at = "answer", ![k].seen = <<>>]
    /\ UNCHANGED <<library, pending, last, page, req, done, ops, drops>>

\* The answer reaches the page, if it still waits for it.
Answer(k) ==
    /\ chat[k].at = "answer"
    /\ chat' = [chat EXCEPT ![k].at = "end"]
    /\ page' = IF page.wait = k THEN [page EXCEPT !.wait = 0, !.shown = @ \cup chat[k].drafts] ELSE page
    /\ UNCHANGED <<library, pending, last, history, req, done, ops, drops>>

\* A dropped connection: the page takes the last answer, when it is to the same words.
Drop ==
    /\ page.wait # 0 /\ drops < MaxDrops /\ drops' = drops + 1
    /\ LET mine == last.reply /\ TextOf[last.chat] = TextOf[page.wait]
       IN  page' = [page EXCEPT !.wait = 0, !.shown = IF mine THEN @ \cup last.drafts ELSE @]
    /\ UNCHANGED <<library, talk, req, done, ops>>

\* resetAgentChat: a new conversation.
ClearAgentHistory ==
    /\ page.wait = 0 /\ page.asked > page.since
    /\ history' = <<>> /\ last' = NoLast
    /\ page' = [page EXCEPT !.shown = {}, !.since = page.asked]
    /\ UNCHANGED <<library, pending, chat, req, done, ops, drops>>

----------------------------------------------------------------------------
(* Requests on the library, the operator's own and those of a confirmed draft *)

Free(c) == req[c] = NoReq /\ ops < MaxOps /\ ops' = ops + 1

Request(c, op, p) ==
    /\ Free(c) /\ op # "start_experiment"
    /\ op = "set_active_prompt" => p \in ListLibrary(file)
    /\ req' = [req EXCEPT ![c] = [NoReq EXCEPT !.op = op, !.at = "read", !.prompt = p]]
    /\ UNCHANGED <<library, talk, page, done, drops>>

\* SetActive with nothing clears the file.
RestoreDefault(c) ==
    /\ Free(c) /\ active' = NoActive
    /\ UNCHANGED <<file, talk, page, req, done, drops>>

\* Mutant: the draft is taken off before it is executed.
ConfirmAndTakeOff(c, d) ==
    /\ Free(c) /\ d \in page.shown /\ d \in pending
    /\ pending' = pending \ {d}
    /\ req' = [req EXCEPT ![c] = [NoReq EXCEPT !.op = d.kind, !.at = "read", !.prompt = d.prompt,
                                               !.draft = d, !.seen = pending]]
    /\ UNCHANGED <<library, last, history, chat, page, done, drops>>
\* ConfirmProposal loads the pending drafts; one that is not among them is not found.
Confirm(c, d) ==
    /\ Free(c) /\ d \in page.shown /\ d \in pending
    /\ req' = [req EXCEPT ![c] = [NoReq EXCEPT !.op = d.kind, !.at = "read", !.prompt = d.prompt,
                                               !.draft = d, !.seen = pending]]
    /\ UNCHANGED <<library, talk, page, done, drops>>

\* A draft that cannot be executed stays pending.
Refused(c) ==
    /\ req[c].at = "read" /\ req' = [req EXCEPT ![c] = NoReq]
    /\ req[c].op = "set_active_prompt" => req[c].prompt \notin ListLibrary(file)
    /\ req[c].op \notin {"upsert_prompt", "delete_prompt"}
    /\ UNCHANGED <<library, talk, page, done, ops, drops>>

Read(c) ==
    /\ req[c].at = "read" /\ req[c].op # "start_experiment"
    /\ req[c].op = "set_active_prompt" => req[c].prompt \in ListLibrary(file)
    /\ req' = [req EXCEPT ![c].at = "write", ![c].file = file]
    /\ UNCHANGED <<library, talk, page, done, ops, drops>>

After(c, at) == req' = [req EXCEPT ![c] = IF at = "save" /\ @.draft = NoDraft THEN NoReq ELSE [@ EXCEPT !.at = at]]
Executed(c) == done' = IF req[c].draft = NoDraft THEN done ELSE [done EXCEPT ![req[c].draft] = @ + 1]

\* UpsertPrompt: the prompt is no longer deleted and has a new overlay.
UpsertPrompt(c) ==
    /\ req[c].at = "write" /\ req[c].op = "upsert_prompt"
    /\ file' = [edit |-> [req[c].file.edit EXCEPT ![req[c].prompt] = ops],
                deleted |-> req[c].file.deleted \ {req[c].prompt}]
    /\ After(c, "save") /\ Executed(c)
    /\ UNCHANGED <<active, talk, page, ops, drops>>

\* Mutant: the prompt in use is left in use.
DeleteFromLibrary(c) ==
    /\ req[c].at = "write" /\ req[c].op = "delete_prompt"
    /\ file' = [edit |-> [req[c].file.edit EXCEPT ![req[c].prompt] = 0],
                deleted |-> req[c].file.deleted \cup ({req[c].prompt} \cap Builtin)]
    /\ After(c, "save") /\ Executed(c)
    /\ UNCHANGED <<active, talk, page, ops, drops>>
DeletePrompt(c) ==
    /\ req[c].at = "write" /\ req[c].op = "delete_prompt"
    /\ file' = [edit |-> [req[c].file.edit EXCEPT ![req[c].prompt] = 0],
                deleted |-> req[c].file.deleted \cup ({req[c].prompt} \cap Builtin)]
    /\ After(c, "clear") /\ Executed(c)
    /\ UNCHANGED <<active, talk, page, ops, drops>>

ClearDeleted(c) ==
    /\ req[c].at = "clear"
    /\ active' = IF active.id = req[c].prompt THEN NoActive ELSE active
    /\ After(c, "save")
    /\ UNCHANGED <<file, talk, page, done, ops, drops>>

\* AdoptPrompt stores a copy; an unedited prompt of the catalog's default needs none.
AdoptPrompt(c) ==
    /\ req[c].at = "write" /\ req[c].op = "set_active_prompt"
    /\ \E plain \in {TRUE, FALSE} :
          /\ plain => req[c].prompt \in Builtin /\ req[c].file.edit[req[c].prompt] = 0
          /\ active' = IF plain THEN NoActive ELSE [id |-> req[c].prompt, edit |-> req[c].file.edit[req[c].prompt]]
    /\ After(c, "save") /\ Executed(c)
    /\ UNCHANGED <<file, talk, page, ops, drops>>

\* The experiment or the workflow of the draft.
StartExperiment(c) ==
    /\ req[c].at = "read" /\ req[c].op = "start_experiment"
    /\ After(c, "save") /\ Executed(c)
    /\ UNCHANGED <<library, talk, page, ops, drops>>

\* The drafts that were loaded are written back without the executed one.
SavePending(c) ==
    /\ req[c].at = "save" /\ req' = [req EXCEPT ![c] = NoReq]
    /\ pending' = req[c].seen \ {req[c].draft}
    /\ page' = [page EXCEPT !.shown = @ \ {req[c].draft}]
    /\ UNCHANGED <<library, last, history, chat, done, ops, drops>>

Next ==
    \/ Ask \/ Drop \/ ClearAgentHistory
    \/ \E k \in Chats : \/ Fails(k) \/ RepliesPlainly(k) \/ Replies(k) \/ RememberLast(k)
                        \/ ReadHistory(k) \/ AppendHistory(k) \/ Answer(k)
    \/ \E c \in Callers : \/ RestoreDefault(c) \/ Refused(c) \/ Read(c) \/ UpsertPrompt(c) \/ DeletePrompt(c)
                          \/ ClearDeleted(c) \/ AdoptPrompt(c) \/ StartExperiment(c) \/ SavePending(c)
    \/ \E c \in Callers, op \in Kinds, p \in Prompts : Request(c, op, p)
    \/ \E c \in Callers, d \in page.shown : Confirm(c, d)

Spec == Init /\ [][Next]_vars

----------------------------------------------------------------------------
(* Properties *)

\* The daily remix never runs on a prompt that was deleted from the library.
DeletedIsNotActive ==
    active.id # "none" => \/ active.id \in ListLibrary(file)
                          \/ \E c \in Callers : req[c].at = "clear"

\* The stored conversation is a run of whole exchanges, each question with its own answer, also
\* when the oldest turns are cut and when an exchange was dropped, lost or overtaken.
HistoryIsExchanges ==
    /\ Len(history) % 2 = 0
    /\ \A i \in DOMAIN history : i % 2 = 1 => history[i][2] = "user" /\ history[i + 1] = <<history[i][1], "assistant">>

\* A draft stops being confirmable when it has been executed or an answer has replaced it, but for
\* an answer that came while the drafts before it were being confirmed: the write back loses it.
DropsDraftsForCause ==
    \A d \in pending \ pending' : \/ done[d] > 0
                                  \/ \E k \in Chats : chat[k].at = "asked" /\ chat'[k].at = "remember"
                                  \/ \E c \in Callers : req[c].at = "save" /\ d \notin req[c].seen
DraftLeavesWhenDone == [][DropsDraftsForCause]_vars

\* What the page says of a new conversation: no exchange of the old one is in its context.
NewConversationIsNew ==
    \A k \in Chats : k > page.since /\ chat[k].at # "none" => \A j \in chat[k].context : j > page.since

\* A draft is confirmed once: what it starts is not started twice.
ConfirmedOnce == \A d \in Drafts : done[d] <= 1

\* The answer a page recovers after a dropped connection is the answer to what it just asked.
RecoveredIsItsOwn ==
    [][page.wait # 0 /\ page'.wait = 0 => page'.shown \ page.shown \subseteq chat[page.wait].drafts]_vars
=============================================================================

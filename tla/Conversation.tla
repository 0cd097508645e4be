---------------------------- MODULE Conversation ----------------------------
(***************************************************************************)
(* Requests to one agent that share a conversation store: /chat with       *)
(* ConversationMemoryManager (core/memory_manager.py), and the thread,     *)
(* fork and human-in-the-loop routes of core/router_factory.py.            *)
(*                                                                         *)
(* pc[r] names the await a request's handler stands at; an action is the   *)
(* code up to the next one. Calls of the memory store run without giving   *)
(* up the event loop, those of the SQL store suspend and may fail.         *)
(***************************************************************************)
EXTENDS ThreadStore

CONSTANTS
  MaxMessages,     \* ConversationMemoryManager.max_messages
  Slack,           \* load_history reads this many messages more (50)
  SummarizeAfter,  \* ConversationMemoryManager.summarize_after
  Backends         \* the stores considered

ASSUME ConversationAssumption ==
  /\ MaxMessages \in Nat \ {0}
  /\ Slack \in Nat
  /\ SummarizeAfter \in Nat
  /\ Backends \subseteq {"memory", "sql"}

\* A request that chats stands for the turn it saves.
Request == Turn

VARIABLES
  pc,         \* where each request's handler stands
  thread,     \* the thread a request is about
  approval,   \* the suspended state a request decides on
  context,    \* state["messages"] of a chat before its own question
  decisions   \* history: how often each suspended state was resumed or rejected

requests == <<pc, thread, approval, context, decisions>>
vars == <<storage, requests>>

Nothing == [summarised |-> <<>>, recent |-> <<>>]

\* bug: save_turn waits for something else between its two messages.
bugYielding == {"idle", "run", "resume", "done", "save_assistant"}

\* Where a handler has given up the event loop whatever the store.
Yielding == {"idle", "run", "resume", "done"}

\* Awaits of a store call.
Calling ==
  {"lookup", "create", "load", "save_user", "save_assistant", "suspend",
   "approve_delete", "resuspend", "reject_delete", "clear_delete", "clear_create"}

CanRun(r) == store = "sql" \/ \A q \in Request \ {r} : pc[q] \in Yielding

At(r, place) == pc[r] = place /\ CanRun(r)

Begin(r, place, t, a) ==
  /\ At(r, "idle")
  /\ pc' = [pc EXCEPT ![r] = place]
  /\ thread' = [thread EXCEPT ![r] = t]
  /\ approval' = [approval EXCEPT ![r] = a]
  /\ UNCHANGED <<context, decisions>>

\* A handler that is done has no local variables left.
Goto(r, place) ==
  /\ pc' = [pc EXCEPT ![r] = place]
  /\ thread' = [thread EXCEPT ![r] = IF place = "done" THEN None ELSE @]
  /\ approval' = [approval EXCEPT ![r] = IF place = "done" THEN None ELSE @]

Step(r, from, to) ==
  /\ At(r, from)
  /\ Goto(r, to)
  /\ UNCHANGED <<context, decisions>>

Init ==
  /\ store \in Backends
  /\ StoreInit
  /\ pc = [r \in Request |-> "idle"]
  /\ thread = [r \in Request |-> None]
  /\ approval = [r \in Request |-> None]
  /\ context = [r \in Request |-> Nothing]
  /\ decisions = [a \in Approval |-> 0]

------------------------------------------------------------------------------
(* A chat: find or create the thread, load its history, run the agent,     *)
(* save the turn.                                                          *)

\* Without history (include_history false, or messages in the request) the
\* thread is neither looked up nor created.
Chat(r, t) ==
  /\ \E place \in {"lookup", "run"} : Begin(r, place, t, None)
  /\ UNCHANGED storage

Lookup(r) ==
  /\ Step(r, "lookup", IF Exists(thread[r]) THEN "load" ELSE "create")
  /\ UNCHANGED storage

\* A create the store refuses is logged, and the agent runs without history.
Create(r) ==
  \/ /\ CanCreate(thread[r])
     /\ CreateThread(thread[r])
     /\ Step(r, "create", "load")
  \/ /\ ~CanCreate(thread[r])
     /\ Step(r, "create", "run")
     /\ UNCHANGED storage

Last(s, n) == IF Len(s) <= n THEN s ELSE SubSeq(s, Len(s) - n + 1, Len(s))

\* bug: the window is the head of what was read.
bugWindow(read) ==
  [summarised |-> IF Len(read) > SummarizeAfter /\ SummarizeAfter > 0
                    THEN SubSeq(read, MaxMessages + 1, Len(read)) ELSE <<>>,
   recent |-> IF Len(read) <= MaxMessages THEN read ELSE SubSeq(read, 1, MaxMessages)]

\* The window of load_history over the messages it read; what is older is
\* summarised once there are more than summarize_after messages.
Window(read) ==
  [summarised |-> IF Len(read) > SummarizeAfter /\ SummarizeAfter > 0
                    THEN SubSeq(read, 1, Len(read) - MaxMessages) ELSE <<>>,
   recent |-> Last(read, MaxMessages)]

\* Waiting for the model to summarise is part of "run".
Load(r) ==
  /\ At(r, "load")
  /\ Goto(r, "run")
  /\ context' = [context EXCEPT
       ![r] = Window(GetMessages(thread[r], MaxMessages + Slack))]
  /\ UNCHANGED <<storage, decisions>>

\* The agent answers, raises, or asks for an approval.
Invoked(r) ==
  /\ At(r, "run")
  /\ \E place \in {"save_user", "done", "suspend"} : Goto(r, place)
  /\ context' = [context EXCEPT ![r] = Nothing]
  /\ UNCHANGED <<storage, decisions>>

\* save_turn swallows the refusal of a message.
SaveMessage(r, from, role, to) ==
  \/ /\ Exists(thread[r])
     /\ AddMessage(thread[r], [role |-> role, turn |-> r])
     /\ Step(r, from, to)
  \/ /\ ~Exists(thread[r])
     /\ Step(r, from, "done")
     /\ UNCHANGED storage

SaveUser(r) == SaveMessage(r, "save_user", "user", "save_assistant")

SaveAssistant(r) == SaveMessage(r, "save_assistant", "assistant", "done")

------------------------------------------------------------------------------
(* Human in the loop.                                                      *)

\* Approval ids are fresh.
Unused(a) == pending[a] = None /\ decisions[a] = 0 /\ a \notin expired
               /\ \A r \in Request : approval[r] # a

\* The handler's save of the state; the client is answered 202, or 500.
SuspendAt(r, place) ==
  \/ \E a \in Approval :
       /\ Unused(a)
       /\ CanSuspend(thread[r])
       /\ SaveSuspended(a, thread[r])
       /\ Step(r, place, "done")
  \/ /\ ~CanSuspend(thread[r])
     /\ Step(r, place, "done")
     /\ UNCHANGED storage

Suspend(r) == SuspendAt(r, "suspend")

\* What get_suspended_state finds decides between 404 and going on. The memory
\* store drops an expired state when it is asked for it. The thread is the one
\* in the URL; nothing compares it with the state's own.
Retrieve(r, a, t, next) ==
  \/ /\ Retrievable(a)
     /\ Begin(r, next, t, a)
     /\ UNCHANGED storage
  \/ /\ pending[a] # None
     /\ ~Retrievable(a)
     /\ DeleteSuspended(a)
     /\ Begin(r, "done", None, None)

Approve(r, a, t) == Retrieve(r, a, t, "approve_delete")

Reject(r, a, t) == Retrieve(r, a, t, "reject_delete")

Decide(r) == decisions' = [decisions EXCEPT ![approval[r]] = @ + 1]

\* bug: the state is deleted only when the resumed run has returned.
bugApproveDelete(r) ==
  /\ At(r, "approve_delete")
  /\ Goto(r, "resume")
  /\ Decide(r)
  /\ UNCHANGED <<storage, context>>

\* Whether there still was a state to delete is not looked at.
ApproveDelete(r) ==
  /\ At(r, "approve_delete")
  /\ DeleteSuspended(approval[r])
  /\ Goto(r, "resume")
  /\ Decide(r)
  /\ UNCHANGED context

\* The resumed run answers or raises, or suspends again. No turn is saved.
Resumed(r) ==
  /\ \E place \in {"done", "resuspend"} : Step(r, "resume", place)
  /\ UNCHANGED storage

Resuspend(r) == SuspendAt(r, "resuspend")

RejectDelete(r) ==
  /\ At(r, "reject_delete")
  /\ DeleteSuspended(approval[r])
  /\ Goto(r, "done")
  /\ Decide(r)
  /\ UNCHANGED context

------------------------------------------------------------------------------
(* The thread routes. Clearing the messages is a delete and a create.      *)

Clear(r, t) ==
  /\ Exists(t)
  /\ Begin(r, "clear_delete", t, None)
  /\ UNCHANGED storage

ClearDelete(r) ==
  /\ Step(r, "clear_delete", "clear_create")
  /\ DeleteThread(thread[r])

ClearCreate(r) ==
  /\ Step(r, "clear_create", "done")
  /\ IF CanCreate(thread[r]) THEN CreateThread(thread[r]) ELSE UNCHANGED storage

\* Routes that are one store call.
Quiet ==
  /\ store = "sql" \/ \A r \in Request : pc[r] \in Yielding
  /\ UNCHANGED requests

CreateRoute(t) == Quiet /\ CanCreate(t) /\ CreateThread(t)

UpdateRoute(t) == Quiet /\ Exists(t) /\ UpdateThread(t)

DeleteRoute(t) == Quiet /\ Exists(t) /\ DeleteThread(t)

ForkRoute(parent, t) ==
  /\ Quiet
  /\ Exists(parent)
  /\ CanCreate(t)
  /\ \E index \in 0..Len(messages[parent]) : ForkThread(parent, index, t)

ExpireState(a) == Quiet /\ Expire(a)

------------------------------------------------------------------------------
(* A call of the SQL store raises. Whatever concerns the history is logged *)
(* and skipped; otherwise the request ends.                                *)
StoreFails(r) ==
  /\ store = "sql"
  /\ pc[r] \in Calling
  /\ Goto(r, IF pc[r] \in {"lookup", "create", "load"} THEN "run" ELSE "done")
  /\ UNCHANGED <<storage, context, decisions>>

Handle(r) ==
  \/ Lookup(r) \/ Create(r) \/ Load(r) \/ Invoked(r)
  \/ SaveUser(r) \/ SaveAssistant(r)
  \/ Suspend(r) \/ ApproveDelete(r) \/ Resumed(r) \/ Resuspend(r)
  \/ RejectDelete(r) \/ ClearDelete(r) \/ ClearCreate(r) \/ StoreFails(r)

Next ==
  \/ \E r \in Request :
       \/ Handle(r)
       \/ \E t \in Thread : Chat(r, t) \/ Clear(r, t)
       \/ \E t \in Thread, a \in Approval : Approve(r, a, t) \/ Reject(r, a, t)
  \/ \E t \in Thread :
       \/ CreateRoute(t) \/ UpdateRoute(t) \/ DeleteRoute(t)
       \/ \E parent \in Thread : ForkRoute(parent, t)
  \/ \E a \in Approval : ExpireState(a)

Spec == Init /\ [][Next]_vars

------------------------------------------------------------------------------
(* Properties.                                                             *)

TypeOK ==
  /\ store \in Backends
  /\ recency \in Seq(Thread)
  /\ messages \in [Thread -> Seq(Message)]
  /\ pending \in [Approval -> Thread \cup {None}]
  /\ expired \subseteq Approval
  /\ pc \in [Request -> Yielding \cup Calling]
  /\ thread \in [Request -> Thread \cup {None}]
  /\ approval \in [Request -> Approval \cup {None}]
  /\ decisions \in [Approval -> Nat]

InTurns(history) ==
  \A i \in DOMAIN history :
    history[i].role = "assistant" =>
      /\ i > 1
      /\ history[i - 1] = [role |-> "user", turn |-> history[i].turn]

\* With the memory store an answer stands directly after its own question,
\* whatever else creates, evicts, clears and forks threads while turns are
\* under way (save_turn makes two calls).
HistoryIsTurns == store = "memory" => \A t \in Thread : InTurns(messages[t])

\* A suspended state that was resumed or rejected is gone; with the memory
\* store it is resumed or rejected at most once however many people decide on
\* it (approve and reject read, then delete).
DecidedOnce ==
  \A a \in Approval :
    /\ decisions[a] > 0 => pending[a] = None
    /\ store = "memory" => decisions[a] <= 1

\* Creating a thread brings the memory store back to max_threads, also after
\* forks have exceeded it; the new thread stays, and nothing that stays was
\* updated before something that goes (_evict_overflow).
CreateEvictsOldest ==
  [][store = "memory" =>
       \A t \in Thread :
         \/ \E r \in Request : pc[r] \in {"create", "clear_create"} /\ pc'[r] # pc[r]
                                 /\ thread[r] = t
         \/ CreateRoute(t)
         =>
         /\ Len(recency') <= MaxThreads
         /\ t \in Members(recency')
         /\ \A i, j \in DOMAIN recency :
              i < j /\ recency[j] \notin Members(recency')
                => recency[i] \notin Members(recency') \ {t}]_vars

\* The agent is given the latest max_messages messages, and what is older in a
\* summary.
ContextIs(r, history) ==
  /\ context'[r].recent = Last(history, MaxMessages)
  /\ Len(history) > MaxMessages /\ Len(history) > SummarizeAfter /\ SummarizeAfter > 0 =>
       context'[r].summarised \o context'[r].recent = history

\* The agent sees the latest messages of its thread, as long as the thread is
\* no longer than what load_history reads.
ShortThreadIsSeen ==
  [][\A r \in Request :
       Load(r) /\ Len(messages[thread[r]]) <= MaxMessages + Slack
         => ContextIs(r, messages[thread[r]])]_vars

\* The same for every thread: "keeps only the latest max_messages in context".
LatestMessagesAreSeen ==
  [][\A r \in Request : Load(r) => ContextIs(r, messages[thread[r]])]_vars
==============================================================================

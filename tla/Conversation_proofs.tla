------------------------- MODULE Conversation_proofs -------------------------
(***************************************************************************)
(* Theorems about Conversation for every set of threads, approvals and     *)
(* requests, every window and cap, and both stores.                        *)
(***************************************************************************)
EXTENDS Conversation, SequenceTheorems, TLAPS

(* A handler under way knows its thread, one that decides its approval.    *)
PlaceInv ==
  \A r \in Request :
    /\ pc[r] \notin {"idle", "done"} => thread[r] \in Thread
    /\ pc[r] \in {"approve_delete", "reject_delete"} => approval[r] \in Approval

TypeInv == TypeOK /\ PlaceInv

(* With the memory store at most one handler stands at a store call.       *)
OneCaller ==
  store = "memory" =>
    \A q, r \in Request : q # r => pc[q] \in Yielding \/ pc[r] \in Yielding

(* A decision under way is about a state nobody has decided on.            *)
DecidingInv ==
  store = "memory" =>
    \A r \in Request : pc[r] \in {"approve_delete", "reject_delete"} =>
      decisions[approval[r]] = 0

(* Between its two messages a handler's question is the last message.      *)
HalfTurnInv ==
  store = "memory" =>
    \A r \in Request : pc[r] = "save_assistant" =>
      /\ Len(messages[thread[r]]) > 0
      /\ messages[thread[r]][Len(messages[thread[r]])] = [role |-> "user", turn |-> r]

(* Removing a thread from the list leaves a list of threads.               *)
LEMMA OthersType ==
  ASSUME TypeOK, NEW t
  PROVE  Others(t) \in Seq(Thread)
<1> DEFINE at == CHOOSE i \in DOMAIN recency : recency[i] = t
<1>1. CASE Exists(t)
  <2>1. at \in 1..Len(recency)
    BY <1>1 DEF TypeOK, Exists, Members
  <2> HIDE DEF at
  <2>2. at \in Int /\ Len(recency) \in Nat /\ \A i \in 1..Len(recency) : recency[i] \in Thread
    BY <2>1 DEF TypeOK
  <2>3. SubSeq(recency, 1, at - 1) \in Seq(Thread)
    <3>1. \A i \in 1..(at - 1) : recency[i] \in Thread
      BY <2>1, <2>2
    <3> QED
      BY <2>2, <3>1, SubSeqProperties DEF TypeOK
  <2>4. SubSeq(recency, at + 1, Len(recency)) \in Seq(Thread)
    <3>1. \A i \in (at + 1)..Len(recency) : recency[i] \in Thread
      BY <2>1, <2>2
    <3> QED
      BY <2>2, <3>1, SubSeqProperties DEF TypeOK
  <2> QED
    BY <1>1, <2>3, <2>4 DEF Others, at
<1>2. CASE ~Exists(t)
  BY <1>2 DEF Others, TypeOK
<1> QED
  BY <1>1, <1>2

(* So does evicting the overflow.                                          *)
LEMMA EvictType ==
  ASSUME NEW s \in Seq(Thread)
  PROVE  EvictOverflow(s) \in Seq(Thread)
<1>1. CASE Len(s) > MaxThreads
  <2>1. Len(s) \in Nat /\ MaxThreads \in Nat /\ Len(s) - MaxThreads + 1 \in Int
    BY ThreadStoreAssumption
  <2>2. \A i \in (Len(s) - MaxThreads + 1)..Len(s) : s[i] \in Thread
    BY <1>1, <2>1
  <2>3. SubSeq(s, Len(s) - MaxThreads + 1, Len(s)) \in Seq(Thread)
    BY <2>1, <2>2, SubSeqProperties
  <2> QED
    BY <2>3 DEF EvictOverflow
<1>2. CASE ~(Len(s) > MaxThreads)
  BY <1>2 DEF EvictOverflow
<1> QED
  BY <1>1, <1>2

(* A prefix of a thread's messages is a sequence of messages.              *)
LEMMA PrefixType ==
  ASSUME NEW S, NEW s \in Seq(S), NEW n \in 0..Len(s)
  PROVE  /\ SubSeq(s, 1, n) \in Seq(S)
         /\ Len(SubSeq(s, 1, n)) = n
         /\ \A i \in 1..n : SubSeq(s, 1, n)[i] = s[i]
<1>1. \A i \in 1..n : s[i] \in S
  OBVIOUS
<1>2. n \in Int /\ Len(s) \in Nat
  OBVIOUS
<1> QED
  BY <1>1, <1>2, SubSeqProperties

(* What a store call leaves of the store's types.                          *)
StoreTypeOK ==
  /\ store \in Backends
  /\ recency \in Seq(Thread)
  /\ messages \in [Thread -> Seq(Message)]
  /\ pending \in [Approval -> Thread \cup {None}]
  /\ expired \subseteq Approval

LEMMA CreateType ==
  ASSUME TypeOK, NEW t \in Thread, CreateThread(t)
  PROVE  StoreTypeOK'
<1>1. recency' \in Seq(Thread)
  BY OthersType, EvictType, AppendProperties DEF CreateThread, Touched
<1>2. messages' \in [Thread -> Seq(Message)]
  BY DEF TypeOK, CreateThread, Forget
<1>3. pending' \in [Approval -> Thread \cup {None}]
  BY DEF TypeOK, CreateThread, Forget
<1> QED
  BY <1>1, <1>2, <1>3 DEF StoreTypeOK, CreateThread, TypeOK

LEMMA DeleteType ==
  ASSUME TypeOK, NEW t, DeleteThread(t)
  PROVE  StoreTypeOK'
<1>1. recency' \in Seq(Thread)
  BY OthersType DEF DeleteThread
<1>2. messages' \in [Thread -> Seq(Message)]
  BY DEF TypeOK, DeleteThread, Forget
<1>3. pending' \in [Approval -> Thread \cup {None}]
  BY DEF TypeOK, DeleteThread, Forget
<1> QED
  BY <1>1, <1>2, <1>3 DEF StoreTypeOK, DeleteThread, TypeOK

LEMMA UpdateType ==
  ASSUME TypeOK, NEW t \in Thread, UpdateThread(t)
  PROVE  StoreTypeOK'
BY OthersType, AppendProperties DEF UpdateThread, Touched, TypeOK, StoreTypeOK

LEMMA ForkType ==
  ASSUME TypeOK, NEW parent \in Thread, NEW t \in Thread,
         NEW index \in 0..Len(messages[parent]), ForkThread(parent, index, t)
  PROVE  StoreTypeOK'
<1>1. SubSeq(messages[parent], 1, index) \in Seq(Message)
  BY PrefixType DEF TypeOK
<1> QED
  BY <1>1, OthersType, AppendProperties DEF ForkThread, Touched, TypeOK, StoreTypeOK

LEMMA AddType ==
  ASSUME TypeOK, NEW t \in Thread, NEW message \in Message, AddMessage(t, message)
  PROVE  StoreTypeOK'
<1>1. messages' \in [Thread -> Seq(Message)]
  BY AppendProperties DEF AddMessage, TypeOK
<1> QED
  BY <1>1, OthersType, AppendProperties DEF AddMessage, Touched, TypeOK, StoreTypeOK

(* Going on, or beginning, keeps the types of the handlers.                *)
RequestTypeOK ==
  /\ pc \in [Request -> Yielding \cup Calling]
  /\ thread \in [Request -> Thread \cup {None}]
  /\ approval \in [Request -> Approval \cup {None}]

LEMMA GotoType ==
  ASSUME TypeInv, NEW r \in Request, NEW place \in Yielding \cup Calling, Goto(r, place),
         place = "done" \/ pc[r] \notin {"idle", "done"},
         place \notin {"approve_delete", "reject_delete"}
  PROVE  RequestTypeOK' /\ PlaceInv'
BY DEF TypeInv, TypeOK, PlaceInv, Goto, RequestTypeOK

LEMMA BeginType ==
  ASSUME TypeInv, NEW r \in Request, NEW place \in Yielding \cup Calling,
         NEW t \in Thread \cup {None}, NEW a \in Approval \cup {None},
         Begin(r, place, t, a),
         t \in Thread \/ place = "done",
         a \in Approval \/ place \notin {"approve_delete", "reject_delete"}
  PROVE  RequestTypeOK' /\ PlaceInv'
BY DEF TypeInv, TypeOK, PlaceInv, Begin, RequestTypeOK

(* Every step keeps the types.                                             *)
LEMMA TypeStep ==
  ASSUME TypeInv, [Next]_vars
  PROVE  TypeInv'
<1> USE DEF Yielding, Calling
<1>1. ASSUME NEW r \in Request, Lookup(r) \/ Load(r) \/ Invoked(r) \/ Resumed(r) \/ StoreFails(r)
      PROVE  TypeInv'
  <2>1. PICK place \in (Yielding \cup Calling) \ {"approve_delete", "reject_delete"} :
          Goto(r, place) /\ (place = "done" \/ pc[r] \notin {"idle", "done"})
    BY <1>1 DEF Lookup, Load, Invoked, Resumed, StoreFails, Step, At
  <2>2. RequestTypeOK' /\ PlaceInv'
    BY <2>1, GotoType
  <2>3. UNCHANGED <<storage, decisions>>
    BY <1>1 DEF Lookup, Load, Invoked, Resumed, StoreFails, Step
  <2> QED
    BY <2>2, <2>3 DEF TypeInv, TypeOK, RequestTypeOK, storage
<1>2. ASSUME NEW r \in Request, Create(r)
      PROVE  TypeInv'
  <2>1. thread[r] \in Thread /\ pc[r] = "create"
    BY <1>2 DEF Create, Step, At, TypeInv, PlaceInv
  <2>2. RequestTypeOK' /\ PlaceInv' /\ UNCHANGED decisions
    BY <1>2, <2>1, GotoType DEF Create, Step
  <2>3. StoreTypeOK'
    BY <1>2, <2>1, CreateType DEF Create, TypeInv, TypeOK, StoreTypeOK, storage
  <2> QED
    BY <2>2, <2>3 DEF TypeInv, TypeOK, RequestTypeOK, StoreTypeOK
<1>3. ASSUME NEW r \in Request, SaveUser(r) \/ SaveAssistant(r)
      PROVE  TypeInv'
  <2>1. PICK place \in {"save_assistant", "done"} :
          Goto(r, place) /\ pc[r] \in {"save_user", "save_assistant"} /\ UNCHANGED decisions
    BY <1>3 DEF SaveUser, SaveAssistant, SaveMessage, Step, At
  <2>2. RequestTypeOK' /\ PlaceInv'
    BY <2>1, GotoType
  <2>3. thread[r] \in Thread
    BY <2>1 DEF TypeInv, PlaceInv
  <2>4. \A role \in {"user", "assistant"} : [role |-> role, turn |-> r] \in Message
    BY DEF Message, Request
  <2>5. StoreTypeOK'
    <3>1. CASE UNCHANGED storage
      BY <3>1 DEF TypeInv, TypeOK, StoreTypeOK, storage
    <3>2. CASE \E role \in {"user", "assistant"} :
                 AddMessage(thread[r], [role |-> role, turn |-> r])
      BY <3>2, <2>3, <2>4, AddType DEF TypeInv
    <3> QED
      BY <1>3, <3>1, <3>2 DEF SaveUser, SaveAssistant, SaveMessage
  <2> QED
    BY <2>1, <2>2, <2>5 DEF TypeInv, TypeOK, RequestTypeOK, StoreTypeOK
<1>4. ASSUME NEW r \in Request, Suspend(r) \/ Resuspend(r)
      PROVE  TypeInv'
  <2>1. Goto(r, "done") /\ UNCHANGED decisions
    BY <1>4 DEF Suspend, Resuspend, SuspendAt, Step
  <2>2. RequestTypeOK' /\ PlaceInv'
    BY <2>1, GotoType
  <2>3. StoreTypeOK'
    BY <1>4 DEF Suspend, Resuspend, SuspendAt, SaveSuspended, TypeInv, TypeOK, StoreTypeOK, storage
  <2> QED
    BY <2>1, <2>2, <2>3 DEF TypeInv, TypeOK, RequestTypeOK, StoreTypeOK
<1>5. ASSUME NEW r \in Request, ApproveDelete(r) \/ RejectDelete(r)
      PROVE  TypeInv'
  <2>1. PICK place \in {"resume", "done"} :
          Goto(r, place) /\ pc[r] \in {"approve_delete", "reject_delete"}
    BY <1>5 DEF ApproveDelete, RejectDelete, At
  <2>2. RequestTypeOK' /\ PlaceInv'
    BY <2>1, GotoType
  <2>3. DeleteSuspended(approval[r]) /\ Decide(r)
    BY <1>5 DEF ApproveDelete, RejectDelete
  <2>4. approval[r] \in Approval
    BY <2>1 DEF TypeInv, PlaceInv
  <2>5. StoreTypeOK'
    BY <2>3, <2>4 DEF DeleteSuspended, TypeInv, TypeOK, StoreTypeOK
  <2>6. decisions' \in [Approval -> Nat]
    BY <2>3, <2>4 DEF Decide, TypeInv, TypeOK
  <2> QED
    BY <2>2, <2>5, <2>6 DEF TypeInv, TypeOK, RequestTypeOK, StoreTypeOK
<1>6. ASSUME NEW r \in Request, ClearDelete(r) \/ ClearCreate(r)
      PROVE  TypeInv'
  <2>1. PICK place \in {"clear_create", "done"} :
          Goto(r, place) /\ pc[r] \in {"clear_delete", "clear_create"} /\ UNCHANGED decisions
    BY <1>6 DEF ClearDelete, ClearCreate, Step, At
  <2>2. RequestTypeOK' /\ PlaceInv'
    BY <2>1, GotoType
  <2>3. thread[r] \in Thread
    BY <2>1 DEF TypeInv, PlaceInv
  <2>4. StoreTypeOK'
    <3>1. CASE UNCHANGED storage
      BY <3>1 DEF TypeInv, TypeOK, StoreTypeOK, storage
    <3>2. CASE DeleteThread(thread[r])
      BY <3>2, DeleteType DEF TypeInv
    <3>3. CASE CreateThread(thread[r])
      BY <3>3, <2>3, CreateType DEF TypeInv
    <3> QED
      BY <1>6, <3>1, <3>2, <3>3 DEF ClearDelete, ClearCreate
  <2> QED
    BY <2>1, <2>2, <2>4 DEF TypeInv, TypeOK, RequestTypeOK, StoreTypeOK
<1>7. ASSUME NEW r \in Request, NEW t \in Thread, Chat(r, t) \/ Clear(r, t)
      PROVE  TypeInv'
  <2>1. PICK place \in {"lookup", "run", "clear_delete"} : Begin(r, place, t, None)
    BY <1>7 DEF Chat, Clear
  <2>2. RequestTypeOK' /\ PlaceInv' /\ UNCHANGED decisions
    BY <2>1, BeginType DEF Begin
  <2>3. UNCHANGED storage
    BY <1>7 DEF Chat, Clear
  <2> QED
    BY <2>2, <2>3 DEF TypeInv, TypeOK, RequestTypeOK, storage
<1>8. ASSUME NEW r \in Request, NEW t \in Thread, NEW a \in Approval,
             Approve(r, a, t) \/ Reject(r, a, t)
      PROVE  TypeInv'
  <2>1. CASE \E place \in {"approve_delete", "reject_delete"} : Begin(r, place, t, a)
               /\ UNCHANGED storage
    <3>1. RequestTypeOK' /\ PlaceInv' /\ UNCHANGED decisions
      BY <2>1, BeginType DEF Begin
    <3> QED
      BY <2>1, <3>1 DEF TypeInv, TypeOK, RequestTypeOK, storage
  <2>2. CASE Begin(r, "done", None, None) /\ DeleteSuspended(a)
    <3>1. RequestTypeOK' /\ PlaceInv' /\ UNCHANGED decisions
      BY <2>2, BeginType DEF Begin
    <3>2. StoreTypeOK'
      BY <2>2 DEF DeleteSuspended, TypeInv, TypeOK, StoreTypeOK
    <3> QED
      BY <3>1, <3>2 DEF TypeInv, TypeOK, RequestTypeOK, StoreTypeOK
  <2> QED
    BY <1>8, <2>1, <2>2 DEF Approve, Reject, Retrieve
<1>9. ASSUME NEW t \in Thread,
             \/ CreateRoute(t) \/ UpdateRoute(t) \/ DeleteRoute(t)
             \/ \E parent \in Thread : ForkRoute(parent, t)
      PROVE  TypeInv'
  <2>1. StoreTypeOK'
    BY <1>9, CreateType, UpdateType, DeleteType, ForkType
       DEF CreateRoute, UpdateRoute, DeleteRoute, ForkRoute, TypeInv
  <2>2. UNCHANGED requests
    BY <1>9 DEF CreateRoute, UpdateRoute, DeleteRoute, ForkRoute, Quiet
  <2> QED
    BY <2>1, <2>2 DEF requests, TypeInv, PlaceInv, TypeOK, StoreTypeOK
<1>10. ASSUME NEW a \in Approval, ExpireState(a)
       PROVE  TypeInv'
  BY <1>10 DEF ExpireState, Quiet, Expire, requests, TypeInv, PlaceInv, TypeOK
<1>11. CASE UNCHANGED vars
  BY <1>11 DEF vars, requests, storage, TypeInv, PlaceInv, TypeOK
<1> QED
  BY <1>1, <1>2, <1>3, <1>4, <1>5, <1>6, <1>7, <1>8, <1>9, <1>10, <1>11 DEF Next, Handle

LEMMA TypeInit ==
  ASSUME Init
  PROVE  TypeInv
BY DEF Init, StoreInit, TypeInv, TypeOK, PlaceInv, Yielding, Calling, Message

(* Every variable keeps its type: nothing that is created, evicted, forked *)
(* or cleared leaves a list, a history or a handler ill-formed             *)
(* (storage/memory.py, core/router_factory.py).                            *)
THEOREM TypeCorrect == Spec => []TypeOK
<1>1. TypeInv => TypeOK
  BY DEF TypeInv
<1> QED
  BY <1>1, TypeInit, TypeStep, PTL DEF Spec

------------------------------------------------------------------------------
(* One caller at a time.                                                   *)

(* A step moves one handler that may run, or none.                         *)
LEMMA StepShape ==
  ASSUME TypeInv, [Next]_vars
  PROVE  /\ store' = store
         /\ \/ pc' = pc
            \/ \E r \in Request, place \in Yielding \cup Calling :
                 pc' = [pc EXCEPT ![r] = place] /\ CanRun(r)
<1> USE DEF Yielding, Calling
<1>1. ASSUME NEW r \in Request, Handle(r)
      PROVE  /\ store' = store /\ CanRun(r)
             /\ \E place \in Yielding \cup Calling : pc' = [pc EXCEPT ![r] = place]
  <2>1. store' = store
    BY <1>1 DEF Handle, Lookup, Create, Load, Invoked, SaveUser, SaveAssistant, SaveMessage,
         Suspend, Resuspend, SuspendAt, ApproveDelete, Resumed, RejectDelete, ClearDelete,
         ClearCreate, StoreFails, storage, CreateThread, DeleteThread, AddMessage,
         SaveSuspended, DeleteSuspended
  <2>2. CanRun(r)
    BY <1>1 DEF Handle, Lookup, Create, Load, Invoked, SaveUser, SaveAssistant, SaveMessage,
         Suspend, Resuspend, SuspendAt, ApproveDelete, Resumed, RejectDelete, ClearDelete,
         ClearCreate, StoreFails, Step, At, CanRun
  <2>3. \E place \in Yielding \cup Calling : pc' = [pc EXCEPT ![r] = place]
    BY <1>1 DEF Handle, Lookup, Create, Load, Invoked, SaveUser, SaveAssistant, SaveMessage,
         Suspend, Resuspend, SuspendAt, ApproveDelete, Resumed, RejectDelete, ClearDelete,
         ClearCreate, StoreFails, Step, Goto
  <2> QED
    BY <2>1, <2>2, <2>3
<1>2. ASSUME NEW r \in Request, NEW t \in Thread, NEW a \in Approval,
             Chat(r, t) \/ Clear(r, t) \/ Approve(r, a, t) \/ Reject(r, a, t)
      PROVE  /\ store' = store /\ CanRun(r)
             /\ \E place \in Yielding \cup Calling : pc' = [pc EXCEPT ![r] = place]
  BY <1>2 DEF Chat, Clear, Approve, Reject, Retrieve, Begin, At, storage, DeleteSuspended
<1>3. ASSUME NEW r \in Request, NEW t \in Thread, Chat(r, t) \/ Clear(r, t)
      PROVE  /\ store' = store /\ CanRun(r)
             /\ \E place \in Yielding \cup Calling : pc' = [pc EXCEPT ![r] = place]
  BY <1>3 DEF Chat, Clear, Begin, At, storage
<1>4. ASSUME NEW t \in Thread,
             \/ CreateRoute(t) \/ UpdateRoute(t) \/ DeleteRoute(t)
             \/ \E parent \in Thread : ForkRoute(parent, t)
      PROVE  store' = store /\ pc' = pc
  BY <1>4 DEF CreateRoute, UpdateRoute, DeleteRoute, ForkRoute, Quiet, requests,
       CreateThread, UpdateThread, DeleteThread, ForkThread
<1>5. ASSUME NEW a \in Approval, ExpireState(a)
      PROVE  store' = store /\ pc' = pc
  BY <1>5 DEF ExpireState, Expire, Quiet, requests
<1>6. CASE UNCHANGED vars
  BY <1>6 DEF vars, storage, requests
<1> QED
  BY <1>1, <1>2, <1>3, <1>4, <1>5, <1>6 DEF Next

LEMMA OneCallerStep ==
  ASSUME TypeInv, OneCaller, [Next]_vars
  PROVE  OneCaller'
BY StepShape DEF OneCaller, CanRun, TypeInv, TypeOK

(* In the memory store nobody else stands at a store call when r moves.    *)
LEMMA Alone ==
  ASSUME store = "memory", NEW r \in Request, CanRun(r), NEW q \in Request, q # r
  PROVE  pc[q] \in {"idle", "run", "resume", "done"}
BY DEF CanRun, Yielding

------------------------------------------------------------------------------
(* Decisions.                                                              *)

DecisionInv == OneCaller /\ DecidingInv /\ DecidedOnce

(* A step that decides nothing and suspends nothing new.                   *)
LEMMA UndecidedStep ==
  ASSUME TypeInv, DecisionInv, store' = store, OneCaller',
         decisions' = decisions,
         \A a \in Approval : pending'[a] \in {pending[a], None},
         \A r \in Request : pc'[r] \in {"approve_delete", "reject_delete"} =>
           pc'[r] = pc[r] /\ approval'[r] = approval[r]
  PROVE  DecisionInv'
BY DEF DecisionInv, DecidingInv, DecidedOnce

LEMMA DecisionStep ==
  ASSUME TypeInv, DecisionInv, [Next]_vars
  PROVE  DecisionInv'
<1>1. store' = store /\ OneCaller'
  BY StepShape, OneCallerStep DEF DecisionInv
<1>2. ASSUME NEW r \in Request, ApproveDelete(r) \/ RejectDelete(r)
      PROVE  DecisionInv'
  <2>1. /\ pc[r] \in {"approve_delete", "reject_delete"} /\ CanRun(r)
        /\ approval[r] \in Approval
        /\ DeleteSuspended(approval[r]) /\ Decide(r)
    BY <1>2 DEF ApproveDelete, RejectDelete, At, TypeInv, PlaceInv
  <2>2. PICK place \in {"resume", "done"} : Goto(r, place)
    BY <1>2 DEF ApproveDelete, RejectDelete
  <2>3. DecidedOnce'
    BY <1>1, <2>1 DEF DecisionInv, DecidedOnce, DecidingInv, DeleteSuspended, Decide, TypeInv, TypeOK
  <2>4. DecidingInv'
    BY <1>1, <2>1, <2>2, Alone DEF DecidingInv, Goto, TypeInv, TypeOK
  <2> QED
    BY <1>1, <2>3, <2>4 DEF DecisionInv
<1>3. ASSUME NEW r \in Request, NEW t \in Thread, NEW a \in Approval,
             Approve(r, a, t) \/ Reject(r, a, t)
      PROVE  DecisionInv'
  <2>1. CASE Retrievable(a) /\ UNCHANGED storage
               /\ \E place \in {"approve_delete", "reject_delete"} : Begin(r, place, t, a)
    <3>1. decisions[a] = 0
      BY <2>1 DEF Retrievable, DecisionInv, DecidedOnce, TypeInv, TypeOK
    <3>2. DecidingInv'
      BY <1>1, <2>1, <3>1, Alone DEF DecidingInv, DecisionInv, Begin, At, TypeInv, TypeOK
    <3>3. DecidedOnce'
      BY <2>1 DEF DecidedOnce, DecisionInv, Begin, storage
    <3> QED
      BY <1>1, <3>2, <3>3 DEF DecisionInv
  <2>2. CASE Begin(r, "done", None, None) /\ DeleteSuspended(a)
    BY <1>1, <2>2, UndecidedStep DEF Begin, DeleteSuspended, TypeInv, TypeOK
  <2> QED
    BY <1>3, <2>1, <2>2 DEF Approve, Reject, Retrieve
<1>4. ASSUME NEW r \in Request, Suspend(r) \/ Resuspend(r)
      PROVE  DecisionInv'
  <2>1. CASE UNCHANGED storage
    BY <1>1, <1>4, <2>1, UndecidedStep
       DEF Suspend, Resuspend, SuspendAt, Step, Goto, storage, TypeInv, TypeOK
  <2>2. CASE \E a \in Approval : Unused(a) /\ SaveSuspended(a, thread[r])
    <3>1. decisions' = decisions /\ Goto(r, "done")
      BY <1>4 DEF Suspend, Resuspend, SuspendAt, Step
    <3>2. DecidedOnce'
      BY <1>1, <2>2, <3>1 DEF Unused, SaveSuspended, DecisionInv, DecidedOnce, TypeInv, TypeOK
    <3>3. DecidingInv'
      BY <1>1, <3>1 DEF DecisionInv, DecidingInv, Goto, TypeInv, TypeOK
    <3> QED
      BY <1>1, <3>2, <3>3 DEF DecisionInv
  <2> QED
    BY <1>4, <2>1, <2>2 DEF Suspend, Resuspend, SuspendAt
<1>5. ASSUME NEW r \in Request,
             \/ Lookup(r) \/ Create(r) \/ Load(r) \/ Invoked(r) \/ SaveUser(r) \/ SaveAssistant(r)
             \/ Resumed(r) \/ ClearDelete(r) \/ ClearCreate(r) \/ StoreFails(r)
      PROVE  DecisionInv'
  <2>1. decisions' = decisions
    BY <1>5 DEF Lookup, Create, Load, Invoked, SaveUser, SaveAssistant, SaveMessage, Resumed,
         ClearDelete, ClearCreate, StoreFails, Step
  <2>2. \A a \in Approval : pending'[a] \in {pending[a], None}
    BY <1>5 DEF Lookup, Create, Load, Invoked, SaveUser, SaveAssistant, SaveMessage, Resumed,
         ClearDelete, ClearCreate, StoreFails, storage, CreateThread, DeleteThread, Forget,
         AddMessage
  <2>3. \E place \in (Yielding \cup Calling) \ {"approve_delete", "reject_delete"} :
          Goto(r, place)
    BY <1>5 DEF Lookup, Create, Load, Invoked, SaveUser, SaveAssistant, SaveMessage, Resumed,
         ClearDelete, ClearCreate, StoreFails, Step, Yielding, Calling
  <2> QED
    BY <1>1, <2>1, <2>2, <2>3, UndecidedStep DEF Goto, TypeInv, TypeOK
<1>6. ASSUME NEW r \in Request, NEW t \in Thread, Chat(r, t) \/ Clear(r, t)
      PROVE  DecisionInv'
  BY <1>1, <1>6, UndecidedStep DEF Chat, Clear, Begin, storage, TypeInv, TypeOK
<1>7. ASSUME NEW t \in Thread,
             \/ CreateRoute(t) \/ UpdateRoute(t) \/ DeleteRoute(t)
             \/ \E parent \in Thread : ForkRoute(parent, t)
      PROVE  DecisionInv'
  <2>1. UNCHANGED requests
    BY <1>7 DEF CreateRoute, UpdateRoute, DeleteRoute, ForkRoute, Quiet
  <2>2. \A a \in Approval : pending'[a] \in {pending[a], None}
    BY <1>7 DEF CreateRoute, UpdateRoute, DeleteRoute, ForkRoute, CreateThread, UpdateThread,
         DeleteThread, ForkThread, Forget
  <2> QED
    BY <1>1, <2>1, <2>2, UndecidedStep DEF requests
<1>8. ASSUME NEW a \in Approval, ExpireState(a)
      PROVE  DecisionInv'
  BY <1>1, <1>8, UndecidedStep DEF ExpireState, Expire, Quiet, requests
<1>9. CASE UNCHANGED vars
  BY <1>1, <1>9, UndecidedStep DEF vars, storage, requests
<1> QED
  BY <1>2, <1>3, <1>4, <1>5, <1>6, <1>7, <1>8, <1>9 DEF Next, Handle

(* A state that was resumed or rejected is gone, and with the memory store *)
(* no two of any number of approvals and rejections act on the same state, *)
(* whatever chats, forks and evictions happen around them                  *)
(* (approve_suspended_state, reject_suspended_state).                      *)
THEOREM SuspensionDecidedOnce == Spec => []DecidedOnce
<1>1. Init => DecisionInv
  BY DEF Init, StoreInit, DecisionInv, OneCaller, DecidingInv, DecidedOnce, Yielding
<1>2. DecisionInv => DecidedOnce
  BY DEF DecisionInv
<1> QED
  BY <1>1, <1>2, TypeInit, TypeStep, DecisionStep, PTL DEF Spec

------------------------------------------------------------------------------
(* Histories.                                                              *)

TurnsInv == OneCaller /\ HalfTurnInv /\ HistoryIsTurns

(* Cutting a history anywhere leaves every answer its question.            *)
LEMMA PrefixInTurns ==
  ASSUME NEW history \in Seq(Message), InTurns(history), NEW n \in 0..Len(history)
  PROVE  InTurns(SubSeq(history, 1, n))
<1>1. /\ SubSeq(history, 1, n) \in Seq(Message)
      /\ Len(SubSeq(history, 1, n)) = n
      /\ \A i \in 1..n : SubSeq(history, 1, n)[i] = history[i]
  BY PrefixType
<1>2. DOMAIN SubSeq(history, 1, n) = 1..n /\ DOMAIN history = 1..Len(history)
  BY <1>1
<1> QED
  BY <1>1, <1>2 DEF InTurns

LEMMA QuestionInTurns ==
  ASSUME NEW history \in Seq(Message), InTurns(history), NEW r \in Request
  PROVE  InTurns(Append(history, [role |-> "user", turn |-> r]))
BY DEF InTurns, Message, Request

LEMMA AnswerInTurns ==
  ASSUME NEW history \in Seq(Message), InTurns(history), NEW r \in Request,
         Len(history) > 0, history[Len(history)] = [role |-> "user", turn |-> r]
  PROVE  InTurns(Append(history, [role |-> "assistant", turn |-> r]))
BY DEF InTurns, Message, Request

(* A step that brings nobody between two messages.                         *)
LEMMA WholeTurnStep ==
  ASSUME TypeInv, TurnsInv, store' = store, OneCaller',
         HistoryIsTurns',
         store = "memory" => \A r \in Request : pc'[r] # "save_assistant"
  PROVE  TurnsInv'
BY DEF TurnsInv, HalfTurnInv

LEMMA ShorterHistories ==
  ASSUME TypeInv, HistoryIsTurns, store' = store,
         \A t \in Thread : messages'[t] \in {messages[t], <<>>}
  PROVE  HistoryIsTurns'
BY DEF HistoryIsTurns, InTurns

LEMMA TurnsStep ==
  ASSUME TypeInv, TurnsInv, [Next]_vars
  PROVE  TurnsInv'
<1>1. store' = store /\ OneCaller'
  BY StepShape, OneCallerStep DEF TurnsInv
<1> SUFFICES ASSUME store = "memory"
             PROVE  TurnsInv'
  BY <1>1 DEF TurnsInv, HalfTurnInv, HistoryIsTurns
<1>2. ASSUME NEW r \in Request, SaveUser(r)
      PROVE  TurnsInv'
  <2>1. CanRun(r) /\ r \in Turn
    BY <1>2 DEF SaveUser, SaveMessage, Step, At, Request
  <2>2. CASE /\ Exists(thread[r]) /\ Goto(r, "save_assistant")
             /\ AddMessage(thread[r], [role |-> "user", turn |-> r])
    <3>1. thread[r] \in Thread
      BY <1>2 DEF SaveUser, SaveMessage, Step, At, TypeInv, PlaceInv
    <3>2. thread'[r] = thread[r]
      BY <2>2 DEF Goto, TypeInv, TypeOK
    <3>3. messages[thread[r]] \in Seq(Message) /\ [role |-> "user", turn |-> r] \in Message
      BY <2>1, <3>1 DEF TypeInv, TypeOK, Message
    <3>4. messages'[thread[r]] = Append(messages[thread[r]], [role |-> "user", turn |-> r])
      BY <2>2, <3>1 DEF AddMessage, TypeInv, TypeOK
    <3>5. HistoryIsTurns'
      BY <2>2, <3>1, <3>3, <3>4, QuestionInTurns DEF TurnsInv, HistoryIsTurns, AddMessage, TypeInv, TypeOK
    <3>6. \A q \in Request : pc'[q] = "save_assistant" => q = r
      BY <2>1, <2>2, Alone DEF Goto, TypeInv, TypeOK
    <3>7. HalfTurnInv'
      BY <3>2, <3>3, <3>4, <3>6, AppendProperties DEF HalfTurnInv
    <3> QED
      BY <1>1, <3>5, <3>7 DEF TurnsInv
  <2>3. CASE UNCHANGED storage /\ Goto(r, "done")
    BY <1>1, <2>1, <2>3, Alone, WholeTurnStep
       DEF Goto, TurnsInv, HistoryIsTurns, storage, TypeInv, TypeOK
  <2> QED
    BY <1>2, <2>2, <2>3 DEF SaveUser, SaveMessage, Step
<1>3. ASSUME NEW r \in Request, SaveAssistant(r)
      PROVE  TurnsInv'
  <2>1. CanRun(r) /\ r \in Turn /\ Goto(r, "done") /\ pc[r] = "save_assistant"
    BY <1>3 DEF SaveAssistant, SaveMessage, Step, At, Request
  <2>2. \A q \in Request : pc'[q] # "save_assistant"
    BY <2>1, Alone DEF Goto, TypeInv, TypeOK
  <2>3. CASE AddMessage(thread[r], [role |-> "assistant", turn |-> r])
    <3>1. thread[r] \in Thread
      BY <2>1 DEF TypeInv, PlaceInv
    <3>2. messages[thread[r]] \in Seq(Message)
      BY <3>1 DEF TypeInv, TypeOK
    <3>3. /\ Len(messages[thread[r]]) > 0
          /\ messages[thread[r]][Len(messages[thread[r]])] = [role |-> "user", turn |-> r]
      BY <2>1 DEF TurnsInv, HalfTurnInv
    <3>4. InTurns(Append(messages[thread[r]], [role |-> "assistant", turn |-> r]))
      BY <3>1, <3>2, <3>3, AnswerInTurns DEF TurnsInv, HistoryIsTurns
    <3>5. HistoryIsTurns'
      BY <2>3, <3>1, <3>4 DEF TurnsInv, HistoryIsTurns, AddMessage, TypeInv, TypeOK
    <3> QED
      BY <1>1, <2>2, <3>5, WholeTurnStep
  <2>4. CASE UNCHANGED storage
    BY <1>1, <2>2, <2>4, WholeTurnStep DEF TurnsInv, HistoryIsTurns, storage
  <2> QED
    BY <1>3, <2>3, <2>4 DEF SaveAssistant, SaveMessage
<1>4. ASSUME NEW r \in Request,
             \/ Lookup(r) \/ Create(r) \/ Load(r) \/ Invoked(r) \/ Suspend(r) \/ ApproveDelete(r)
             \/ Resumed(r) \/ Resuspend(r) \/ RejectDelete(r) \/ ClearDelete(r) \/ ClearCreate(r)
      PROVE  TurnsInv'
  <2>1. \A t \in Thread : messages'[t] \in {messages[t], <<>>}
    BY <1>4 DEF Lookup, Create, Load, Invoked, Suspend, ApproveDelete, Resumed, Resuspend,
         RejectDelete, ClearDelete, ClearCreate, SuspendAt, storage, CreateThread, DeleteThread,
         Forget, SaveSuspended, DeleteSuspended
  <2>2. CanRun(r) /\ \E place \in (Yielding \cup Calling) \ {"save_assistant"} : Goto(r, place)
    BY <1>4 DEF Lookup, Create, Load, Invoked, Suspend, ApproveDelete, Resumed, Resuspend,
         RejectDelete, ClearDelete, ClearCreate, SuspendAt, Step, At, Yielding, Calling
  <2>3. \A q \in Request : pc'[q] # "save_assistant"
    BY <2>2, Alone DEF Goto, TypeInv, TypeOK
  <2> QED
    BY <1>1, <2>1, <2>3, ShorterHistories, WholeTurnStep DEF TurnsInv
<1>5. ASSUME NEW r \in Request, StoreFails(r)
      PROVE  TurnsInv'
  BY <1>5 DEF StoreFails
<1>6. ASSUME NEW r \in Request, NEW t \in Thread, Chat(r, t) \/ Clear(r, t)
      PROVE  TurnsInv'
  <2>1. \A q \in Request : pc'[q] # "save_assistant"
    BY <1>6, Alone DEF Chat, Clear, Begin, At, TypeInv, TypeOK
  <2> QED
    BY <1>1, <1>6, <2>1, ShorterHistories, WholeTurnStep DEF TurnsInv, Chat, Clear, storage
<1>7. ASSUME NEW r \in Request, NEW t \in Thread, NEW a \in Approval,
             Approve(r, a, t) \/ Reject(r, a, t)
      PROVE  TurnsInv'
  <2>1. \A q \in Request : pc'[q] # "save_assistant"
    BY <1>7, Alone DEF Approve, Reject, Retrieve, Begin, At, TypeInv, TypeOK
  <2>2. messages' = messages
    BY <1>7 DEF Approve, Reject, Retrieve, DeleteSuspended, storage
  <2> QED
    BY <1>1, <2>1, <2>2, ShorterHistories, WholeTurnStep DEF TurnsInv
<1>8. ASSUME NEW t \in Thread, Quiet, HistoryIsTurns'
      PROVE  TurnsInv'
  BY <1>1, <1>8, WholeTurnStep DEF Quiet, requests, Yielding, TurnsInv
<1>9. ASSUME NEW t \in Thread, CreateRoute(t) \/ UpdateRoute(t) \/ DeleteRoute(t)
      PROVE  TurnsInv'
  <2>1. \A u \in Thread : messages'[u] \in {messages[u], <<>>}
    BY <1>9 DEF CreateRoute, UpdateRoute, DeleteRoute, CreateThread, UpdateThread, DeleteThread, Forget
  <2> QED
    BY <1>1, <1>8, <1>9, <2>1, ShorterHistories
       DEF TurnsInv, CreateRoute, UpdateRoute, DeleteRoute
<1>10. ASSUME NEW t \in Thread, NEW parent \in Thread, ForkRoute(parent, t)
       PROVE  TurnsInv'
  <2>1. PICK index \in 0..Len(messages[parent]) : ForkThread(parent, index, t)
    BY <1>10 DEF ForkRoute
  <2>2. InTurns(SubSeq(messages[parent], 1, index))
    BY <2>1, PrefixInTurns DEF TurnsInv, HistoryIsTurns, TypeInv, TypeOK
  <2>3. HistoryIsTurns'
    BY <2>1, <2>2 DEF ForkThread, TurnsInv, HistoryIsTurns, TypeInv, TypeOK
  <2> QED
    BY <1>8, <1>10, <2>3 DEF ForkRoute
<1>11. ASSUME NEW a \in Approval, ExpireState(a)
       PROVE  TurnsInv'
  <2>1. \A q \in Request : pc'[q] # "save_assistant"
    BY <1>11 DEF ExpireState, Quiet, requests, Yielding
  <2> QED
    BY <1>1, <1>11, <2>1, ShorterHistories, WholeTurnStep DEF TurnsInv, ExpireState, Expire
<1>12. CASE UNCHANGED vars
  BY <1>12 DEF vars, storage, requests, TurnsInv, OneCaller, HalfTurnInv, HistoryIsTurns
<1> QED
  BY <1>2, <1>3, <1>4, <1>5, <1>6, <1>7, <1>9, <1>10, <1>11, <1>12 DEF Next, Handle

(* With the memory store every answer in every history stands directly     *)
(* after its own question, for any number of concurrent chats, forks,      *)
(* clears and evictions (save_turn, core/memory_manager.py).               *)
THEOREM HistoriesAreTurns == Spec => []HistoryIsTurns
<1>1. Init => TurnsInv
  BY DEF Init, StoreInit, TurnsInv, OneCaller, HalfTurnInv, HistoryIsTurns, InTurns, Yielding
<1>2. TurnsInv => HistoryIsTurns
  BY DEF TurnsInv
<1> QED
  BY <1>1, <1>2, TypeInit, TypeStep, TurnsStep, PTL DEF Spec

------------------------------------------------------------------------------
(* Eviction.                                                               *)

(* No thread is listed twice.                                              *)
Distinct(s) == \A i, j \in 1..Len(s) : s[i] = s[j] => i = j

EachOnce == Distinct(recency)

(* Without t the list is what it was, with what follows t one place up.    *)
LEMMA OthersShape ==
  ASSUME TypeOK, EachOnce, NEW t, Exists(t)
  PROVE  \E at \in 1..Len(recency) :
           /\ recency[at] = t
           /\ Len(Others(t)) = Len(recency) - 1
           /\ \A k \in 1..(Len(recency) - 1) :
                Others(t)[k] = recency[IF k < at THEN k ELSE k + 1]
<1> DEFINE at == CHOOSE i \in DOMAIN recency : recency[i] = t
           front == SubSeq(recency, 1, at - 1)
           back == SubSeq(recency, at + 1, Len(recency))
<1>1. /\ recency \in Seq(Thread) /\ Len(recency) \in Nat /\ DOMAIN recency = 1..Len(recency)
      /\ \A i \in 1..Len(recency) : recency[i] \in Thread
  BY LenProperties, ElementOfSeq DEF TypeOK
<1>2. at \in 1..Len(recency) /\ recency[at] = t
  BY <1>1 DEF Exists, Members
<1>3. Others(t) = front \o back
  BY DEF Others
<1> HIDE DEF at
<1>4. at \in Int /\ at - 1 \in Int /\ at + 1 \in Int
  BY <1>1, <1>2
<1>5. /\ front \in Seq(Thread) /\ Len(front) = at - 1
      /\ \A i \in 1..(at - 1) : front[i] = recency[i]
  <2>1. \A i \in 1..(at - 1) : recency[i] \in Thread
    BY <1>1, <1>2
  <2>2. /\ front \in Seq(Thread)
        /\ Len(front) = (IF 1 <= at - 1 THEN (at - 1) - 1 + 1 ELSE 0)
        /\ \A i \in 1..((at - 1) - 1 + 1) : front[i] = recency[1 + i - 1]
    BY <1>4, <2>1, SubSeqProperties
  <2> QED
    BY <1>1, <1>2, <2>2
<1>6. /\ back \in Seq(Thread) /\ Len(back) = Len(recency) - at
      /\ \A i \in 1..(Len(recency) - at) : back[i] = recency[at + i]
  <2>1. \A i \in (at + 1)..Len(recency) : recency[i] \in Thread
    BY <1>1, <1>2
  <2>2. /\ back \in Seq(Thread)
        /\ Len(back) = (IF at + 1 <= Len(recency) THEN Len(recency) - (at + 1) + 1 ELSE 0)
        /\ \A i \in 1..(Len(recency) - (at + 1) + 1) : back[i] = recency[(at + 1) + i - 1]
    BY <1>1, <1>4, <2>1, SubSeqProperties
  <2> QED
    BY <1>1, <1>2, <2>2
<1> HIDE DEF front, back
<1>7. /\ Len(front \o back) = Len(recency) - 1
      /\ \A k \in 1..(Len(recency) - 1) :
           (front \o back)[k] = IF k <= at - 1 THEN front[k] ELSE back[k - (at - 1)]
  <2>1. /\ Len(front \o back) = Len(front) + Len(back)
        /\ \A k \in 1..(Len(front) + Len(back)) :
             (front \o back)[k] = IF k <= Len(front) THEN front[k] ELSE back[k - Len(front)]
    BY <1>5, <1>6, ConcatProperties
  <2> QED
    BY <1>1, <1>2, <1>5, <1>6, <2>1
<1>8. \A k \in 1..(Len(recency) - 1) :
        (front \o back)[k] = recency[IF k < at THEN k ELSE k + 1]
  <2> TAKE k \in 1..(Len(recency) - 1)
  <2>1. CASE k < at
    <3>1. k \in 1..(at - 1)
      BY <1>1, <1>2, <2>1
    <3>2. (front \o back)[k] = front[k]
      BY <1>7, <3>1
    <3> QED
      BY <1>5, <2>1, <3>1, <3>2
  <2>2. CASE ~(k < at)
    <3>1. /\ ~(k <= at - 1) /\ k - (at - 1) \in 1..(Len(recency) - at)
          /\ at + (k - (at - 1)) = k + 1
      BY <1>1, <1>2, <2>2
    <3>2. (front \o back)[k] = back[k - (at - 1)]
      BY <1>7, <3>1
    <3>3. back[k - (at - 1)] = recency[at + (k - (at - 1))]
      BY <1>6, <3>1
    <3> QED
      BY <2>2, <3>1, <3>2, <3>3
  <2> QED
    BY <2>1, <2>2
<1> QED
  BY <1>2, <1>3, <1>7, <1>8

(* What is left lists no thread twice, and keeps the order.                *)
KeepsOrder(s, t) ==
  /\ \A i \in 1..Len(recency) : recency[i] # t => \E k \in 1..Len(s) : s[k] = recency[i]
  /\ \A i, j \in 1..Len(recency), k, l \in 1..Len(s) :
       i < j /\ s[k] = recency[i] /\ s[l] = recency[j] => k < l

LEMMA OthersOrder ==
  ASSUME TypeOK, EachOnce, NEW t
  PROVE  /\ Distinct(Others(t))
         /\ \A k \in 1..Len(Others(t)) : Others(t)[k] # t
         /\ KeepsOrder(Others(t), t)
<1>1. Len(recency) \in Nat /\ DOMAIN recency = 1..Len(recency)
  BY LenProperties DEF TypeOK
<1>2. CASE Exists(t)
  <2>1. PICK at \in 1..Len(recency) :
          /\ recency[at] = t
          /\ Len(Others(t)) = Len(recency) - 1
          /\ \A k \in 1..(Len(recency) - 1) :
               Others(t)[k] = recency[IF k < at THEN k ELSE k + 1]
    BY <1>2, OthersShape
  <2>2. \A i \in 1..Len(recency) : recency[i] # t =>
          \E k \in 1..Len(Others(t)) : Others(t)[k] = recency[i]
    <3> TAKE i \in 1..Len(recency)
    <3> HAVE recency[i] # t
    <3> DEFINE k == IF i < at THEN i ELSE i - 1
    <3>1. k \in 1..(Len(recency) - 1) /\ (IF k < at THEN k ELSE k + 1) = i
      BY <1>1, <2>1
    <3> HIDE DEF k
    <3>2. Others(t)[k] = recency[i]
      BY <2>1, <3>1
    <3> QED
      BY <2>1, <3>1, <3>2
  <2>3. \A k \in 1..(Len(recency) - 1) :
          /\ (IF k < at THEN k ELSE k + 1) \in 1..Len(recency)
          /\ (IF k < at THEN k ELSE k + 1) # at
    BY <1>1
  <2>4. Distinct(Others(t))
    BY <1>1, <2>1, <2>3 DEF Distinct, EachOnce
  <2>5. \A k \in 1..Len(Others(t)) : Others(t)[k] # t
    BY <1>1, <2>1, <2>3 DEF Distinct, EachOnce
  <2>6. \A i, j \in 1..Len(recency), k, l \in 1..Len(Others(t)) :
          i < j /\ Others(t)[k] = recency[i] /\ Others(t)[l] = recency[j] => k < l
    <3> SUFFICES ASSUME NEW i \in 1..Len(recency), NEW j \in 1..Len(recency),
                        NEW k \in 1..Len(Others(t)), NEW l \in 1..Len(Others(t)),
                        i < j, Others(t)[k] = recency[i], Others(t)[l] = recency[j]
                 PROVE  k < l
      OBVIOUS
    <3>1. (IF k < at THEN k ELSE k + 1) = i
      BY <1>1, <2>1, <2>3 DEF Distinct, EachOnce
    <3>2. (IF l < at THEN l ELSE l + 1) = j
      BY <1>1, <2>1, <2>3 DEF Distinct, EachOnce
    <3> QED
      BY <1>1, <2>1, <3>1, <3>2
  <2> QED
    BY <2>2, <2>4, <2>5, <2>6 DEF KeepsOrder
<1>3. CASE ~Exists(t)
  <2>1. Others(t) = recency /\ \A k \in 1..Len(recency) : recency[k] # t
    BY <1>1, <1>3 DEF Others, Exists, Members
  <2>2. \A i, j, k, l \in 1..Len(recency) :
          i < j /\ recency[k] = recency[i] /\ recency[l] = recency[j] => k < l
    BY DEF EachOnce, Distinct
  <2> QED
    BY <2>1, <2>2 DEF EachOnce, KeepsOrder
<1> QED
  BY <1>2, <1>3

(* A thread that is touched comes last, the others keep their order.       *)
LEMMA TouchedOrder ==
  ASSUME TypeOK, EachOnce, NEW t \in Thread
  PROVE  /\ Touched(t) \in Seq(Thread)
         /\ Len(Touched(t)) > 0
         /\ Touched(t)[Len(Touched(t))] = t
         /\ Distinct(Touched(t))
         /\ \A i \in 1..Len(recency) : \E k \in 1..Len(Touched(t)) : Touched(t)[k] = recency[i]
         /\ \A i, j \in 1..Len(recency), k, l \in 1..Len(Touched(t)) :
              i < j /\ recency[i] # t /\ recency[j] # t
                    /\ Touched(t)[k] = recency[i] /\ Touched(t)[l] = recency[j] => k < l
<1> DEFINE o == Others(t)
           s == Touched(t)
<1>1. o \in Seq(Thread)
  BY OthersType
<1>2. /\ Distinct(o) /\ \A k \in 1..Len(o) : o[k] # t
      /\ KeepsOrder(o, t)
  BY OthersOrder
<1>3. s = Append(o, t)
  BY DEF Touched
<1> HIDE DEF o, s
<1>4. /\ s \in Seq(Thread) /\ Len(o) \in Nat /\ Len(s) = Len(o) + 1 /\ s[Len(o) + 1] = t
      /\ \A k \in 1..Len(o) : s[k] = o[k]
  BY <1>1, <1>3, AppendProperties
<1>5. Distinct(s)
  BY <1>2, <1>4 DEF Distinct
<1>6. \A i \in 1..Len(recency) : \E k \in 1..Len(s) : s[k] = recency[i]
  <2> TAKE i \in 1..Len(recency)
  <2>1. CASE recency[i] = t
    BY <1>4, <2>1
  <2>2. CASE recency[i] # t
    <3>1. PICK k \in 1..Len(o) : o[k] = recency[i]
      BY <1>2, <2>2 DEF KeepsOrder
    <3> QED
      BY <1>4, <3>1
  <2> QED
    BY <2>1, <2>2
<1>7. \A i, j \in 1..Len(recency), k, l \in 1..Len(s) :
        i < j /\ recency[i] # t /\ recency[j] # t /\ s[k] = recency[i] /\ s[l] = recency[j]
          => k < l
  BY <1>2, <1>4 DEF KeepsOrder
<1> QED
  BY <1>4, <1>5, <1>6, <1>7 DEF s

(* The overflow is the front of the list.                                  *)
LEMMA EvictShape ==
  ASSUME NEW s \in Seq(Thread), Len(s) > 0
  PROVE  \E d \in 0..(Len(s) - 1) :
           /\ Len(EvictOverflow(s)) = Len(s) - d
           /\ \A i \in 1..(Len(s) - d) : EvictOverflow(s)[i] = s[d + i]
           /\ store = "memory" => Len(s) - d <= MaxThreads
<1>1. Len(s) \in Nat /\ MaxThreads \in Nat \ {0} /\ \A i \in 1..Len(s) : s[i] \in Thread
  BY ThreadStoreAssumption, LenProperties, ElementOfSeq
<1>2. CASE store = "memory" /\ Len(s) > MaxThreads
  <2> DEFINE from == Len(s) - MaxThreads + 1
  <2>1. from \in Int /\ Len(s) \in Int /\ \A i \in from..Len(s) : s[i] \in Thread
    BY <1>1, <1>2
  <2>2. EvictOverflow(s) = SubSeq(s, from, Len(s))
    BY <1>2 DEF EvictOverflow
  <2>3. /\ Len(SubSeq(s, from, Len(s))) = (IF from <= Len(s) THEN Len(s) - from + 1 ELSE 0)
        /\ \A i \in 1..(Len(s) - from + 1) : SubSeq(s, from, Len(s))[i] = s[from + i - 1]
    <3> HIDE DEF from
    <3> QED
      BY <2>1, SubSeqProperties
  <2>4. /\ Len(EvictOverflow(s)) = Len(s) - (Len(s) - MaxThreads)
        /\ \A i \in 1..(Len(s) - (Len(s) - MaxThreads)) :
             EvictOverflow(s)[i] = s[(Len(s) - MaxThreads) + i]
    BY <1>1, <1>2, <2>2, <2>3
  <2>5. Len(s) - MaxThreads \in 0..(Len(s) - 1) /\ Len(s) - (Len(s) - MaxThreads) <= MaxThreads
    BY <1>1, <1>2
  <2> QED
    BY <2>4, <2>5
<1>3. CASE ~(store = "memory" /\ Len(s) > MaxThreads)
  <2>1. EvictOverflow(s) = s
    BY <1>3 DEF EvictOverflow
  <2>2. /\ Len(s) = Len(s) - 0 /\ \A i \in 1..(Len(s) - 0) : s[i] = s[0 + i]
        /\ 0 \in 0..(Len(s) - 1)
        /\ store = "memory" => Len(s) - 0 <= MaxThreads
    BY <1>1, <1>3
  <2> QED
    BY <2>1, <2>2
<1> QED
  BY <1>2, <1>3

LEMMA EvictDistinct ==
  ASSUME NEW s \in Seq(Thread), Len(s) > 0, Distinct(s)
  PROVE  Distinct(EvictOverflow(s))
<1>1. PICK d \in 0..(Len(s) - 1) :
        /\ Len(EvictOverflow(s)) = Len(s) - d
        /\ \A i \in 1..(Len(s) - d) : EvictOverflow(s)[i] = s[d + i]
  BY EvictShape
<1>2. Len(s) \in Nat
  BY LenProperties
<1> DEFINE e == EvictOverflow(s)
<1>3. ASSUME NEW i \in 1..Len(e), NEW j \in 1..Len(e), e[i] = e[j]
      PROVE  i = j
  <2>1. d + i \in 1..Len(s) /\ d + j \in 1..Len(s) /\ s[d + i] = s[d + j]
    BY <1>1, <1>2, <1>3
  <2>2. d + i = d + j
    BY <2>1 DEF Distinct
  <2> QED
    BY <1>1, <1>2, <2>2
<1> HIDE DEF e
<1>4. Distinct(e)
  BY <1>3 DEF Distinct
<1> QED
  BY <1>4 DEF e

(* What a store call does to the list.                                     *)
LEMMA RecencyShape ==
  ASSUME TypeInv, [Next]_vars
  PROVE  \/ recency' = recency
         \/ \E t \in Thread :
              recency' \in {Others(t), Touched(t), EvictOverflow(Touched(t))}
<1>1. ASSUME NEW r \in Request, Handle(r)
      PROVE  \/ recency' = recency
             \/ \E t \in Thread : recency' \in {Others(t), Touched(t), EvictOverflow(Touched(t))}
  <2>1. CASE \/ Create(r) \/ SaveUser(r) \/ SaveAssistant(r) \/ ClearDelete(r) \/ ClearCreate(r)
    <3>1. thread[r] \in Thread
      BY <2>1 DEF Create, SaveUser, SaveAssistant, SaveMessage, ClearDelete, ClearCreate, Step, At,
           TypeInv, PlaceInv
    <3>2. recency' \in {recency, Others(thread[r]), Touched(thread[r]),
                        EvictOverflow(Touched(thread[r]))}
      BY <2>1 DEF Create, SaveUser, SaveAssistant, SaveMessage, ClearDelete, ClearCreate,
           CreateThread, DeleteThread, AddMessage, storage
    <3> QED
      BY <3>1, <3>2
  <2>2. CASE \/ Lookup(r) \/ Load(r) \/ Invoked(r) \/ Suspend(r) \/ ApproveDelete(r)
             \/ Resumed(r) \/ Resuspend(r) \/ RejectDelete(r) \/ StoreFails(r)
    BY <2>2 DEF Lookup, Load, Invoked, Suspend, ApproveDelete, Resumed, Resuspend, RejectDelete,
         StoreFails, SuspendAt, SaveSuspended, DeleteSuspended, storage
  <2> QED
    BY <1>1, <2>1, <2>2 DEF Handle
<1>2. ASSUME NEW r \in Request, NEW t \in Thread, NEW a \in Approval,
             Approve(r, a, t) \/ Reject(r, a, t)
      PROVE  recency' = recency
  BY <1>2 DEF Approve, Reject, Retrieve, storage, DeleteSuspended
<1>3. ASSUME NEW r \in Request, NEW t \in Thread, Chat(r, t) \/ Clear(r, t)
      PROVE  recency' = recency
  BY <1>3 DEF Chat, Clear, storage
<1>4. ASSUME NEW t \in Thread,
             \/ CreateRoute(t) \/ UpdateRoute(t) \/ DeleteRoute(t)
             \/ \E parent \in Thread : ForkRoute(parent, t)
      PROVE  recency' \in {Others(t), Touched(t), EvictOverflow(Touched(t))}
  BY <1>4 DEF CreateRoute, UpdateRoute, DeleteRoute, ForkRoute, CreateThread, UpdateThread,
       DeleteThread, ForkThread
<1>5. ASSUME NEW a \in Approval, ExpireState(a)
      PROVE  recency' = recency
  BY <1>5 DEF ExpireState, Expire
<1>6. CASE UNCHANGED vars
  BY <1>6 DEF vars, storage
<1> QED
  BY <1>1, <1>2, <1>3, <1>4, <1>5, <1>6 DEF Next

LEMMA EachOnceStep ==
  ASSUME TypeInv, EachOnce, [Next]_vars
  PROVE  EachOnce'
<1>1. CASE recency' = recency
  BY <1>1 DEF EachOnce, Distinct
<1>2. ASSUME NEW t \in Thread, recency' \in {Others(t), Touched(t), EvictOverflow(Touched(t))}
      PROVE  EachOnce'
  <2>1. /\ Touched(t) \in Seq(Thread) /\ Len(Touched(t)) > 0
        /\ Distinct(Touched(t)) /\ Distinct(Others(t))
    BY TouchedOrder, OthersOrder DEF TypeInv
  <2>2. Distinct(EvictOverflow(Touched(t)))
    BY <2>1, EvictDistinct
  <2>3. Distinct(recency')
    BY <1>2, <2>1, <2>2
  <2> QED
    BY <2>3 DEF EachOnce, Distinct
<1> QED
  BY <1>1, <1>2, RecencyShape

(* With the memory store a handler leaves its create by creating.          *)
LEMMA CreatesOnly ==
  ASSUME TypeInv, [Next]_vars, store = "memory", NEW r \in Request,
         pc[r] \in {"create", "clear_create"}, pc'[r] # pc[r]
  PROVE  CreateThread(thread[r])
<1>1. ASSUME NEW q \in Request, q # r, Handle(q)
      PROVE  FALSE
  <2>1. \E place : Goto(q, place)
    BY <1>1 DEF Handle, Lookup, Create, Load, Invoked, SaveUser, SaveAssistant, SaveMessage,
         Suspend, Resuspend, SuspendAt, ApproveDelete, Resumed, RejectDelete, ClearDelete,
         ClearCreate, StoreFails, Step
  <2> QED
    BY <1>1, <2>1 DEF Goto, TypeInv, TypeOK
<1>2. CASE Handle(r)
  <2>1. Create(r) \/ ClearCreate(r)
    BY <1>2 DEF Handle, Lookup, Create, Load, Invoked, SaveUser, SaveAssistant, SaveMessage,
         Suspend, Resuspend, SuspendAt, ApproveDelete, Resumed, RejectDelete, ClearDelete,
         ClearCreate, StoreFails, Step, At
  <2> QED
    BY <2>1 DEF Create, ClearCreate, CanCreate
<1>3. ASSUME NEW q \in Request, NEW t \in Thread, Chat(q, t) \/ Clear(q, t)
      PROVE  FALSE
  BY <1>3 DEF Chat, Clear, Begin, At, TypeInv, TypeOK
<1>4. ASSUME NEW q \in Request, NEW t \in Thread, NEW a \in Approval,
             Approve(q, a, t) \/ Reject(q, a, t)
      PROVE  FALSE
  BY <1>4 DEF Approve, Reject, Retrieve, Begin, At, TypeInv, TypeOK
<1>5. CASE pc' = pc
  BY <1>5
<1>6. ASSUME NEW t \in Thread,
             \/ CreateRoute(t) \/ UpdateRoute(t) \/ DeleteRoute(t)
             \/ \E parent \in Thread : ForkRoute(parent, t)
      PROVE  pc' = pc
  BY <1>6 DEF CreateRoute, UpdateRoute, DeleteRoute, ForkRoute, Quiet, requests
<1>7. ASSUME NEW a \in Approval, ExpireState(a)
      PROVE  pc' = pc
  BY <1>7 DEF ExpireState, Quiet, requests
<1>8. CASE UNCHANGED vars
  BY <1>8 DEF vars, requests
<1> QED
  BY <1>1, <1>2, <1>3, <1>4, <1>5, <1>6, <1>7, <1>8 DEF Next

(* What a create leaves of the list.                                       *)
LEMMA CreateOrder ==
  ASSUME TypeInv, EachOnce, store = "memory", NEW t \in Thread, CreateThread(t)
  PROVE  /\ Len(recency') <= MaxThreads
         /\ t \in Members(recency')
         /\ \A i, j \in DOMAIN recency :
              i < j /\ recency[j] \notin Members(recency')
                => recency[i] \notin Members(recency') \ {t}
<1> DEFINE s == Touched(t)
<1>1. /\ s \in Seq(Thread) /\ Len(s) > 0 /\ s[Len(s)] = t /\ Distinct(s)
      /\ \A i \in 1..Len(recency) : \E k \in 1..Len(s) : s[k] = recency[i]
      /\ \A i, j \in 1..Len(recency), k, l \in 1..Len(s) :
           i < j /\ recency[i] # t /\ recency[j] # t /\ s[k] = recency[i] /\ s[l] = recency[j]
             => k < l
  BY TouchedOrder DEF TypeInv
<1>2. recency' = EvictOverflow(s)
  BY DEF CreateThread
<1> HIDE DEF s
<1>3. PICK d \in 0..(Len(s) - 1) :
        /\ Len(recency') = Len(s) - d
        /\ \A i \in 1..(Len(s) - d) : recency'[i] = s[d + i]
        /\ Len(s) - d <= MaxThreads
  BY <1>1, <1>2, EvictShape
<1>4. Len(s) \in Nat /\ recency' \in Seq(Thread) /\ DOMAIN recency' = 1..(Len(s) - d)
  <2>1. recency' \in Seq(Thread)
    BY <1>1, <1>2, EvictType
  <2> QED
    BY <1>1, <1>3, <2>1, LenProperties
<1>5. Members(recency') = {recency'[i] : i \in 1..(Len(s) - d)}
  BY <1>4 DEF Members
<1>6. \A k \in (d + 1)..Len(s) : s[k] \in Members(recency')
  <2> TAKE k \in (d + 1)..Len(s)
  <2>1. k - d \in 1..(Len(s) - d) /\ recency'[k - d] = s[k]
    BY <1>3, <1>4
  <2> QED
    BY <1>5, <2>1
<1>7. t \in Members(recency')
  BY <1>1, <1>3, <1>4, <1>6
<1>8. ASSUME NEW i \in DOMAIN recency, NEW j \in DOMAIN recency, i < j,
             recency[j] \notin Members(recency'), recency[i] \in Members(recency') \ {t}
      PROVE  FALSE
  <2>1. i \in 1..Len(recency) /\ j \in 1..Len(recency)
    BY LenProperties DEF TypeInv, TypeOK
  <2>2. PICK l \in 1..Len(s) : s[l] = recency[j]
    BY <1>1, <2>1
  <2>3. l <= d
    BY <1>3, <1>4, <1>6, <1>8, <2>2
  <2>4. PICK k \in 1..(Len(s) - d) : recency[i] = recency'[k]
    BY <1>5, <1>8
  <2>5. s[d + k] = recency[i] /\ d + k \in 1..Len(s)
    BY <1>3, <1>4, <2>4
  <2>6. recency[j] # t
    BY <1>7, <1>8
  <2>7. d + k < l
    BY <1>1, <1>8, <2>1, <2>2, <2>5, <2>6
  <2> QED
    BY <1>3, <1>4, <2>3, <2>7
<1> QED
  BY <1>3, <1>7, <1>8

(* Creating a thread leaves the memory store at or below its cap, with the *)
(* new thread in it, and evicts nothing while something older stays        *)
(* (_evict_overflow, storage/memory.py).                                   *)
THEOREM CreateEvicts == Spec => CreateEvictsOldest
<1> DEFINE Evicts ==
      store = "memory" =>
        \A t \in Thread :
          \/ \E r \in Request : pc[r] \in {"create", "clear_create"} /\ pc'[r] # pc[r]
                                  /\ thread[r] = t
          \/ CreateRoute(t)
          =>
          /\ Len(recency') <= MaxThreads
          /\ t \in Members(recency')
          /\ \A i, j \in DOMAIN recency :
               i < j /\ recency[j] \notin Members(recency')
                 => recency[i] \notin Members(recency') \ {t}
<1>1. Init => EachOnce
  BY EmptySeq DEF Init, StoreInit, EachOnce, Distinct
<1>2. TypeInv /\ EachOnce /\ [Next]_vars => [Evicts]_vars
  <2> SUFFICES ASSUME TypeInv, EachOnce, [Next]_vars, store = "memory", NEW t \in Thread,
                      \/ \E r \in Request : pc[r] \in {"create", "clear_create"}
                           /\ pc'[r] # pc[r] /\ thread[r] = t
                      \/ CreateRoute(t)
               PROVE  /\ Len(recency') <= MaxThreads
                      /\ t \in Members(recency')
                      /\ \A i, j \in DOMAIN recency :
                           i < j /\ recency[j] \notin Members(recency')
                             => recency[i] \notin Members(recency') \ {t}
    OBVIOUS
  <2>1. CreateThread(t)
    BY CreatesOnly DEF CreateRoute
  <2> QED
    BY <2>1, CreateOrder
<1> QED
  BY <1>1, <1>2, TypeInit, TypeStep, EachOnceStep, PTL DEF Spec, CreateEvictsOldest

------------------------------------------------------------------------------
(* The window of load_history.                                             *)

(* Every request has a context.                                            *)
ContextInv == context = [q \in Request |-> context[q]]

LEMMA ContextStep ==
  ASSUME ContextInv, [Next]_vars
  PROVE  ContextInv'
<1>1. \/ context' = context
      \/ \E r \in Request : \E c : context' = [context EXCEPT ![r] = c]
  <2>1. ASSUME NEW r \in Request, Handle(r)
        PROVE  context' = context \/ \E c : context' = [context EXCEPT ![r] = c]
    BY <2>1 DEF Handle, Lookup, Create, Load, Invoked, SaveUser, SaveAssistant, SaveMessage,
         Suspend, Resuspend, SuspendAt, ApproveDelete, Resumed, RejectDelete, ClearDelete,
         ClearCreate, StoreFails, Step
  <2>2. ASSUME NEW r \in Request, NEW t \in Thread, Chat(r, t) \/ Clear(r, t)
        PROVE  context' = context
    BY <2>2 DEF Chat, Clear, Begin
  <2>3. ASSUME NEW r \in Request, NEW t \in Thread, NEW a \in Approval,
               Approve(r, a, t) \/ Reject(r, a, t)
        PROVE  context' = context
    BY <2>3 DEF Approve, Reject, Retrieve, Begin
  <2>4. ASSUME NEW t \in Thread,
               \/ CreateRoute(t) \/ UpdateRoute(t) \/ DeleteRoute(t)
               \/ \E parent \in Thread : ForkRoute(parent, t)
        PROVE  context' = context
    BY <2>4 DEF CreateRoute, UpdateRoute, DeleteRoute, ForkRoute, Quiet, requests
  <2>5. ASSUME NEW a \in Approval, ExpireState(a)
        PROVE  context' = context
    BY <2>5 DEF ExpireState, Quiet, requests
  <2>6. CASE UNCHANGED vars
    BY <2>6 DEF vars, requests
  <2> QED
    BY <2>1, <2>2, <2>3, <2>4, <2>5, <2>6 DEF Next
<1>2. CASE context' = context
  BY <1>2 DEF ContextInv
<1>3. ASSUME NEW r \in Request, NEW c, context' = [context EXCEPT ![r] = c]
      PROVE  ContextInv'
  <2>1. context' = [q \in Request |-> IF q = r THEN c ELSE context[q]]
    BY <1>3 DEF ContextInv
  <2>2. context' = [q \in Request |-> context'[q]]
    BY <2>1
  <2> QED
    BY <2>2 DEF ContextInv
<1> QED
  BY <1>1, <1>2, <1>3

(* Reading at least as many messages as there are reads them all.          *)
LEMMA ShortThreadIsRead ==
  ASSUME TypeOK, NEW t \in Thread, NEW limit \in Nat, Len(messages[t]) <= limit
  PROVE  GetMessages(t, limit) = messages[t]
<1>1. messages[t] \in Seq(Message) /\ Len(messages[t]) \in Nat
  BY DEF TypeOK
<1>2. (IF Len(messages[t]) < limit THEN Len(messages[t]) ELSE limit) = Len(messages[t])
  BY <1>1
<1>3. SubSeq(messages[t], 1, Len(messages[t])) = messages[t]
  BY <1>1, SubSeqFull
<1> QED
  BY <1>2, <1>3 DEF GetMessages

(* The window ends with the latest messages, and with its summary it is    *)
(* everything that was read.                                               *)
LEMMA WindowIsWhole ==
  ASSUME NEW read \in Seq(Message)
  PROVE  /\ Window(read).recent = Last(read, MaxMessages)
         /\ Len(read) > MaxMessages /\ Len(read) > SummarizeAfter /\ SummarizeAfter > 0 =>
              Window(read).summarised \o Window(read).recent = read
<1>1. Len(read) \in Nat /\ MaxMessages \in Nat \ {0}
  BY ConversationAssumption, LenProperties
<1>2. Window(read).recent = Last(read, MaxMessages)
  BY DEF Window
<1>3. ASSUME Len(read) > MaxMessages, Len(read) > SummarizeAfter, SummarizeAfter > 0
      PROVE  Window(read).summarised \o Window(read).recent = read
  <2> DEFINE cut == Len(read) - MaxMessages
  <2>1. Window(read).summarised = SubSeq(read, 1, cut)
    BY <1>3 DEF Window
  <2>2. Window(read).recent = SubSeq(read, cut + 1, Len(read))
    BY <1>1, <1>2, <1>3 DEF Last
  <2>3. 1 \in 1..(Len(read) + 1) /\ cut \in (1 - 1)..Len(read) /\ Len(read) \in cut..Len(read)
    BY <1>1, <1>3
  <2> HIDE DEF cut
  <2>4. SubSeq(read, 1, cut) \o SubSeq(read, cut + 1, Len(read)) = SubSeq(read, 1, Len(read))
    BY <2>3, ConcatAdjacentSubSeq
  <2>5. SubSeq(read, 1, Len(read)) = read
    BY SubSeqFull
  <2> QED
    BY <2>1, <2>2, <2>4, <2>5
<1> QED
  BY <1>2, <1>3

(* Of a thread no longer than load_history reads, the agent is given the   *)
(* latest max_messages messages, and all older ones in the summary.        *)
THEOREM ShortThreadsAreSeen == Spec => ShortThreadIsSeen
<1> DEFINE Seen ==
      \A r \in Request :
        Load(r) /\ Len(messages[thread[r]]) <= MaxMessages + Slack
          => ContextIs(r, messages[thread[r]])
<1>1. Init => ContextInv
  BY DEF Init, ContextInv
<1>2. TypeInv /\ ContextInv /\ [Next]_vars => [Seen]_vars
  <2> SUFFICES ASSUME TypeInv, ContextInv, NEW r \in Request, Load(r),
                      Len(messages[thread[r]]) <= MaxMessages + Slack
               PROVE  ContextIs(r, messages[thread[r]])
    OBVIOUS
  <2> DEFINE history == messages[thread[r]]
  <2>1. thread[r] \in Thread
    BY DEF Load, At, TypeInv, PlaceInv
  <2>2. history \in Seq(Message)
    BY <2>1 DEF TypeInv, TypeOK
  <2>3. MaxMessages + Slack \in Nat
    BY ConversationAssumption
  <2>4. GetMessages(thread[r], MaxMessages + Slack) = history
    BY <2>1, <2>3, ShortThreadIsRead DEF TypeInv
  <2>5. context' = [context EXCEPT ![r] = Window(history)]
    BY <2>4 DEF Load
  <2>6. context'[r] = Window(history)
    BY <2>5 DEF ContextInv
  <2> QED
    BY <2>2, <2>6, WindowIsWhole DEF ContextIs
<1> QED
  BY <1>1, <1>2, TypeInit, TypeStep, ContextStep, PTL DEF Spec, ShortThreadIsSeen
==============================================================================

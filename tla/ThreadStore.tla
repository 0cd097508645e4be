----------------------------- MODULE ThreadStore -----------------------------
(***************************************************************************)
(* The conversation store behind an agent's router: threads, their         *)
(* messages and the suspended states of human-in-the-loop runs, as         *)
(* storage/memory.py (MemoryStore) and storage/sqlalchemy.py keep them.    *)
(* Each operator is one call of the store; Conversation says who calls it  *)
(* and when.                                                               *)
(***************************************************************************)
EXTENDS Integers, Sequences

CONSTANTS
  Thread,       \* thread ids
  Approval,     \* approval ids
  Turn,         \* what a message is about: one question with its answer
  MaxThreads,   \* MemoryStore.max_threads
  None

ASSUME ThreadStoreAssumption ==
  /\ MaxThreads \in Nat \ {0}
  /\ None \notin Thread

VARIABLES
  store,     \* which backend is configured: "memory" or "sql"
  recency,   \* the threads that exist, by updated_at, latest last
  messages,  \* messages per thread, <<>> for a thread that does not exist
  pending,   \* thread of each suspended state, None if there is none
  expired    \* suspended states whose expires_at has passed

storage == <<store, recency, messages, pending, expired>>

Message == [role : {"user", "assistant"}, turn : Turn]

Members(s) == {s[i] : i \in DOMAIN s}

Exists(t) == t \in Members(recency)

StoreInit ==
  /\ recency = <<>>
  /\ messages = [t \in Thread |-> <<>>]
  /\ pending = [a \in Approval |-> None]
  /\ expired = {}

Others(t) ==
  LET at == CHOOSE i \in DOMAIN recency : recency[i] = t
  IN IF Exists(t)
       THEN SubSeq(recency, 1, at - 1) \o SubSeq(recency, at + 1, Len(recency))
       ELSE recency

\* updated_at becomes now: t is the latest.
Touched(t) == Append(Others(t), t)

\* bug: the overflow is taken from the wrong end of the sorted list.
bugEvictOverflow(threads) ==
  IF store = "memory" /\ Len(threads) > MaxThreads
    THEN SubSeq(threads, 1, MaxThreads)
    ELSE threads

\* What is left after _evict_overflow; the SQL store has no cap.
EvictOverflow(threads) ==
  IF store = "memory" /\ Len(threads) > MaxThreads
    THEN SubSeq(threads, Len(threads) - MaxThreads + 1, Len(threads))
    ELSE threads

\* Threads outside `kept` go with their messages and suspended states.
Forget(kept, emptied) ==
  /\ messages' = [u \in Thread |-> IF u \in kept \ emptied THEN messages[u] ELSE <<>>]
  /\ pending' = [a \in Approval |->
       IF pending[a] \in Members(recency) \ kept THEN None ELSE pending[a]]

\* The memory store overwrites a thread of that name, the SQL store refuses.
CanCreate(t) == store = "memory" \/ ~Exists(t)

CreateThread(t) ==
  /\ recency' = EvictOverflow(Touched(t))
  /\ Forget(Members(recency'), {t})
  /\ UNCHANGED <<store, expired>>

DeleteThread(t) ==
  /\ recency' = Others(t)
  /\ Forget(Members(recency'), {})
  /\ UNCHANGED <<store, expired>>

UpdateThread(t) ==
  /\ recency' = Touched(t)
  /\ UNCHANGED <<store, messages, pending, expired>>

\* Both stores refuse a message for a thread that does not exist.
AddMessage(t, message) ==
  /\ messages' = [messages EXCEPT ![t] = Append(@, message)]
  /\ recency' = Touched(t)
  /\ UNCHANGED <<store, pending, expired>>

\* The first `limit` messages, oldest first.
GetMessages(t, limit) ==
  SubSeq(messages[t], 1, IF Len(messages[t]) < limit THEN Len(messages[t]) ELSE limit)

\* fork_thread does not look at max_threads.
ForkThread(parent, index, t) ==
  /\ recency' = Touched(t)
  /\ messages' = [messages EXCEPT ![t] = SubSeq(messages[parent], 1, index)]
  /\ UNCHANGED <<store, pending, expired>>

\* The row of a suspended state refers to its thread in the SQL schema.
CanSuspend(t) == store = "memory" \/ Exists(t)

SaveSuspended(a, t) ==
  /\ pending' = [pending EXCEPT ![a] = t]
  /\ UNCHANGED <<store, recency, messages, expired>>

\* Only the memory store looks at expires_at.
Retrievable(a) == pending[a] # None /\ (store = "sql" \/ a \notin expired)

DeleteSuspended(a) ==
  /\ pending' = [pending EXCEPT ![a] = None]
  /\ UNCHANGED <<store, recency, messages, expired>>

Expire(a) ==
  /\ pending[a] # None
  /\ a \notin expired
  /\ expired' = expired \cup {a}
  /\ UNCHANGED <<store, recency, messages, pending>>
==============================================================================

----------------------------- MODULE TaskEventLog -----------------------------
(***************************************************************************)
(* agentomatic/tasks/event_log.py: InMemoryTaskEventLog, the bounded       *)
(* history of every task's events, and resolve_resumption, which works out *)
(* what a client that comes back still needs. Retention is capped by       *)
(* events per task, tasks, and bytes overall.                              *)
(***************************************************************************)
EXTENDS Integers, Sequences, SequencesExt, Lists

CONSTANTS
  Task,
  MaxEventsPerTask,
  MaxTasks,
  MaxBytesTotal

ASSUME TaskEventLogAssumption ==
  {MaxEventsPerTask, MaxTasks, MaxBytesTotal} \subseteq Nat \ {0}

VARIABLES
  events,      \* _events: retained events per task, oldest first (<<>>: no bucket)
  order,       \* key order of _events: least recently appended first
  sizes,       \* _sizes
  totalBytes   \* _total_bytes

logVars == <<events, order, sizes, totalBytes>>

\* What the accounting should add up to.
Bytes(bucket) == Total([i \in DOMAIN bucket |-> bucket[i].size])

\* _drop_oldest, n times: what is left, and the bytes given back.
DroppingBeforeNewest(bucket, n) ==   \* bug: the newest stays, its neighbours go
  IF n = 0 THEN bucket ELSE SubSeq(bucket, 1, Len(bucket) - n - 1) \o <<Last(bucket)>>
DropOldest(bucket, n) == SubSeq(bucket, n + 1, Len(bucket))

NothingFreed(bucket, n) == 0         \* bug: an implicit drop, as by deque(maxlen=...)
Freed(bucket, n) == Bytes(SubSeq(bucket, 1, n))

LogInit ==
  /\ events = [t \in Task |-> <<>>]
  /\ order = <<>>
  /\ sizes = [t \in Task |-> 0]
  /\ totalBytes = 0

\* The loop `while not done: drop one`, for at most `most` rounds: `done` are
\* the numbers of rounds after which it is done.
Rounds(most, done) == Min((done \cap 0..most) \cup {most})

\* _trim_total: how many of the least recently appended tasks are forgotten
\* when the keys are `keys` and `bytes` are retained in all. (_forget clamps the
\* total at 0, which AccountingHonest shows never to bite.)
RetainedBy(keys) == Total([i \in DOMAIN keys |-> sizes[keys[i]]])

ForgottenOneShort(keys, bytes) ==    \* bug: one task too many is kept
  Rounds(Len(keys) - 1,
         {n \in 0..Len(keys) : /\ Len(keys) - n <= MaxTasks + 1
                               /\ bytes - RetainedBy(SubSeq(keys, 1, n)) <= MaxBytesTotal})
Forgotten(keys, bytes) ==
  Rounds(Len(keys) - 1,
         {n \in 0..Len(keys) : /\ Len(keys) - n <= MaxTasks
                               /\ bytes - RetainedBy(SubSeq(keys, 1, n)) <= MaxBytesTotal})

\* append(): the bucket is first capped by number, then other tasks are
\* forgotten, then the bucket is trimmed to the byte ceiling. The newest event
\* always survives. (Bound by \E, so that TLC evaluates each value once.)
Record(t, event) ==
  LET grown == Append(events[t], event)
      over == IF Len(grown) > MaxEventsPerTask THEN Len(grown) - MaxEventsPerTask ELSE 0
  IN  \E capped \in {DropOldest(grown, over)},
         cappedSize \in {sizes[t] + event.size - Freed(grown, over)},
         total \in {totalBytes + event.size - Freed(grown, over)},
         keys \in {Append(Among(order, Task \ {t}), t)} :
      \E gone \in {SubSeq(keys, 1, Forgotten(keys, total))} :
      \E left \in {total - RetainedBy(gone)} :
      \E excess \in {IF left <= MaxBytesTotal THEN 0
                     ELSE Rounds(Len(capped) - 1,
                            {n \in 0..Len(capped) : cappedSize - Freed(capped, n) <= MaxBytesTotal})} :
        /\ events' = [u \in Task |-> CASE u = t -> DropOldest(capped, excess)
                                       [] u \in ToSet(gone) -> <<>>
                                       [] OTHER -> events[u]]
        /\ sizes' = [u \in Task |-> CASE u = t -> cappedSize - Freed(capped, excess)
                                      [] u \in ToSet(gone) -> 0
                                      [] OTHER -> sizes[u]]
        /\ order' = SubSeq(keys, Len(gone) + 1, Len(keys))
        /\ totalBytes' = left - Freed(capped, excess)

\* replay(), earliest_sequence(), latest_sequence()
Replay(t, after) == Among(events[t], {e \in ToSet(events[t]) : e.sequence > after})
Earliest(t) == IF events[t] = <<>> THEN 0 ELSE Head(events[t]).sequence
Latest(t) == IF events[t] = <<>> THEN 0 ELSE Last(events[t]).sequence

\* resolve_resumption()
TruncatedLate(t, after) ==           \* bug: one lost event goes unnoticed
  Earliest(t) # 0 /\ Earliest(t) > after + 2
Truncated(t, after) == Earliest(t) # 0 /\ Earliest(t) > after + 1

CaughtUpTo(missed, after) == IF missed = <<>> THEN after ELSE Last(missed).sequence

------------------------------------------------------------------------------
(* The running byte totals are exactly what is retained: no eviction path  *)
(* forgets to give bytes back, which would starve the log in the long run. *)
AccountingHonest ==
  /\ \A t \in Task : sizes[t] = Bytes(events[t])
  /\ totalBytes = RetainedBy(order)
  /\ \A t \in Task : events[t] # <<>> <=> t \in ToSet(order)

(* The ceilings hold after every append; one oversized event is the sole   *)
(* exception.                                                              *)
CeilingsKept ==
  /\ Len(order) <= MaxTasks
  /\ \A t \in Task : Len(events[t]) <= MaxEventsPerTask
  /\ totalBytes <= MaxBytesTotal \/ \E t \in Task : order = <<t>> /\ Len(events[t]) = 1
==============================================================================

----------------------------- MODULE TaskManager -----------------------------
(***************************************************************************)
(* agentomatic/tasks/manager.py: submit, _run, _finalize, cancel and       *)
(* shutdown as they interleave on one event loop.                          *)
(*                                                                         *)
(* Each task is a coroutine whose program counter pc[t] names the await it *)
(* is suspended at; an action is the code from that await to the next one. *)
(* asyncio.Task.cancel() only schedules CancelledError: interrupt[t] says  *)
(* that the error is due at the await where the coroutine stands, and an   *)
(* interrupted coroutine can take no other step than Interrupt(t).         *)
(*                                                                         *)
(* The record in memory (status, attempts) and the row in the store        *)
(* (stored) are separate: they differ while a save is in flight.           *)
(***************************************************************************)
EXTENDS Integers, Sequences, FiniteSets

CONSTANTS
  Task,            \* task ids
  Caller,          \* HTTP handlers that may be inside manager.cancel()
  MaxConcurrency,  \* permits of TaskManager._semaphore
  MaxAttempts,     \* retry.max_attempts
  MaxCancels,      \* bound: client cancel() calls that pass the status check
  AsyncBackends,   \* TRUE: the store's and event log's awaits suspend (SQL);
                   \* FALSE: they run to completion (the in-memory defaults)
  SaveFails,       \* TRUE: store.save and store.get may raise
  Reporting,       \* tasks whose target calls report_stage_sync
  NoTask           \* "no task": not a member of Task

ASSUME TaskManagerAssumption ==
  /\ MaxConcurrency \in Nat \ {0}
  /\ MaxAttempts \in Nat \ {0}
  /\ MaxCancels \in Nat
  /\ AsyncBackends \in BOOLEAN
  /\ SaveFails \in BOOLEAN
  /\ Reporting \subseteq Task
  /\ NoTask \notin Task

VARIABLES
  status,           \* record.status of the live record
  attempts,         \* record.attempts
  stored,           \* status column of the task's row, "absent" if no row
  pc,               \* the await each task's coroutine is suspended at
  interrupt,        \* is a CancelledError due at that await?
  permits,          \* value of the semaphore
  waiters,          \* FIFO of tasks waiting in `async with self._semaphore`
  holding,          \* tasks inside that block
  cancelRequested,  \* _cancel_requested
  call,             \* open cancel() call per caller: past the read, not yet acting
  cancels,          \* how many client cancel() calls have been made
  acknowledged,     \* history: tasks for which cancel() returned True
  reporting,        \* snapshot taken by a background report whose save is open
  announced,        \* history: terminal events broadcast per task
  posted,           \* history: statuses POSTed to callback_url per task
  phase,            \* progress of shutdown()
  toCancel,         \* ids shutdown() has yet to cancel
  draining          \* tasks shutdown() gathers

coroutines == <<status, attempts, stored, pc, interrupt, announced, posted>>
semaphore == <<permits, waiters, holding>>
cancellation == <<cancelRequested, call, cancels, acknowledged>>
closing == <<phase, toCancel, draining>>
vars == <<coroutines, semaphore, cancellation, closing, reporting>>

Terminal == {"succeeded", "failed", "cancelled"}
Status == {"queued", "running"} \cup Terminal

Saving == {"submit_save", "start_save", "attempt_save", "final_save"}
Emitting == {"submit_emit", "start_emit", "final_emit"}
Finalizing == {"final_save", "final_emit", "webhook"}
PC == Saving \cup Emitting
        \cup {"absent", "ready", "acquire", "dispatch", "backoff", "webhook", "ended"}

\* shutdown() calls cancel() too; it is one more caller.
Shutdown == "shutdown"
Callers == Caller \cup {Shutdown}

\* _running holds a task from its registration until its coroutine is done.
Running == {t \in Task : pc[t] \notin {"absent", "submit_save", "submit_emit", "ended"}}

\* With the in-memory backends a save, an append and a get run without giving
\* up the loop, so nobody else moves between their beginning and their end.
OnlyMover(movers) ==
  AsyncBackends \/ \A t \in Task \ movers : pc[t] \notin Saving \cup Emitting

CanStep(t) ==
  /\ ~interrupt[t]
  /\ OnlyMover({t})
  /\ AsyncBackends \/ \A c \in Callers : call[c] = NoTask

At(t, from) == pc[t] = from /\ CanStep(t)

Goto(t, to) == pc' = [pc EXCEPT ![t] = to]

------------------------------------------------------------------------------
(* Initial state: a fresh manager with an empty store.                     *)

Init ==
  /\ status = [t \in Task |-> "queued"]
  /\ attempts = [t \in Task |-> 0]
  /\ stored = [t \in Task |-> "absent"]
  /\ pc = [t \in Task |-> "absent"]
  /\ interrupt = [t \in Task |-> FALSE]
  /\ permits = MaxConcurrency
  /\ waiters = <<>>
  /\ holding = {}
  /\ cancelRequested = {}
  /\ call = [c \in Callers |-> NoTask]
  /\ cancels = 0
  /\ acknowledged = {}
  /\ reporting = [t \in Task |-> "none"]
  /\ announced = [t \in Task |-> <<>>]
  /\ posted = [t \in Task |-> <<>>]
  /\ phase = "up"
  /\ toCancel = {}
  /\ draining = {}

------------------------------------------------------------------------------
(* submit(): save, emit "queued", then create and register the coroutine.  *)
(* The server accepts no request once the shutdown hooks run.              *)

Submit(t) ==
  /\ At(t, "absent")
  /\ phase = "up"
  /\ Goto(t, "submit_save")
  /\ UNCHANGED <<status, attempts, stored, interrupt, announced, posted>>
  /\ UNCHANGED <<semaphore, cancellation, closing, reporting>>

SubmitSaved(t) ==
  /\ At(t, "submit_save")
  /\ stored' = [stored EXCEPT ![t] = status[t]]
  /\ Goto(t, "submit_emit")
  /\ UNCHANGED <<status, attempts, interrupt, announced, posted>>
  /\ UNCHANGED <<semaphore, cancellation, closing, reporting>>

Register(t) ==
  /\ At(t, "submit_emit")
  /\ Goto(t, "ready")
  /\ UNCHANGED <<status, attempts, stored, interrupt, announced, posted>>
  /\ UNCHANGED <<semaphore, cancellation, closing, reporting>>

------------------------------------------------------------------------------
(* Leaving _run: `async with` gives the permit back on every way out.      *)

\* The queue without t, which stands in it at most once.
Without(queue, t) ==
  IF \E i \in 1..Len(queue) : queue[i] = t
  THEN LET i == CHOOSE i \in 1..Len(queue) : queue[i] = t
       IN  SubSeq(queue, 1, i - 1) \o SubSeq(queue, i + 1, Len(queue))
  ELSE queue

ReleaseUnheld(t) ==      \* bug: a permit is returned even where none was taken
  /\ holding' = holding \ {t}
  /\ permits' = permits + 1
  /\ waiters' = Without(waiters, t)
ReleaseLate(t) ==        \* bug: the permit is returned on the success path only
  /\ holding' = holding \ {t}
  /\ permits' = IF t \in holding /\ status[t] = "succeeded" THEN permits + 1 ELSE permits
  /\ waiters' = Without(waiters, t)
Release(t) ==
  /\ holding' = holding \ {t}
  /\ permits' = IF t \in holding THEN permits + 1 ELSE permits
  /\ waiters' = Without(waiters, t)

Leave(t) ==
  /\ Goto(t, "ended")
  /\ Release(t)
  /\ UNCHANGED <<status, attempts>>

\* _finalize up to its store.save: the live record is terminal at once.
FinalizeUnsaved(t, outcome) ==   \* bug: subscribers hear before the store does
  /\ status' = [status EXCEPT ![t] = outcome]
  /\ Goto(t, "final_emit")
  /\ UNCHANGED <<attempts, semaphore>>
Finalize(t, outcome) ==
  /\ status' = [status EXCEPT ![t] = outcome]
  /\ Goto(t, "final_save")
  /\ UNCHANGED <<attempts, semaphore>>

------------------------------------------------------------------------------
(* _run up to the attempt loop.                                            *)

\* record.id in self._cancel_requested
NeverRechecked(t) == FALSE       \* bug: the flag is not looked at
CancelledBeforeStart(t) == t \in cancelRequested

Admit(t) ==
  /\ permits' = permits - 1
  /\ holding' = holding \cup {t}
  /\ status' = [status EXCEPT ![t] = IF CancelledBeforeStart(t) THEN "cancelled" ELSE "running"]
  /\ Goto(t, IF CancelledBeforeStart(t) THEN "final_save" ELSE "start_save")

PermitFree == permits > 0

Start(t) ==
  /\ At(t, "ready")
  /\ \/ /\ CancelledBeforeStart(t)
        /\ Finalize(t, "cancelled")
     \/ /\ ~CancelledBeforeStart(t)
        /\ PermitFree /\ waiters = <<>>
        /\ Admit(t)
        /\ UNCHANGED <<attempts, waiters>>
     \/ /\ ~CancelledBeforeStart(t)
        /\ ~(PermitFree /\ waiters = <<>>)
        /\ waiters' = Append(waiters, t)
        /\ Goto(t, "acquire")
        /\ UNCHANGED <<status, attempts, permits, holding>>
  /\ UNCHANGED <<stored, interrupt, announced, posted>>
  /\ UNCHANGED <<cancellation, closing, reporting>>

Acquire(t) ==
  /\ At(t, "acquire")
  /\ PermitFree
  /\ waiters # <<>> /\ Head(waiters) = t
  /\ waiters' = Tail(waiters)
  /\ Admit(t)
  /\ UNCHANGED <<attempts, stored, interrupt, announced, posted>>
  /\ UNCHANGED <<cancellation, closing, reporting>>

StartSaved(t) ==
  /\ At(t, "start_save")
  /\ stored' = [stored EXCEPT ![t] = status[t]]
  /\ Goto(t, "start_emit")
  /\ UNCHANGED <<status, attempts, interrupt, announced, posted>>
  /\ UNCHANGED <<semaphore, cancellation, closing, reporting>>

NextAttempt(t) ==
  /\ attempts' = [attempts EXCEPT ![t] = @ + 1]
  /\ Goto(t, "attempt_save")

StartEmitted(t) ==
  /\ At(t, "start_emit")
  /\ NextAttempt(t)
  /\ UNCHANGED <<status, stored, interrupt, announced, posted>>
  /\ UNCHANGED <<semaphore, cancellation, closing, reporting>>

------------------------------------------------------------------------------
(* The attempt loop.                                                       *)

AttemptSaved(t) ==
  /\ At(t, "attempt_save")
  /\ stored' = [stored EXCEPT ![t] = status[t]]
  /\ Goto(t, "dispatch")
  /\ UNCHANGED <<status, attempts, interrupt, announced, posted>>
  /\ UNCHANGED <<semaphore, cancellation, closing, reporting>>

OneMoreAttempt(t) == attempts[t] <= MaxAttempts   \* bug: off by one
AttemptsLeft(t) == attempts[t] < MaxAttempts

\* except Exception: sleep before the next attempt, or FAILED after the last.
AttemptFailed(t) ==
  \/ /\ AttemptsLeft(t)
     /\ Goto(t, "backoff")
     /\ UNCHANGED <<status, attempts, semaphore>>
  \/ /\ ~AttemptsLeft(t)
     /\ Finalize(t, "failed")

Dispatched(t) ==
  /\ At(t, "dispatch")
  /\ \/ Finalize(t, "succeeded")
     \/ AttemptFailed(t)
  /\ UNCHANGED <<stored, interrupt, announced, posted>>
  /\ UNCHANGED <<cancellation, closing, reporting>>

BackoffOver(t) ==
  /\ At(t, "backoff")
  /\ NextAttempt(t)
  /\ UNCHANGED <<status, stored, interrupt, announced, posted>>
  /\ UNCHANGED <<semaphore, cancellation, closing, reporting>>

------------------------------------------------------------------------------
(* _finalize after its save, _emit of the terminal event, _fire_webhook.   *)

FinalSaved(t) ==
  /\ At(t, "final_save")
  /\ stored' = [stored EXCEPT ![t] = status[t]]
  /\ cancelRequested' = cancelRequested \ {t}
  /\ Goto(t, "final_emit")
  /\ UNCHANGED <<status, attempts, interrupt, announced, posted>>
  /\ UNCHANGED <<call, cancels, acknowledged>>
  /\ UNCHANGED <<semaphore, closing, reporting>>

FinalEmitted(t) ==
  /\ At(t, "final_emit")
  /\ announced' = [announced EXCEPT ![t] = Append(@, status[t])]
  /\ Goto(t, "webhook")
  /\ UNCHANGED <<status, attempts, stored, interrupt, posted>>
  /\ UNCHANGED <<semaphore, cancellation, closing, reporting>>

\* The POST is best effort: it arrived or it did not.
WebhookDone(t) ==
  /\ At(t, "webhook")
  /\ posted' \in {posted, [posted EXCEPT ![t] = Append(@, status[t])]}
  /\ Leave(t)
  /\ UNCHANGED <<stored, interrupt, announced>>
  /\ UNCHANGED <<cancellation, closing, reporting>>

------------------------------------------------------------------------------
(* Failures and CancelledError.                                            *)

\* SUCCEEDED is the one outcome finalized inside the try block.
InTryAnyOutcome(t) == pc[t] \in {"dispatch"} \cup Finalizing   \* bug: a wider try block
InTryOnceReturned(t) == pc[t] \in Finalizing /\ status[t] = "succeeded"   \* bug: a narrower one
InTry(t) ==
  \/ pc[t] = "dispatch"
  \/ pc[t] \in Finalizing /\ status[t] = "succeeded"

\* A failed save raises out of _run, unless the except clause sees it.
SaveFailed(t) ==
  /\ SaveFails
  /\ pc[t] \in Saving /\ CanStep(t)
  /\ IF InTry(t) THEN AttemptFailed(t) ELSE Leave(t)
  /\ UNCHANGED <<stored, interrupt, announced, posted>>
  /\ UNCHANGED <<cancellation, closing, reporting>>

\* CancelledError at the current await. A save or a POST it cuts short may
\* have taken effect already.
Interrupt(t) ==
  /\ interrupt[t]
  /\ OnlyMover({t})
  /\ AsyncBackends \/ \A c \in Callers : call[c] = NoTask
  /\ interrupt' = [interrupt EXCEPT ![t] = FALSE]
  /\ IF InTry(t) THEN Finalize(t, "cancelled") ELSE Leave(t)
  /\ \/ UNCHANGED <<stored, posted>>
     \/ /\ pc[t] \in Saving
        /\ stored' = [stored EXCEPT ![t] = status[t]]
        /\ UNCHANGED posted
     \/ /\ pc[t] = "webhook"
        /\ posted' = [posted EXCEPT ![t] = Append(@, status[t])]
        /\ UNCHANGED stored
  /\ UNCHANGED announced
  /\ UNCHANGED <<cancellation, closing, reporting>>

------------------------------------------------------------------------------
(* report_stage_sync(): a background report saves a snapshot of the record *)
(* on its own. The memory store keeps the live record itself; the SQL      *)
(* store's UPDATE writes what the snapshot says over whatever another save *)
(* committed since.                                                        *)

ReportBegin(t) ==
  /\ t \in Reporting
  /\ reporting[t] = "none"
  /\ At(t, "dispatch")
  /\ reporting' = [reporting EXCEPT ![t] = status[t]]
  /\ UNCHANGED <<coroutines, semaphore, cancellation, closing>>

ReportSaved(t) ==
  /\ reporting[t] # "none"
  /\ OnlyMover({})
  /\ LET written == [stored EXCEPT ![t] = IF AsyncBackends THEN reporting[t] ELSE status[t]]
     IN  stored' \in {written} \cup {row \in {stored} : SaveFails}
  /\ reporting' = [reporting EXCEPT ![t] = "none"]
  /\ UNCHANGED <<status, attempts, pc, interrupt, announced, posted>>
  /\ UNCHANGED <<semaphore, cancellation, closing>>

------------------------------------------------------------------------------
(* cancel(): read the row, and act on the answer after the await.          *)

CancellableAtAll(t) == stored[t] # "absent"        \* bug: no terminal check
CancellableQueued(t) == stored[t] = "queued"       \* bug: running tasks are left alone
Cancellable(t) == stored[t] \notin Terminal \cup {"absent"}

\* A read that raises, or finds a terminal row, ends the request and nothing else.
CancelRead(c, t) ==
  /\ phase = "up"
  /\ call[c] = NoTask
  /\ cancels < MaxCancels
  /\ Cancellable(t)
  /\ OnlyMover({})
  /\ AsyncBackends \/ \A d \in Callers : call[d] = NoTask
  /\ call' = [call EXCEPT ![c] = t]
  /\ cancels' = cancels + 1
  /\ UNCHANGED <<cancelRequested, acknowledged>>
  /\ UNCHANGED <<coroutines, semaphore, closing, reporting>>

\* _cancel_requested.add, then aio_task.cancel() if the task is registered.
CancelAct(c) ==
  /\ call[c] # NoTask
  /\ LET t == call[c] IN
       /\ cancelRequested' = cancelRequested \cup {t}
       /\ acknowledged' = acknowledged \cup {t}
       /\ interrupt' = [interrupt EXCEPT ![t] = @ \/ t \in Running]
  /\ call' = [call EXCEPT ![c] = NoTask]
  /\ UNCHANGED cancels
  /\ UNCHANGED <<status, attempts, stored, pc, announced, posted>>
  /\ UNCHANGED <<semaphore, closing, reporting>>

------------------------------------------------------------------------------
(* shutdown(): cancel what is running, gather it, close the store.         *)

BeginShutdown ==
  /\ phase = "up"
  /\ \A t \in Task : pc[t] \notin {"submit_save", "submit_emit"}
  /\ \A c \in Callers : call[c] = NoTask
  /\ OnlyMover({})
  /\ phase' = "cancelling"
  /\ toCancel' = Running
  /\ draining' = Running
  /\ UNCHANGED <<coroutines, semaphore, cancellation, reporting>>

ShutdownCancel(t) ==
  /\ phase = "cancelling"
  /\ t \in toCancel
  /\ call[Shutdown] = NoTask
  /\ OnlyMover({})
  /\ toCancel' = toCancel \ {t}
  /\ call' = IF Cancellable(t) THEN [call EXCEPT ![Shutdown] = t] ELSE call
  /\ UNCHANGED <<phase, draining, cancelRequested, cancels, acknowledged>>
  /\ UNCHANGED <<coroutines, semaphore, reporting>>

\* In shutdown() a read that raises ends it: what is left is neither cancelled
\* nor gathered, and the store stays open. The lifespan only logs the error.
ShutdownFails ==
  /\ SaveFails
  /\ phase = "cancelling"
  /\ toCancel # {} /\ call[Shutdown] = NoTask
  /\ OnlyMover({})
  /\ phase' = "failed"
  /\ UNCHANGED <<toCancel, draining>>
  /\ UNCHANGED <<coroutines, semaphore, cancellation, reporting>>

GatherSkipped == TRUE            \* bug: the store is closed without waiting
Gathered == draining \cap Running = {}

CloseStore ==
  /\ phase = "cancelling"
  /\ toCancel = {} /\ call[Shutdown] = NoTask
  /\ Gathered
  /\ phase' = "closed"
  /\ UNCHANGED <<toCancel, draining>>
  /\ UNCHANGED <<coroutines, semaphore, cancellation, reporting>>

------------------------------------------------------------------------------
\* The awaits that end by themselves: I/O, timers, the permit's hand-over.
Proceed(t) ==
  \/ SubmitSaved(t) \/ Register(t) \/ Start(t) \/ Acquire(t)
  \/ StartSaved(t) \/ StartEmitted(t) \/ AttemptSaved(t) \/ BackoffOver(t)
  \/ FinalSaved(t) \/ FinalEmitted(t) \/ WebhookDone(t)
  \/ SaveFailed(t) \/ Interrupt(t)

ShutdownStep == CloseStore \/ \E t \in Task : ShutdownCancel(t)

Next ==
  \/ \E t \in Task : Submit(t) \/ Proceed(t) \/ Dispatched(t)
  \/ \E t \in Task : ReportBegin(t) \/ ReportSaved(t)
  \/ \E c \in Caller, t \in Task : CancelRead(c, t)
  \/ \E c \in Callers : CancelAct(c)
  \/ BeginShutdown
  \/ ShutdownStep
  \/ ShutdownFails

(* The event loop runs every coroutine that is due; store, event log and   *)
(* webhook calls end (the webhook by its 10 s timeout). Nothing makes a    *)
(* target return, a client call, or the process shut down.                 *)
Fairness ==
  /\ \A t \in Task : WF_vars(Proceed(t))
  /\ \A c \in Callers : WF_vars(CancelAct(c))
  /\ WF_vars(ShutdownStep)

Spec == Init /\ [][Next]_vars /\ Fairness
------------------------------------------------------------------------------
(* Properties.                                                             *)

TypeOK ==
  /\ status \in [Task -> Status]
  /\ attempts \in [Task -> 0..MaxAttempts]
  /\ stored \in [Task -> Status \cup {"absent"}]
  /\ pc \in [Task -> PC]
  /\ interrupt \in [Task -> BOOLEAN]
  /\ permits \in 0..MaxConcurrency
  /\ waiters \in Seq(Task)
  /\ holding \subseteq Task
  /\ cancelRequested \subseteq Task
  /\ call \in [Callers -> Task \cup {NoTask}]
  /\ cancels \in 0..MaxCancels
  /\ acknowledged \subseteq Task
  /\ reporting \in [Task -> Status \cup {"none"}]
  /\ announced \in [Task -> Seq(Terminal)]
  /\ posted \in [Task -> Seq(Terminal)]
  /\ phase \in {"up", "cancelling", "closed", "failed"}
  /\ toCancel \subseteq Task
  /\ draining \subseteq Task

\* pcs that lie inside `async with self._semaphore` whatever the history.
InsideSlot == {"start_save", "start_emit", "attempt_save", "dispatch", "backoff"}

(* The semaphore caps the tasks being executed, and no way out of _run -   *)
(* return, error, failed save, cancellation at any await - leaks a permit  *)
(* or gives one back twice.                                                *)
PermitsConserved ==
  /\ permits + Cardinality(holding) = MaxConcurrency
  /\ \A t \in Task : pc[t] \in InsideSlot => t \in holding
  /\ \A t \in holding : pc[t] \in InsideSlot \cup Finalizing

(* Once cancel() has put a task into _cancel_requested its target is never *)
(* invoked (again), wherever the coroutine stood: before the semaphore, in *)
(* a save, or asleep between two attempts.                                 *)
NoDispatchAfterCancel ==
  [][\A t \in cancelRequested : pc[t] # "dispatch" => pc'[t] # "dispatch"]_vars

(* When shutdown() closes the store no task coroutine is left that could   *)
(* still save to it: the race the docstring of shutdown() describes.       *)
ClosedStoreIsQuiet == phase = "closed" => Running = {}

(* shutdown() itself always finishes, without any help from the targets:   *)
(* every task it waits for is interrupted or already past its target.      *)
ShutdownCompletes == phase = "cancelling" ~> phase = "closed"

(* If targets keep returning, every registered task gets its permit, uses  *)
(* up its attempts and ends: nobody is starved by the queue.               *)
EveryTaskEnds ==
  (\A t \in Task : []<>(pc[t] # "dispatch"))
    => \A t \in Task : pc[t] = "ready" ~> pc[t] = "ended"

(* models.py, TaskStatus.is_terminal: "no further transitions are          *)
(* possible", read on the row that clients and restarts see.               *)
TerminalIsFinal ==
  [][\A t \in Task : stored[t] \in Terminal => stored'[t] = stored[t]]_vars

(* The part of it that survives a store whose calls suspend: only          *)
(* SUCCEEDED is finalized inside the try block, so only it can be undone,  *)
(* unless a background report still has an older snapshot to write.        *)
FailedAndCancelledAreFinal ==
  [][\A t \in Task :
       stored[t] \in {"failed", "cancelled"} /\ reporting[t] = "none"
         => stored'[t] = stored[t]]_vars

(* A coroutine that ended with a terminal row has broadcast exactly that   *)
(* status, once, and POSTed at most that.                                  *)
OutcomeAnnouncedOnce ==
  \A t \in Task :
    pc[t] = "ended" /\ stored[t] \in Terminal =>
      /\ announced[t] = <<stored[t]>>
      /\ posted[t] \in {<<>>, <<stored[t]>>}

(* cancel() on a task whose target is executing ends in a CANCELLED row.   *)
RunningCancelTakesEffect ==
  \A t \in Task :
    (t \in acknowledged /\ pc[t] = "dispatch") ~> stored[t] = "cancelled"

(* docs/guide/tasks.md:290 and cancel()'s docstring ("a queued or running  *)
(* task"): after cancel() answered True the record reaches a terminal      *)
(* status; it must have one when the coroutine is gone.                    *)
AcknowledgedCancelEndsRecord ==
  \A t \in acknowledged : pc[t] = "ended" => stored[t] \in Terminal

(* The strengthening of PermitsConserved: what is finalized without a      *)
(* permit is a task cancelled before it started.                           *)
SlotInv ==
  /\ IsFiniteSet(holding)
  /\ PermitsConserved
  /\ \A t \in Task : pc[t] \in Finalizing /\ status[t] = "succeeded" => t \in holding

(* Why no target is invoked after a cancel: a flagged coroutine that could *)
(* still reach its dispatcher has CancelledError due.                      *)
CancelInv ==
  \A t \in cancelRequested :
    \/ pc[t] \in InsideSlot
    \/ pc[t] \in Finalizing /\ status[t] = "succeeded"
    => interrupt[t]

(* Why gathering the snapshot is enough: once shutdown() has begun nothing *)
(* is submitted, so the snapshot covers every coroutine.                   *)
DrainInv ==
  /\ phase # "up" => /\ Running \subseteq draining
                     /\ \A t \in Task : pc[t] \notin {"submit_save", "submit_emit"}
  /\ phase = "closed" => Running = {}

(* With backends that do not suspend, the rows and the broadcast events    *)
(* implement the lifecycle of models.py:22-41.                             *)
Lifecycle == INSTANCE TaskLifecycle WITH state <- stored, told <- announced
ImplementsLifecycle == Lifecycle!Spec
==============================================================================

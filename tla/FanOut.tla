------------------------------- MODULE FanOut -------------------------------
(***************************************************************************)
(* One call that runs many: a batch task (tasks/manager.py, _run_batch), a *)
(* map step and a parallel step of a pipeline (pipelines/steps.py). Each   *)
(* item runs in a coroutine of its own, under a semaphore; the coordinator *)
(* gathers what they return.                                               *)
(*                                                                         *)
(* Only a batch has more than one round: the task retries its attempt when *)
(* a progress report fails. A job is an item of a round.                   *)
(***************************************************************************)
EXTENDS FiniteSets, Naturals

CONSTANTS
  Item,          \* the elements of the batch or list, or the branches
  Limit,         \* batch_concurrency, max_concurrency
  MaxAttempts,   \* RetryConfig.max_attempts of a map step's items
  MaxRounds,     \* RetryConfig.max_attempts of a batch task
  SaveFails,     \* whether the task's store may fail
  TargetCounts,  \* the counts that targets report, if they report any
  MaxAside,      \* bound: reports of targets under way at a time
  None

ASSUME FanOutAssumption ==
  /\ IsFiniteSet(Item) /\ Item # {}
  /\ Limit \in Nat \ {0}
  /\ MaxAttempts \in Nat \ {0}
  /\ MaxRounds \in Nat \ {0}
  /\ SaveFails \in BOOLEAN
  /\ TargetCounts \subseteq Nat
  /\ MaxAside \in Nat
  /\ None \notin Item \cup {"ok", "failed"}

VARIABLES
  kind,        \* "batch", "map" or "parallel"
  strategy,    \* ParallelStrategy
  fallback,    \* whether a map step has a fallback agent
  counts,      \* the counts that the targets of this call report
  round,       \* of the task's attempts, the one under way
  step,        \* the coordinator: "running", "cancelling", or how it ended
  job,         \* where each job stands
  tries,       \* attempts a job has made
  result,      \* what a job came to
  told,        \* jobs that were cancelled and have not seen it yet
  seen,        \* jobs whose result the coordinator has taken
  calling,     \* the item whose callbacks a map step is waiting for
  done,        \* the count of finished items, per round
  aside,       \* reports of targets that are being saved
  progress,    \* record.progress.current
  emitted      \* the count in the last progress event

config == <<kind, strategy, fallback, counts>>
vars == <<config, round, step, job, tries, result, told, seen, calling, done, aside, progress, emitted>>

Round == 1..MaxRounds
Job == Round \X Item

\* A job in one of these holds a permit of its round's semaphore.
Holding == {"running", "backoff", "fallback", "counting", "reporting"}
Ended == {"ok", "failed", "cancelled"}

Init ==
  /\ kind \in {"batch", "map", "parallel"}
  /\ strategy \in IF kind = "batch" THEN {"all"} ELSE {"all", "first", "majority"}
  /\ fallback \in IF kind = "map" THEN BOOLEAN ELSE {FALSE}
  /\ counts \in {{}, TargetCounts}
  /\ round = 1
  /\ step = "running"
  /\ job = [j \in Job |-> IF j[1] = 1 THEN "waiting" ELSE "idle"]
  /\ tries = [j \in Job |-> 0]
  /\ result = [j \in Job |-> None]
  /\ told = {}
  /\ seen = {}
  /\ calling = None
  /\ done = [n \in Round |-> 0]
  /\ aside = 0
  /\ progress = 0
  /\ emitted = 0

Current == {round} \X Item
Working == {j \in Job : job[j] \notin Ended \cup {"idle"}}
Over == step \notin {"running", "cancelling"}

Move(j, to) == job' = [job EXCEPT ![j] = to]

Finish(j, outcome) ==
  /\ Move(j, outcome)
  /\ result' = [result EXCEPT ![j] = outcome]

------------------------------------------------------------------------------
(* A job.                                                                  *)

Permits(n) == Cardinality({i \in Item : job[<<n, i>>] \in Holding})

\* A batch item looks at ctx.cancelled once it has its permit.
Acquire(j) ==
  /\ job[j] = "waiting" /\ j \notin told
  /\ Permits(j[1]) < Limit
  /\ IF kind = "batch" /\ step \in {"cancelling", "cancelled"}
       THEN Move(j, "cancelled") /\ UNCHANGED tries
       ELSE Move(j, "running") /\ tries' = [tries EXCEPT ![j] = 1]
  /\ UNCHANGED <<config, round, step, result, told, seen, calling, done, aside, progress, emitted>>

\* A dispatcher's error is an item's result too: the item counts either way.
BatchItemReturns(j) ==
  /\ kind = "batch" /\ job[j] = "running" /\ j \notin told
  /\ Move(j, "counting")
  /\ UNCHANGED <<config, round, step, tries, result, told, seen, calling, done, aside, progress, emitted>>

\* bug: the count is not kept under the lock.
bugNobodyReports(n) == TRUE

NobodyReports(n) == \A i \in Item : job[<<n, i>>] # "reporting"

\* Under the lock: count, set the record's progress, and wait for its save.
Report(j) ==
  /\ job[j] = "counting" /\ j \notin told
  /\ NobodyReports(j[1])
  /\ done' = [done EXCEPT ![j[1]] = @ + 1]
  /\ progress' = done[j[1]] + 1
  /\ Move(j, "reporting")
  /\ UNCHANGED <<config, round, step, tries, result, told, seen, calling, aside, emitted>>

\* The save returned: the event that is emitted shows the record as it is.
Reported(j) ==
  /\ job[j] = "reporting" /\ j \notin told
  /\ emitted' = progress
  /\ Finish(j, "ok")
  /\ UNCHANGED <<config, round, step, tries, told, seen, calling, done, aside, progress>>

\* The save raised, and gather hands the error to the coordinator at once. The
\* attempt ends, and the other items go on. Of an earlier round nobody hears.
ReportFails(j) ==
  /\ SaveFails /\ job[j] = "reporting" /\ j \notin told
  /\ IF j[1] # round \/ step # "running"
       THEN Move(j, "failed") /\ UNCHANGED <<round, step>>
       ELSE IF round = MaxRounds
              THEN Move(j, "failed") /\ step' = "failed" /\ UNCHANGED round
              ELSE /\ round' = round + 1
                   /\ job' = [k \in Job |-> IF k[1] = round + 1 THEN "waiting"
                                            ELSE IF k = j THEN "failed" ELSE job[k]]
                   /\ UNCHANGED step
  /\ UNCHANGED <<config, tries, result, told, seen, calling, done, aside, progress, emitted>>

\* The target of an item that has begun reports too (its dispatcher, the callbacks
\* of a pipeline, report_stage in an agent), outside the lock. It may give a count
\* of its own or leave the record's as it is. Synchronous code does it in a
\* coroutine that the item does not wait for and that may begin and end after it.
TargetReports ==
  /\ \E j \in Job : tries[j] > 0
  /\ aside < MaxAside
  /\ progress' \in {progress} \cup counts
  /\ aside' = aside + 1
  /\ UNCHANGED <<config, round, step, job, tries, result, told, seen, calling, done, emitted>>

\* Nothing is emitted when the save raised or the item was cancelled in it.
TargetReported ==
  /\ aside > 0
  /\ aside' = aside - 1
  /\ \/ emitted' = progress
     \/ (SaveFails \/ \E j \in Job : job[j] = "cancelled") /\ UNCHANGED emitted
  /\ UNCHANGED <<config, round, step, job, tries, result, told, seen, calling, done, progress>>

\* bug: the permit is given back only when the branch succeeds.
bugReleased(outcome) == IF outcome = "failed" THEN "backoff" ELSE outcome

Released(outcome) == outcome

BranchReturns(j) ==
  /\ kind = "parallel" /\ job[j] = "running" /\ j \notin told
  /\ \E outcome \in {"ok", "failed"} :
       /\ Move(j, Released(outcome))
       /\ result' = [result EXCEPT ![j] = outcome]
  /\ UNCHANGED <<config, round, step, tries, told, seen, calling, done, aside, progress, emitted>>

\* execute_with_retry, without giving up the permit between two attempts.
MapItemReturns(j) ==
  /\ kind = "map" /\ job[j] = "running" /\ j \notin told
  /\ \/ Finish(j, "ok")
     \/ tries[j] < MaxAttempts /\ Move(j, "backoff") /\ UNCHANGED result
     \/ tries[j] = MaxAttempts /\ fallback /\ Move(j, "fallback") /\ UNCHANGED result
     \/ tries[j] = MaxAttempts /\ ~fallback /\ Finish(j, "failed")
  /\ UNCHANGED <<config, round, step, tries, told, seen, calling, done, aside, progress, emitted>>

MapItemRetries(j) ==
  /\ kind = "map" /\ job[j] = "backoff" /\ j \notin told
  /\ Move(j, "running")
  /\ tries' = [tries EXCEPT ![j] = @ + 1]
  /\ UNCHANGED <<config, round, step, result, told, seen, calling, done, aside, progress, emitted>>

FallbackReturns(j) ==
  /\ job[j] = "fallback" /\ j \notin told
  /\ Finish(j, "ok") \/ Finish(j, "failed")
  /\ UNCHANGED <<config, round, step, tries, told, seen, calling, done, aside, progress, emitted>>

\* A cancellation reaches a job at the await it stands at.
Unwind(j) ==
  /\ j \in told
  /\ told' = told \ {j}
  /\ Move(j, "cancelled")
  /\ result' = [result EXCEPT ![j] = None]
  /\ UNCHANGED <<config, round, step, tries, seen, calling, done, aside, progress, emitted>>

------------------------------------------------------------------------------
(* The coordinator.                                                        *)

\* asyncio.gather returns once every job has.
Gathers == kind = "batch" \/ (kind = "parallel" /\ strategy # "first")

Succeeded == {j \in IF Gathers THEN Current ELSE seen : result[j] = "ok"}

\* bug: half of them, rounded down, is a majority.
bugEarned ==
  CASE strategy = "all" -> Succeeded = Current
    [] strategy = "first" -> Succeeded # {}
    [] strategy = "majority" -> Cardinality(Succeeded) >= Cardinality(Item) \div 2

Earned ==
  CASE strategy = "all" -> Succeeded = Current
    [] strategy = "first" -> Succeeded # {}
    [] strategy = "majority" -> 2 * Cardinality(Succeeded) > Cardinality(Item)

\* asyncio.wait and as_completed give the jobs in the order they finish; a map
\* step then waits for its two callbacks.
Take(j) ==
  /\ step = "running" /\ j \in Current \ seen
  /\ kind = "map" \/ (~Gathers /\ Succeeded = {})
  /\ calling = None
  /\ job[j] \in Ended
  /\ seen' = seen \cup {j}
  /\ IF kind = "map"
       THEN calling' = j[2] /\ progress' = Cardinality(seen) + 1
       ELSE UNCHANGED <<calling, progress>>
  /\ UNCHANGED <<config, round, step, job, tries, result, told, done, aside, emitted>>

\* Whether or not the callbacks raised; if both did, nothing was emitted.
CalledBack ==
  /\ step = "running" /\ calling # None
  /\ calling' = None
  /\ \/ emitted' = progress
     \/ SaveFails /\ UNCHANGED emitted
  /\ UNCHANGED <<config, round, step, job, tries, result, told, seen, done, aside, progress>>

End ==
  /\ step = "running" /\ calling = None
  /\ \/ Gathers /\ Current \cap Working = {}
     \/ ~Gathers /\ seen = Current
     \/ kind = "parallel" /\ strategy = "first" /\ Succeeded # {}
  /\ step' = IF kind = "batch" \/ Earned THEN "ok" ELSE "failed"
  /\ UNCHANGED <<config, round, job, tries, result, told, seen, calling, done, aside, progress, emitted>>

\* bug: a map step that is cancelled leaves its items alone.
bugToldToStop == IF Gathers THEN Current \cap Working ELSE {}

\* gather cancels the jobs it waits for and asyncio.wait's caller those that
\* are pending; nobody cancels the branches of as_completed.
ToldToStop == IF Gathers \/ kind = "map" THEN Current \cap Working ELSE {}

\* Cancellation of the task, or the pipeline's timeout. gather goes on waiting
\* until the first of its jobs is cancelled, the other two do not.
Cancel ==
  /\ step = "running"
  /\ told' = told \cup ToldToStop
  /\ step' = IF Gathers THEN "cancelling" ELSE "cancelled"
  /\ UNCHANGED <<config, round, job, tries, result, seen, calling, done, aside, progress, emitted>>

Cancelled ==
  /\ step = "cancelling"
  /\ Current \cap Working = {} \/ \E j \in Current : job[j] = "cancelled"
  /\ step' = "cancelled"
  /\ UNCHANGED <<config, round, job, tries, result, told, seen, calling, done, aside, progress, emitted>>

\* What the coroutine of a job does by itself.
JobStep(j) ==
  \/ Acquire(j)
  \/ BatchItemReturns(j) \/ Report(j) \/ Reported(j)
  \/ BranchReturns(j)
  \/ MapItemReturns(j) \/ MapItemRetries(j) \/ FallbackReturns(j)
  \/ Unwind(j)

\* What the coordinator does by itself.
Coordinate == (\E j \in Job : Take(j)) \/ CalledBack \/ End \/ Cancelled

Next ==
  \/ \E j \in Job : JobStep(j) \/ ReportFails(j)
  \/ TargetReports \/ TargetReported
  \/ Coordinate
  \/ Cancel

\* The event loop runs what is due. Agents and dispatchers return (item_timeout
\* ends those that do not), saves and callbacks too; nobody has to cancel, and no
\* target has to report or to be done with it.
Fairness == WF_vars(Coordinate \/ \E j \in Job : JobStep(j))

Spec == Init /\ [][Next]_vars /\ Fairness

------------------------------------------------------------------------------
(* Properties.                                                             *)

\* Every variable holds a value of its kind.
TypeOK ==
  /\ kind \in {"batch", "map", "parallel"}
  /\ strategy \in {"all", "first", "majority"}
  /\ fallback \in BOOLEAN
  /\ counts \subseteq TargetCounts
  /\ round \in Round
  /\ step \in {"running", "cancelling", "ok", "failed", "cancelled"}
  /\ job \in [Job -> Holding \cup Ended \cup {"idle", "waiting"}]
  /\ tries \in [Job -> Nat]
  /\ result \in [Job -> {None, "ok", "failed"}]
  /\ told \subseteq Job
  /\ seen \subseteq Job
  /\ calling \in Item \cup {None}
  /\ done \in [Round -> Nat]
  /\ aside \in Nat
  /\ progress \in Nat
  /\ emitted \in Nat

\* How many successes a strategy asks for.
Needed ==
  CASE strategy = "all" -> Cardinality(Item)
    [] strategy = "first" -> 1
    [] strategy = "majority" -> Cardinality(Item) \div 2 + 1

Count(outcome) == Cardinality({j \in Current : job[j] = outcome})

\* The status of a map or parallel step is final: it succeeded when enough of
\* its items did, and failed when those still at work could not make it succeed.
\* A batch that succeeded has counted a result of every item.
StatusIsEarned ==
  /\ step = "ok" /\ kind # "batch" => Count("ok") >= Needed
  /\ step = "failed" /\ kind # "batch" => Cardinality(Item) - Count("failed") < Needed
  /\ step = "ok" /\ kind = "batch" => done[round] = Cardinality(Item)

\* Nothing goes on working for a call that is over unless it was told to stop,
\* but the slower branches of strategy "first" and the items of a batch whose
\* report failed.
StragglersWereTold ==
  Over /\ (Gathers \/ kind = "map") =>
    \A j \in Working : j \in told \/ (kind = "batch" /\ (step = "failed" \/ j[1] < round))

\* As long as no target gives counts of its own and no report of the task has
\* failed, the count in the progress events of a batch only ever goes up by one,
\* however many items end at the same time and whatever else is reported between
\* an item's save and its event (the lock around `done` and the report of
\* _run_batch). The count of a map step never goes back.
EventsCountUp ==
  [][counts = {} /\ round = 1 /\ step # "failed" /\ emitted' # emitted =>
       IF kind = "batch" THEN emitted' = emitted + 1 ELSE emitted' > emitted]_vars

\* The call ends, and so does every job, whatever fails and whoever cancels.
AllEnds == <>[](Over /\ Working = {})

\* The progress events of a batch show how many of its items are finished.
EventsCountItems == [][kind = "batch" /\ emitted' # emitted => emitted' = done[round]]_vars

\* _run_batch: "Run every item in a batch with bounded concurrency".
BoundedConcurrency == Cardinality({j \in Job : job[j] \in Holding}) <= Limit
=============================================================================

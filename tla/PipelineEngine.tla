---------------------------- MODULE PipelineEngine ----------------------------
(***************************************************************************)
(* agentomatic/pipelines/engine.py: one PipelineEngine.run, with           *)
(* execute_with_retry of steps.py. Steps are executed one at a time in the *)
(* order of StepOrder; what a step returns, what a condition evaluates to, *)
(* whether a rollback block raises and when the pipeline's timeout fires   *)
(* are choices of the environment.                                         *)
(***************************************************************************)
EXTENDS StepOrder, FiniteSets

CONSTANTS
  Pipelines,    \* the pipelines to run (subset of PipelineConfig)
  MaxAttempts,  \* retry.max_attempts
  TimesOut      \* TRUE: the pipeline's own timeout may fire

Policy == {"fail", "skip", "retry", "fallback"}

PipelineConfig ==
  [upstreams   : Upstreams,
   policy      : [Step -> Policy],                       \* step on_error
   onError     : {"fail_fast", "continue", "rollback"},  \* pipeline on_error
   conditional : SUBSET Step,    \* steps with a condition
   retried     : SUBSET Step,    \* steps with a retry config
   nested      : SUBSET Step,    \* sub_pipeline steps
   rollback    : SUBSET Step,    \* steps with a rollback block
   strict      : BOOLEAN]        \* strict_schema

ASSUME PipelineAssumption ==
  /\ Pipelines \subseteq PipelineConfig
  /\ MaxAttempts \in Nat \ {0}
  /\ TimesOut \in BOOLEAN

VARIABLES
  pipeline,      \* self.config
  phase,         \* where run() stands
  order,         \* ordered_steps
  position,      \* exec_pos, from 1
  results,       \* pipeline_result.steps: status per step, "none" if it has none
  unsuccessful,  \* unsuccessful_steps
  attempt,       \* attempts execute_with_retry has made at the current step
  status,        \* pipeline_result.status
  error,         \* what pipeline_result.error is about
  undo,          \* succeeded steps _run_rollbacks has yet to visit
  undone,        \* history: rollback blocks executed, in order
  failures       \* history: steps that failed, whatever became of their result

config == <<pipeline, order>>
outcome == <<results, unsuccessful, failures>>
verdict == <<status, error>>
compensation == <<undo, undone>>
vars == <<config, phase, position, outcome, attempt, verdict, compensation>>

Init ==
  /\ pipeline \in Pipelines
  /\ phase = "input"
  /\ order = <<>>
  /\ position = 1
  /\ results = [s \in Step |-> "none"]
  /\ unsuccessful = {}
  /\ attempt = 0
  /\ status = "running"
  /\ error = "none"
  /\ undo = <<>>
  /\ undone = <<>>
  /\ failures = {}

Current == order[position]
AtLoop == phase = "loop" /\ position <= StepCount

------------------------------------------------------------------------------
(* run() up to the loop.                                                   *)

RejectInput ==
  /\ phase = "input"
  /\ pipeline.strict
  /\ status' = "failed" /\ error' = "schema"
  /\ phase' = "ended"
  /\ UNCHANGED <<config, position, outcome, attempt, compensation>>

Begin ==
  /\ phase = "input"
  /\ order' = ExecutionOrder(pipeline.upstreams)
  /\ IF Schedulable(pipeline.upstreams)
     THEN phase' = "loop" /\ UNCHANGED verdict
     ELSE phase' = "returned" /\ status' = "failed" /\ error' = "ordering"
  /\ UNCHANGED <<pipeline, position, outcome, attempt, compensation>>

------------------------------------------------------------------------------
(* The loop of _execute_steps.                                             *)

Proceed ==
  /\ phase' = "loop"
  /\ position' = position + 1
  /\ attempt' = 0
  /\ UNCHANGED <<verdict, compensation>>

\* _run_rollbacks visits the succeeded steps last to first.
Visited == [i \in 1..position |-> order[i]]
InListOrder(succeeded) == succeeded          \* bug: reversed() is forgotten
Unwinding(succeeded) == Reverse(succeeded)

\* The run stops at the current step; `rollback` compensates first.
Stop(after) ==
  /\ status' = "failed" /\ error' = "step"
  /\ IF pipeline.onError = "rollback"
     THEN /\ phase' = "rollback"
          /\ undo' = Unwinding(Among(Visited, {s \in Step : after[s] = "success"}))
     ELSE phase' = "returned" /\ UNCHANGED undo
  /\ UNCHANGED <<position, attempt, undone>>

FailedResults(s) == pipeline.upstreams[s] \cap {u \in Step : results[u] = "failed"}   \* bug: status
Blocking(s) == pipeline.upstreams[s] \cap unsuccessful

CascadeSkip ==
  /\ AtLoop
  /\ Blocking(Current) # {}
  /\ results' = [results EXCEPT ![Current] = "skipped"]
  /\ unsuccessful' = unsuccessful \cup {Current}
  /\ Proceed
  /\ UNCHANGED <<config, failures>>

ConditionFalse ==
  /\ AtLoop
  /\ Blocking(Current) = {}
  /\ Current \in pipeline.conditional
  /\ results' = [results EXCEPT ![Current] = "skipped"]
  /\ Proceed
  /\ UNCHANGED <<config, unsuccessful, failures>>

ToleratedIfSkip(s) == pipeline.policy[s] = "skip"     \* bug: `continue` does not count
ConditionErrorTolerated(s) == pipeline.policy[s] = "skip" \/ pipeline.onError = "continue"

ConditionError ==
  /\ AtLoop
  /\ Blocking(Current) = {}
  /\ Current \in pipeline.conditional
  /\ results' = [results EXCEPT ![Current] = "failed"]
  /\ unsuccessful' = unsuccessful \cup {Current}
  /\ failures' = failures \cup {Current}
  /\ IF ConditionErrorTolerated(Current) THEN Proceed ELSE Stop(results')
  /\ UNCHANGED config

Launch ==
  /\ AtLoop
  /\ Blocking(Current) = {}
  /\ phase' = "executing"
  /\ attempt' = 1
  /\ UNCHANGED <<config, position, outcome, verdict, compensation>>

------------------------------------------------------------------------------
(* Executing a step, and the failure policy.                               *)

StepSucceeds ==
  /\ phase \in {"executing", "fallback"}
  /\ results' = [results EXCEPT ![Current] = "success"]
  /\ Proceed
  /\ UNCHANGED <<config, unsuccessful, failures>>

AlwaysRetry(s) == s \in pipeline.retried              \* bug: max_attempts is not looked at
AttemptsLeft(s) == s \in pipeline.retried /\ attempt < MaxAttempts

\* Only execute_with_retry knows the fallback agent.
FallsBack(s) == s \in pipeline.retried /\ pipeline.policy[s] = "fallback"

Retry ==
  /\ phase = "executing"
  /\ AttemptsLeft(Current)
  /\ attempt' = attempt + 1
  /\ UNCHANGED <<config, phase, position, outcome, verdict, compensation>>

FallBack ==
  /\ phase = "executing"
  /\ ~AttemptsLeft(Current) /\ FallsBack(Current)
  /\ phase' = "fallback"
  /\ UNCHANGED <<config, position, outcome, attempt, verdict, compensation>>

\* A failed StepResult: `fail` asks the pipeline's policy, `skip` rewrites the
\* result, and the other two carry on.
Escalates(s) == pipeline.policy[s] = "fail" /\ pipeline.onError # "continue"

StepFails ==
  /\ \/ phase = "executing" /\ ~AttemptsLeft(Current) /\ ~FallsBack(Current)
     \/ phase = "fallback"
  /\ results' = [results EXCEPT ![Current] =
                   IF pipeline.policy[Current] = "skip" THEN "skipped" ELSE "failed"]
  /\ unsuccessful' = unsuccessful \cup {Current}
  /\ failures' = failures \cup {Current}
  /\ IF Escalates(Current) THEN Stop(results') ELSE Proceed
  /\ UNCHANGED config

TimedOut ==
  /\ status' = "failed" /\ error' = "timeout"
  /\ phase' = "returned"
  /\ undo' = <<>>
  /\ UNCHANGED <<config, position, attempt, undone, results, unsuccessful>>

\* The timeout of a sub_pipeline step is a TimeoutError nobody turns into a
\* StepResult: run() takes it for the pipeline's own.
NestedTimeout ==
  /\ phase = "executing" /\ Current \in pipeline.nested
  /\ TimedOut
  /\ failures' = failures \cup {Current}

\* wait_for cancels _execute_steps at whatever await it has reached.
PipelineTimeout ==
  /\ TimesOut
  /\ phase \in {"loop", "executing", "fallback", "rollback"}
  /\ TimedOut
  /\ UNCHANGED failures

------------------------------------------------------------------------------
(* _run_rollbacks: a block that raises is logged, and the walk goes on.    *)

Undo ==
  /\ phase = "rollback"
  /\ undo # <<>>
  /\ undo' = Tail(undo)
  /\ undone' = IF Head(undo) \in pipeline.rollback THEN Append(undone, Head(undo)) ELSE undone
  /\ UNCHANGED <<config, phase, position, outcome, attempt, verdict>>

------------------------------------------------------------------------------
(* The end of run().                                                       *)

Return ==
  /\ \/ phase = "loop" /\ position > StepCount
     \/ phase = "rollback" /\ undo = <<>>
  /\ phase' = "returned"
  /\ UNCHANGED <<config, position, outcome, attempt, verdict, compensation>>

Failed == {s \in Step : results[s] = "failed"}

SuccessIfAny == IF \E s \in Step : results[s] = "success" THEN "success" ELSE "failed"   \* bug
FinalStatus ==
  CASE Failed = {} -> "success"
    [] Failed # {} /\ Failed # {s \in Step : results[s] # "none"} -> "partial"
    [] OTHER -> "failed"

Finish ==
  /\ phase = "returned"
  /\ phase' = "ended"
  /\ LET final == IF status = "running" THEN FinalStatus ELSE status IN
       \/ status' = final /\ UNCHANGED error
       \/ /\ pipeline.strict /\ final # "failed"    \* the output breaks its schema
          /\ status' = "failed" /\ error' = "schema"
  /\ UNCHANGED <<config, position, outcome, attempt, compensation>>

Next ==
  \/ RejectInput \/ Begin
  \/ CascadeSkip \/ ConditionFalse \/ ConditionError \/ Launch
  \/ StepSucceeds \/ StepFails \/ Retry \/ FallBack
  \/ NestedTimeout \/ PipelineTimeout
  \/ Undo \/ Return \/ Finish

Spec == Init /\ [][Next]_vars

------------------------------------------------------------------------------
TypeOK ==
  /\ pipeline \in PipelineConfig
  /\ phase \in {"input", "loop", "executing", "fallback", "rollback", "returned", "ended"}
  /\ order \in Seq(Step)
  /\ position \in 1..(StepCount + 1)
  /\ results \in [Step -> {"none", "success", "failed", "skipped"}]
  /\ unsuccessful \subseteq Step
  /\ attempt \in 0..MaxAttempts
  /\ status \in {"running", "success", "partial", "failed"}
  /\ error \in {"none", "schema", "ordering", "step", "timeout"}
  /\ undo \in Seq(Step) /\ undone \in Seq(Step)
  /\ failures \subseteq Step

(* The order is the least permutation, in list order, that puts every step *)
(* behind its upstreams, and the run is refused only if there is none.     *)
OrderIsLeastTopological ==
  (phase = "loop" /\ position = 1) \/ error = "ordering" =>
    LET all == Topological(pipeline.upstreams) IN
      IF all = {} THEN error = "ordering"
      ELSE order \in all /\ \A p \in all : p = order \/ Before(order, p)

\* Everything s depends on, however indirectly.
Ancestors(s) ==
  LET reach[n \in 0..StepCount] ==
        IF n = 0 THEN pipeline.upstreams[s]
        ELSE reach[n - 1] \cup UNION {pipeline.upstreams[u] : u \in reach[n - 1] \cap Step}
  IN  reach[StepCount]

(* No step is executed whose upstreams, direct or not, include one that    *)
(* failed, not even when the failure was turned into a skip or tolerated.  *)
NoStepAfterFailedUpstream ==
  [][phase = "loop" /\ phase' = "executing" => Ancestors(Current) \cap failures = {}]_vars

(* engine.py:430-434, docs/guide/pipelines.md:511: `continue` runs the     *)
(* rest. Unless a timeout cut the run short, every step has a result.      *)
ContinueLeavesNoStepOut ==
  phase = "ended" /\ pipeline.onError = "continue" /\ error \in {"none", "step"} =>
    \A s \in Step : results[s] # "none"

(* `success` hides nothing: every step has a result and none is failed;    *)
(* `partial` means that some failed and some did not.                      *)
StatusIsHonest ==
  phase = "ended" =>
    /\ status = "success" => \A s \in Step : results[s] \in {"success", "skipped"}
    /\ status = "partial" => /\ Failed # {}
                             /\ \E s \in Step : results[s] \in {"success", "skipped"}
                             /\ \A s \in Step : results[s] # "none"
    /\ status # "running"

\* What a rollback has to compensate.
Compensable == {s \in Step : results[s] = "success" /\ s \in pipeline.rollback}

\* No step of the list comes twice, and each was executed before those in front.
NewestFirst(steps) ==
  \A i, j \in 1..Len(steps) : i < j =>
    \E k, l \in Step : k < l /\ order[k] = steps[j] /\ order[l] = steps[i]

(* A run that stopped at a failed step under `rollback` has executed the   *)
(* rollback block of every step that had succeeded, newest first, even if  *)
(* some of the blocks raised; no other run has executed any.               *)
RollbackUnwinds ==
  phase = "ended" =>
    IF pipeline.onError = "rollback" /\ error = "step"
    THEN ToSet(undone) = Compensable /\ NewestFirst(undone)
    ELSE error # "timeout" => undone = <<>>

(* docs/guide/pipelines.md:516: "When `on_error: rollback` is set and a    *)
(* step fails, the engine walks the already-completed steps in reverse".   *)
FailedStepIsCompensated ==
  phase = "ended" /\ pipeline.onError = "rollback"
      /\ (\E s \in failures : pipeline.policy[s] = "fail") =>
    ToSet(undone) = Compensable
==============================================================================

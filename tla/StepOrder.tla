------------------------------ MODULE StepOrder ------------------------------
(***************************************************************************)
(* agentomatic/pipelines/ordering.py: compute_execution_order. Steps are   *)
(* numbered by their place in the list; upstreams[s] are the steps s       *)
(* declares it runs after. Unknown stands for a name no step has.          *)
(***************************************************************************)
EXTENDS Integers, Sequences, SequencesExt, Lists

CONSTANT StepCount

ASSUME StepCountAssumption == StepCount \in Nat \ {0}

Step == 1..StepCount
Unknown == 0
Upstreams == [Step -> SUBSET (Step \cup {Unknown})]

\* The heap of Kahn's algorithm once the steps `done` have been popped.
Ready(upstreams, done) == {s \in Step \ done : upstreams[s] \subseteq done}

LastReady(upstreams, done) ==     \* bug: the largest index is popped
  Max(Ready(upstreams, done))
NextReady(upstreams, done) == Min(Ready(upstreams, done))

\* Self references, unknown names and cycles all leave steps that never become
\* ready: the code raises ValueError. Without upstreams this is list order.
ExecutionOrder(upstreams) ==
  LET popped[n \in 0..StepCount] ==
        IF n = 0 THEN <<>>
        ELSE LET done == ToSet(popped[n - 1])
             IN  IF Ready(upstreams, done) = {} THEN popped[n - 1]
                 ELSE Append(popped[n - 1], NextReady(upstreams, done))
  IN  popped[StepCount]

Schedulable(upstreams) == Len(ExecutionOrder(upstreams)) = StepCount

------------------------------------------------------------------------------
(* The reference: permutations in which every step follows its upstreams.  *)
Topological(upstreams) ==
  {p \in [Step -> Step] :
     /\ \A s \in Step : \E i \in Step : p[i] = s
     /\ \A i \in Step : upstreams[p[i]] \subseteq {p[j] : j \in 1..(i - 1)}}

Before(p, q) == \E i \in Step : p[i] < q[i] /\ \A j \in 1..(i - 1) : p[j] = q[j]
==============================================================================

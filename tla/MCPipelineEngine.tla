--------------------------- MODULE MCPipelineEngine ---------------------------
(* PipelineEngine on three steps.                                          *)
EXTENDS PipelineEngine

\* Every dependency graph of three steps, cyclic ones included, and two that
\* name the step itself or one that does not exist.
Graph ==
  {g \in [Step -> SUBSET Step] : \A s \in Step : s \notin g[s]}
    \cup {[s \in Step |-> IF s = 2 THEN {bad} ELSE {}] : bad \in {Unknown, 2}}

\* Steps 1 and 2 have a rollback block; step 2 has a condition, a retry config
\* and maybe a fallback agent; step 3 is a sub-pipeline.
MCPipelines ==
  {[upstreams |-> graph, policy |-> <<first, second, third>>, onError |-> onError,
    conditional |-> {2}, retried |-> {2}, nested |-> {3}, rollback |-> {1, 2},
    strict |-> strict] :
     graph \in Graph, first \in {"fail", "skip"}, second \in {"fail", "fallback"},
     third \in {"fail", "skip"}, onError \in {"fail_fast", "continue", "rollback"},
     strict \in BOOLEAN}

\* A reservation, and a sub-pipeline whose timeout should undo it.
NestedPipeline ==
  {[upstreams |-> [s \in Step |-> {}], policy |-> [s \in Step |-> "fail"],
    onError |-> "rollback", conditional |-> {}, retried |-> {}, nested |-> {2},
    rollback |-> {1}, strict |-> FALSE]}
==============================================================================

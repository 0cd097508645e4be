------------------------ MODULE PipelineEngine_proofs ------------------------
(***************************************************************************)
(* Theorems about StepOrder and PipelineEngine for every number of steps   *)
(* and every dependency graph. First what compute_execution_order returns, *)
(* by induction over the pops of its heap; then the run, by an inductive   *)
(* invariant.                                                              *)
(***************************************************************************)
EXTENDS PipelineEngine, FiniteSetTheorems, ListLemmas

------------------------------------------------------------------------------
(* Steps and permutations of them.                                         *)

LEMMA StepType == Step \subseteq Nat /\ StepCount \in Nat /\ StepCount >= 1
BY StepCountAssumption DEF Step

LEMMA StepFinite == IsFiniteSet(Step) /\ Cardinality(Step) = StepCount
BY StepType, FS_Interval DEF Step

(* As many different steps as there are steps are all the steps.           *)
LEMMA InjectiveIsOnto ==
  ASSUME NEW p \in [Step -> Step], \A i, j \in Step : p[i] = p[j] => i = j
  PROVE  \A s \in Step : \E i \in Step : p[i] = s
<1>1. p \in Injection(Step, Step)
  BY DEF Injection, IsInjective
<1>2. p \in Surjection(Step, Step)
  BY <1>1, StepFinite, FS_Injection
<1> QED BY <1>2 DEF Surjection

LEMMA OntoIsInjective ==
  ASSUME NEW p \in [Step -> Step], \A s \in Step : \E i \in Step : p[i] = s
  PROVE  \A i, j \in Step : p[i] = p[j] => i = j
<1>1. p \in Surjection(Step, Step)
  BY DEF Surjection
<1>2. p \in Injection(Step, Step)
  BY <1>1, StepFinite, FS_Surjection
<1> QED BY <1>2 DEF Injection, IsInjective

(* The least of a set of steps.                                            *)
LEMMA LeastStep ==
  ASSUME NEW S \in SUBSET Step, S # {}
  PROVE  Min(S) \in S /\ \A s \in S : Min(S) <= s
<1>1. \E m \in S : \A s \in S : m <= s
  BY StepType, LeastElement
<1> QED BY <1>1 DEF Min

------------------------------------------------------------------------------
(* The heap of Kahn's algorithm.                                           *)

(* A list the algorithm may have popped: each entry is the least step that *)
(* was ready when it was popped.                                           *)
Pops(p, upstreams) ==
  /\ p \in Seq(Step)
  /\ \A i \in 1..Len(p) :
       /\ Ready(upstreams, Upto(p, i - 1)) # {}
       /\ p[i] = NextReady(upstreams, Upto(p, i - 1))

PopNext(p, upstreams) ==
  IF Ready(upstreams, ToSet(p)) = {} THEN p
  ELSE Append(p, NextReady(upstreams, ToSet(p)))

LEMMA ReadyIsLeast ==
  ASSUME NEW upstreams, NEW done, Ready(upstreams, done) # {}
  PROVE  LET next == NextReady(upstreams, done) IN
           /\ next \in Step /\ next \notin done /\ upstreams[next] \subseteq done
           /\ \A s \in Step \ done : upstreams[s] \subseteq done => next <= s
<1>1. Ready(upstreams, done) \in SUBSET Step
  BY DEF Ready
<1>2. /\ NextReady(upstreams, done) \in Ready(upstreams, done)
      /\ \A s \in Ready(upstreams, done) : NextReady(upstreams, done) <= s
  BY <1>1, LeastStep DEF NextReady
<1> QED BY <1>2 DEF Ready

LEMMA PopNextType ==
  ASSUME NEW upstreams, NEW p \in Seq(Step)
  PROVE  PopNext(p, upstreams) \in Seq(Step)
BY ReadyIsLeast DEF PopNext

LEMMA PopNextPops ==
  ASSUME NEW upstreams, NEW p, Pops(p, upstreams)
  PROVE  Pops(PopNext(p, upstreams), upstreams)
<1> DEFINE next == NextReady(upstreams, ToSet(p))
           q == Append(p, next)
<1>1. CASE Ready(upstreams, ToSet(p)) = {}
  BY <1>1 DEF PopNext
<1>2. CASE Ready(upstreams, ToSet(p)) # {}
  <2>1. PopNext(p, upstreams) = q
    BY <1>2 DEF PopNext
  <2>2. p \in Seq(Step) /\ next \in Step
    BY <1>2, ReadyIsLeast DEF Pops
  <2>3. q \in Seq(Step) /\ Len(q) = Len(p) + 1 /\ q[Len(p) + 1] = next /\ Len(p) \in Nat
        /\ \A i \in 1..Len(p) : q[i] = p[i]
    BY <2>2
  <2> HIDE DEF q, next
  <2>4. \A i \in 0..Len(p) : Upto(q, i) = Upto(p, i)
    BY <2>3 DEF Upto
  <2>5. \A i \in 1..Len(q) : /\ Ready(upstreams, Upto(q, i - 1)) # {}
                              /\ q[i] = NextReady(upstreams, Upto(q, i - 1))
    <3> SUFFICES ASSUME NEW i \in 1..Len(q)
                 PROVE  /\ Ready(upstreams, Upto(q, i - 1)) # {}
                        /\ q[i] = NextReady(upstreams, Upto(q, i - 1))
      OBVIOUS
    <3>1. Upto(q, i - 1) = Upto(p, i - 1)
      BY <2>3, <2>4
    <3>2. CASE i <= Len(p)
      <4>1. i \in 1..Len(p) /\ q[i] = p[i]
        BY <2>3, <3>2
      <4> QED BY <4>1, <3>1 DEF Pops
    <3>3. CASE i = Len(p) + 1
      <4>1. Upto(q, i - 1) = ToSet(p)
        BY <3>1, <3>3, <2>2, <2>3, UptoIsToSet
      <4> QED BY <4>1, <3>3, <2>3, <1>2 DEF next
    <3> QED BY <2>3, <3>2, <3>3
  <2> QED BY <2>1, <2>3, <2>5 DEF Pops
<1> QED BY <1>1, <1>2

(* popped is well defined, each of its values is a list of pops, and it    *)
(* grows until nothing is ready.                                           *)
LEMMA PoppedExists ==
  ASSUME NEW upstreams
  PROVE  \E f : f = [n \in 0..StepCount |->
                      IF n = 0 THEN <<>>
                      ELSE LET done == ToSet(f[n - 1])
                           IN  IF Ready(upstreams, done) = {} THEN f[n - 1]
                               ELSE Append(f[n - 1], NextReady(upstreams, done))]
<1> DEFINE next == [i \in Nat |-> [p \in Seq(Step) |-> PopNext(p, upstreams)]]
<1>1. next \in [Nat -> [Seq(Step) -> Seq(Step)]]
  BY PopNextType
<1>2. \A i \in Nat, p \in Seq(Step) : next[i][p] = PopNext(p, upstreams)
  OBVIOUS
<1> HIDE DEF next
<1>3. PICK f : Iterates(f, StepCount, Seq(Step), <<>>, next)
  BY <1>1, StepType, EmptySeq, RecursionExists
<1>4. /\ f \in [0..StepCount -> Seq(Step)]
      /\ f[0] = <<>> /\ \A i \in 1..StepCount : f[i] = next[i][f[i - 1]]
  BY <1>3 DEF Iterates
<1>5. \A i \in 1..StepCount : f[i] = PopNext(f[i - 1], upstreams)
  <2> SUFFICES ASSUME NEW i \in 1..StepCount PROVE f[i] = PopNext(f[i - 1], upstreams)
    OBVIOUS
  <2>1. i \in Nat /\ i - 1 \in 0..StepCount
    BY StepType
  <2> QED BY <2>1, <1>2, <1>4
<1>6. f = [n \in 0..StepCount |-> IF n = 0 THEN <<>> ELSE PopNext(f[n - 1], upstreams)]
  <2>1. \A n \in 0..StepCount : n # 0 => n \in 1..StepCount
    BY StepType
  <2> QED BY <2>1, <1>4, <1>5
<1> QED BY <1>6 DEF PopNext

(* The order is a list of pops, and it is as long as the list of steps     *)
(* unless nothing is ready behind it.                                      *)
LEMMA OrderPops ==
  ASSUME NEW upstreams
  PROVE  LET p == ExecutionOrder(upstreams) IN
           /\ Pops(p, upstreams)
           /\ Len(p) <= StepCount
           /\ Len(p) = StepCount \/ Ready(upstreams, ToSet(p)) = {}
<1> DEFINE IsPopped(f) ==
             f = [n \in 0..StepCount |->
                    IF n = 0 THEN <<>>
                    ELSE LET done == ToSet(f[n - 1])
                         IN  IF Ready(upstreams, done) = {} THEN f[n - 1]
                             ELSE Append(f[n - 1], NextReady(upstreams, done))]
           popped == CHOOSE f : IsPopped(f)
<1>1. ExecutionOrder(upstreams) = popped[StepCount]
  BY DEF ExecutionOrder
<1>2. IsPopped(popped)
  <2>1. \E f : IsPopped(f)
    BY PoppedExists
  <2> HIDE DEF IsPopped
  <2> QED BY <2>1
<1>3. popped = [n \in 0..StepCount |-> IF n = 0 THEN <<>> ELSE PopNext(popped[n - 1], upstreams)]
  BY <1>2 DEF PopNext
<1> HIDE DEF IsPopped, popped
<1>4. popped[0] = <<>> /\ \A i \in 0..(StepCount - 1) : popped[i + 1] = PopNext(popped[i], upstreams)
  <2>1. \A i \in 0..(StepCount - 1) : i + 1 \in 0..StepCount /\ i + 1 # 0 /\ (i + 1) - 1 = i
    BY StepType
  <2>2. 0 \in 0..StepCount
    BY StepType
  <2> QED BY <2>1, <2>2, <1>3
<1> DEFINE Good(n, p) == /\ Pops(p, upstreams)
                         /\ Len(p) <= n
                         /\ Len(p) = n \/ Ready(upstreams, ToSet(p)) = {}
           T == {n \in Nat : Good(n, popped[n])}
<1>5. 0 \in T
  <2>1. Pops(<<>>, upstreams) /\ Len(<<>>) = 0
    BY DEF Pops
  <2> QED BY <2>1, <1>4
<1>6. ASSUME NEW i \in 0..(StepCount - 1), i \in T PROVE i + 1 \in T
  <2> DEFINE p == popped[i]
  <2>1. Good(i, p) /\ popped[i + 1] = PopNext(p, upstreams) /\ i \in Nat
    BY <1>4, <1>6
  <2> HIDE DEF p
  <2>2. Pops(PopNext(p, upstreams), upstreams) /\ p \in Seq(Step)
    BY <2>1, PopNextPops DEF Pops
  <2>3. Good(i + 1, PopNext(p, upstreams))
    <3>1. CASE Ready(upstreams, ToSet(p)) = {}
      <4>1. PopNext(p, upstreams) = p
        BY <3>1 DEF PopNext
      <4>2. Len(p) \in Nat
        BY <2>2
      <4> QED BY <4>1, <4>2, <3>1, <2>1, <2>2
    <3>2. CASE Ready(upstreams, ToSet(p)) # {}
      <4>1. Len(PopNext(p, upstreams)) = Len(p) + 1 /\ Len(p) = i
        BY <3>2, <2>1, <2>2, ReadyIsLeast DEF PopNext
      <4> QED BY <4>1, <2>1, <2>2
    <3> QED BY <3>1, <3>2
  <2> QED BY <2>1, <2>3
<1> HIDE DEF T
<1>7. \A i \in 0..StepCount : i \in T
  BY <1>5, <1>6, StepType, BoundedInduction
<1>8. Good(StepCount, popped[StepCount])
  BY <1>7, StepType DEF T
<1> QED BY <1>1, <1>8

LEMMA PopsFacts ==
  ASSUME NEW upstreams, NEW p, Pops(p, upstreams)
  PROVE  /\ \A i \in 1..Len(p) :
              /\ p[i] \in Step
              /\ p[i] \notin Upto(p, i - 1)
              /\ upstreams[p[i]] \subseteq Upto(p, i - 1)
              /\ \A s \in Step \ Upto(p, i - 1) :
                   upstreams[s] \subseteq Upto(p, i - 1) => p[i] <= s
         /\ \A i, j \in 1..Len(p) : p[i] = p[j] => i = j
<1>1. \A i \in 1..Len(p) :
        /\ p[i] \in Step
        /\ p[i] \notin Upto(p, i - 1)
        /\ upstreams[p[i]] \subseteq Upto(p, i - 1)
        /\ \A s \in Step \ Upto(p, i - 1) : upstreams[s] \subseteq Upto(p, i - 1) => p[i] <= s
  BY ReadyIsLeast DEF Pops
<1>2. \A i, j \in 1..Len(p) : i < j => p[i] # p[j]
  <2> SUFFICES ASSUME NEW i \in 1..Len(p), NEW j \in 1..Len(p), i < j PROVE p[i] # p[j]
    OBVIOUS
  <2>1. i \in 1..(j - 1)
    OBVIOUS
  <2>2. p[i] \in Upto(p, j - 1)
    BY <2>1 DEF Upto
  <2> QED BY <2>2, <1>1
<1>3. \A i, j \in 1..Len(p) : i = j \/ i < j \/ j < i
  BY LenProperties DEF Pops
<1> QED BY <1>1, <1>2, <1>3

LEMMA FullPopsAreTopological ==
  ASSUME NEW upstreams, NEW p, Pops(p, upstreams), Len(p) = StepCount
  PROVE  p \in Topological(upstreams)
<1>1. 1..Len(p) = Step
  BY DEF Step
<1>2. p \in [Step -> Step]
  BY <1>1, LenProperties DEF Pops
<1>3. \A i, j \in Step : p[i] = p[j] => i = j
  BY <1>1, PopsFacts
<1>4. \A s \in Step : \E i \in Step : p[i] = s
  BY <1>2, <1>3, InjectiveIsOnto
<1>5. \A i \in Step : upstreams[p[i]] \subseteq {p[j] : j \in 1..(i - 1)}
  BY <1>1, PopsFacts DEF Upto
<1> QED BY <1>2, <1>4, <1>5 DEF Topological

LEMMA TopologicalFacts ==
  ASSUME NEW upstreams, NEW q \in Topological(upstreams)
  PROVE  /\ q \in [Step -> Step]
         /\ \A s \in Step : \E i \in Step : q[i] = s
         /\ \A i, j \in Step : q[i] = q[j] => i = j
         /\ \A i \in Step : upstreams[q[i]] \subseteq Upto(q, i - 1)
BY OntoIsInjective DEF Topological, Upto

(* Where another permutation departs from a full list of pops, it has a    *)
(* larger step: the smaller one was ready there and had not been popped.   *)
LEMMA FullPopsAreLeast ==
  ASSUME NEW upstreams, NEW p, Pops(p, upstreams), Len(p) = StepCount,
         NEW q \in Topological(upstreams), q # p
  PROVE  Before(p, q)
<1> DEFINE D == {i \in Step : p[i] # q[i]}
<1>1. p \in Topological(upstreams)
  BY FullPopsAreTopological
<1>2. p \in [Step -> Step] /\ q \in [Step -> Step] /\ 1..Len(p) = Step
  BY <1>1, TopologicalFacts DEF Step
<1>3. D # {} /\ D \in SUBSET Step
  BY <1>2
<1> HIDE DEF D
<1>4. PICK i \in D : \A k \in D : i <= k
  BY <1>3, StepType, LeastElement
<1>5. i \in Step /\ p[i] # q[i]
  BY <1>4 DEF D
<1>6. \A j \in 1..(i - 1) : j \in Step /\ ~ (i <= j)
  BY <1>5, StepType DEF Step
<1>7. \A j \in 1..(i - 1) : p[j] = q[j]
  BY <1>4, <1>6 DEF D
<1>8. Upto(p, i - 1) = Upto(q, i - 1)
  BY <1>7 DEF Upto
<1>9. q[i] \in Step /\ q[i] \notin Upto(q, i - 1) /\ upstreams[q[i]] \subseteq Upto(q, i - 1)
  <2>1. \A j \in 1..(i - 1) : j \in Step /\ j # i
    BY <1>6, <1>5, StepType
  <2>2. \A j \in 1..(i - 1) : q[j] # q[i]
    BY <2>1, <1>5, TopologicalFacts
  <2> QED BY <2>2, <1>2, <1>5, TopologicalFacts DEF Upto
<1>10. p[i] <= q[i]
  BY <1>2, <1>5, <1>8, <1>9, PopsFacts
<1>11. p[i] \in Nat /\ q[i] \in Nat
  BY <1>2, <1>5, StepType
<1>12. p[i] < q[i]
  BY <1>5, <1>10, <1>11
<1> QED BY <1>5, <1>7, <1>12 DEF Before

(* If nothing is ready behind a short list of pops, no permutation puts    *)
(* every step behind its upstreams: its first step that was not popped     *)
(* would be ready.                                                         *)
LEMMA ShortPopsRefuse ==
  ASSUME NEW upstreams, NEW p, Pops(p, upstreams), Len(p) < StepCount,
         Ready(upstreams, ToSet(p)) = {}
  PROVE  Topological(upstreams) = {}
<1> SUFFICES ASSUME NEW q \in Topological(upstreams) PROVE FALSE
  OBVIOUS
<1> DEFINE D == {i \in Step : q[i] \notin ToSet(p)}
<1>1. /\ q \in [Step -> Step]
      /\ \A s \in Step : \E i \in Step : q[i] = s
      /\ \A i \in Step : upstreams[q[i]] \subseteq Upto(q, i - 1)
  BY TopologicalFacts
<1>2. \E s \in Step : s \notin ToSet(p)
  <2> SUFFICES ASSUME Step \subseteq ToSet(p) PROVE FALSE
    OBVIOUS
  <2>1. p \in [1..Len(p) -> Step] /\ Len(p) \in Nat /\ ToSet(p) = {p[i] : i \in 1..Len(p)}
    BY LenProperties DEF Pops, ToSet
  <2>2. p \in Surjection(1..Len(p), Step)
    BY <2>1 DEF Surjection
  <2>3. IsFiniteSet(1..Len(p)) /\ Cardinality(1..Len(p)) = Len(p)
    <3> SUFFICES ASSUME NEW n \in Nat PROVE IsFiniteSet(1..n) /\ Cardinality(1..n) = n
      BY <2>1
    <3> QED BY FS_Interval
  <2>4. StepCount <= Len(p)
    BY <2>2, <2>3, StepFinite, FS_Surjection
  <2> QED BY <2>1, <2>4, StepType
<1>3. D # {} /\ D \in SUBSET Step
  BY <1>1, <1>2
<1> HIDE DEF D
<1>4. PICK i \in D : \A k \in D : i <= k
  BY <1>3, StepType, LeastElement
<1>5. i \in Step /\ q[i] \in Step /\ q[i] \notin ToSet(p)
  BY <1>1, <1>3, <1>4 DEF D
<1>6. \A j \in 1..(i - 1) : j \in Step /\ ~ (i <= j)
  BY <1>5, StepType DEF Step
<1>7. \A j \in 1..(i - 1) : q[j] \in ToSet(p)
  BY <1>4, <1>6 DEF D
<1>8. upstreams[q[i]] \subseteq ToSet(p)
  BY <1>1, <1>5, <1>7 DEF Upto
<1> QED BY <1>5, <1>8 DEF Ready

(* compute_execution_order: the least permutation in which every step      *)
(* comes behind its upstreams, and a refusal exactly when there is none.   *)
THEOREM OrderIsLeast ==
  ASSUME NEW upstreams
  PROVE  /\ Schedulable(upstreams) =>
              /\ ExecutionOrder(upstreams) \in Topological(upstreams)
              /\ \A q \in Topological(upstreams) :
                   q = ExecutionOrder(upstreams) \/ Before(ExecutionOrder(upstreams), q)
         /\ ~Schedulable(upstreams) => Topological(upstreams) = {}
<1> DEFINE p == ExecutionOrder(upstreams)
<1>1. /\ Pops(p, upstreams) /\ Len(p) <= StepCount
      /\ Len(p) = StepCount \/ Ready(upstreams, ToSet(p)) = {}
  BY OrderPops
<1>2. Len(p) \in Nat
  BY <1>1, LenProperties DEF Pops
<1>3. Schedulable(upstreams) <=> Len(p) = StepCount
  BY DEF Schedulable
<1> HIDE DEF p
<1>4. CASE Len(p) = StepCount
  <2>1. p \in Topological(upstreams)
    BY <1>1, <1>4, FullPopsAreTopological
  <2>2. \A q \in Topological(upstreams) : q = p \/ Before(p, q)
    BY <1>1, <1>4, FullPopsAreLeast
  <2> QED BY <2>1, <2>2, <1>3, <1>4 DEF p
<1>5. CASE Len(p) # StepCount
  <2>1. Len(p) < StepCount
    BY <1>1, <1>2, <1>5, StepType
  <2>2. Topological(upstreams) = {}
    BY <2>1, <1>1, <1>5, ShortPopsRefuse
  <2> QED BY <2>2, <1>3, <1>5
<1> QED BY <1>4, <1>5

------------------------------------------------------------------------------
(* The inductive invariant of a run.                                       *)

Looping == phase \in {"loop", "executing", "fallback"}

(* A run that is under way goes by the computed order.                     *)
OrderInv ==
  /\ phase # "input" /\ error \notin {"ordering", "schema"} =>
       order = ExecutionOrder(pipeline.upstreams) /\ Schedulable(pipeline.upstreams)
  /\ error = "ordering" => ~Schedulable(pipeline.upstreams)

(* What the result says while the run is open, and once it is over.        *)
VerdictInv ==
  /\ phase = "input" \/ Looping => error = "none"
  /\ phase # "ended" /\ error = "none" => status = "running"
  /\ error # "none" => status = "failed"
  /\ phase \in {"executing", "fallback"} => position \in Step
  /\ phase = "rollback" => error = "step" /\ pipeline.onError = "rollback"
  /\ phase \notin {"rollback", "returned", "ended"} => undo = <<>>
  /\ phase # "rollback" /\ (pipeline.onError # "rollback" \/ error \notin {"step", "timeout"}) => undone = <<>>
  /\ error = "step" => pipeline.onError # "continue"

(* Nothing has happened before run() has looked at its input.              *)
InputInv ==
  phase = "input" =>
    /\ position = 1 /\ unsuccessful = {} /\ failures = {}
    /\ \A s \in Step : results[s] = "none"

(* The steps in front of the current one have results and the others have  *)
(* none; what they ran after was never unsuccessful.                       *)
LoopInv ==
  Looping =>
    /\ \A s \in Step : results[s] # "none" <=> s \in Upto(order, position - 1)
    /\ failures \subseteq unsuccessful
    /\ unsuccessful \subseteq Upto(order, position - 1)
    /\ \A s \in Upto(order, position - 1) \ unsuccessful :
         pipeline.upstreams[s] \subseteq Upto(order, position - 1) \ unsuccessful
    /\ phase # "loop" => Blocking(Current) = {}

(* The blocks that have been executed and those to come are the steps to   *)
(* compensate, newest first.                                               *)
RollbackInv ==
  (phase = "rollback" \/ (phase \in {"returned", "ended"} /\ error = "step"))
      /\ pipeline.onError = "rollback" =>
    /\ ToSet(undone) \cup (ToSet(undo) \cap pipeline.rollback) = Compensable
    /\ NewestFirst(undone \o undo)
    /\ phase # "rollback" => undo = <<>>

(* A run nothing has cut short has a result for every step.                *)
CompleteInv ==
  phase \in {"returned", "ended"} /\ error = "none" => \A s \in Step : results[s] # "none"

(* The status of a finished run is the one its results call for.           *)
FinalInv ==
  phase = "ended" => status \in {"failed"} \cup (IF error = "none" THEN {FinalStatus} ELSE {})

PipelineInv ==
  /\ TypeOK /\ OrderInv /\ VerdictInv /\ InputInv /\ LoopInv
  /\ RollbackInv /\ CompleteInv /\ FinalInv

LEMMA PipelineType ==
  ASSUME TypeOK
  PROVE  /\ pipeline.upstreams \in Upstreams
         /\ pipeline.policy \in [Step -> Policy]
         /\ pipeline.onError \in {"fail_fast", "continue", "rollback"}
         /\ pipeline.rollback \subseteq Step
BY DEF TypeOK, PipelineConfig

(* What the computed order is once a run goes by it.                       *)
LEMMA OrderFacts ==
  ASSUME TypeOK, OrderInv, phase # "input", error \notin {"ordering", "schema"}
  PROVE  /\ order \in [Step -> Step]
         /\ \A s \in Step : \E i \in Step : order[i] = s
         /\ \A i, j \in Step : order[i] = order[j] => i = j
         /\ \A i \in Step : pipeline.upstreams[order[i]] \subseteq Upto(order, i - 1)
<1>1. order \in Topological(pipeline.upstreams)
  BY OrderIsLeast DEF OrderInv
<1> QED BY <1>1, TopologicalFacts

LEMMA UptoAll ==
  ASSUME TypeOK, OrderInv, phase # "input", error \notin {"ordering", "schema"}
  PROVE  Upto(order, StepCount) = Step
BY OrderFacts DEF Upto, Step

(* The step a run stands at.                                               *)
LEMMA CurrentFacts ==
  ASSUME TypeOK, OrderInv, VerdictInv, AtLoop \/ phase \in {"executing", "fallback"}
  PROVE  /\ Looping /\ error = "none" /\ status = "running" /\ undo = <<>> /\ undone = <<>>
         /\ position \in Step /\ position + 1 \in 1..(StepCount + 1) /\ (position + 1) - 1 = position
         /\ order \in [Step -> Step]
         /\ Current \in Step /\ Current = order[position]
         /\ Current \notin Upto(order, position - 1)
         /\ pipeline.upstreams[Current] \subseteq Upto(order, position - 1)
         /\ Upto(order, position) = Upto(order, position - 1) \cup {Current}
<1>1. Looping /\ error = "none" /\ status = "running" /\ undo = <<>> /\ undone = <<>>
  BY DEF AtLoop, Looping, VerdictInv
<1>2. position \in Step /\ position + 1 \in 1..(StepCount + 1) /\ (position + 1) - 1 = position
  BY StepType DEF AtLoop, VerdictInv, TypeOK, Step
<1>3. /\ order \in [Step -> Step]
      /\ \A i, j \in Step : order[i] = order[j] => i = j
      /\ \A i \in Step : pipeline.upstreams[order[i]] \subseteq Upto(order, i - 1)
  BY <1>1, OrderFacts DEF Looping
<1>4. Current \in Step /\ Current = order[position]
  BY <1>2, <1>3 DEF Current
<1>5. \A j \in 1..(position - 1) : j \in Step /\ j # position /\ j \in 1..position
  BY <1>2, StepType DEF Step
<1>6. Current \notin Upto(order, position - 1)
  BY <1>2, <1>3, <1>4, <1>5 DEF Upto
<1>7. Upto(order, position) = Upto(order, position - 1) \cup {Current}
  <2>1. \A j \in 1..position : j \in 1..(position - 1) \/ j = position
    BY <1>2, StepType DEF Step
  <2>2. position \in 1..position
    BY <1>2, StepType DEF Step
  <2> QED BY <2>1, <2>2, <1>4, <1>5 DEF Upto
<1> QED BY <1>1, <1>2, <1>3, <1>4, <1>6, <1>7

(* The list _run_rollbacks walks: the visited steps that are kept, newest  *)
(* first.                                                                  *)
LEMMA UnwindingFacts ==
  ASSUME order \in [Step -> Step], position \in Step, NEW kept
  PROVE  LET list == Unwinding(Among(Visited, kept)) IN
           /\ list \in Seq(Step)
           /\ ToSet(list) = Upto(order, position) \cap kept
           /\ NewestFirst(list)
<1> DEFINE a == Among(Visited, kept)
           list == Unwinding(a)
<1>1. position \in Nat /\ 1..position \subseteq Step
  BY StepType DEF Step
<1>2. Visited \in [1..position -> Step]
  BY <1>1 DEF Visited
<1>3. /\ Visited \in Seq(Step) /\ Len(Visited) = position
      /\ \A i \in 1..position : Visited[i] = order[i]
  BY <1>1, <1>2 DEF Visited
<1>4. ToSet(Visited) = Upto(order, position)
  BY <1>3 DEF ToSet, Upto
<1>5. /\ a \in Seq(Step)
      /\ ToSet(a) = ToSet(Visited) \cap kept
      /\ \A i, j \in 1..Len(a) : i < j =>
           \E k, l \in 1..Len(Visited) : k < l /\ Visited[k] = a[i] /\ Visited[l] = a[j]
  BY <1>3, AmongFacts
<1> HIDE DEF a
<1>6. /\ list \in Seq(Step) /\ Len(list) = Len(a) /\ Len(a) \in Nat
      /\ \A i \in 1..Len(a) : list[i] = a[(Len(a) - i) + 1] /\ (Len(a) - i) + 1 \in 1..Len(a)
  <2>1. Len(a) \in Nat /\ \A i \in 1..Len(a) : (Len(a) - i) + 1 \in 1..Len(a)
    BY <1>5
  <2>2. list = [i \in 1..Len(a) |-> a[(Len(a) - i) + 1]]
    BY DEF Unwinding, Reverse
  <2>3. \A i \in 1..Len(a) : a[(Len(a) - i) + 1] \in Step
    BY <2>1, <1>5, ElementOfSeq
  <2>4. list \in [1..Len(a) -> Step]
    BY <2>2, <2>3
  <2> HIDE DEF list
  <2> QED BY <2>1, <2>2, <2>4
<1> HIDE DEF list
<1>7. ToSet(list) = ToSet(a)
  <2>1. \A i \in 1..Len(a) : a[i] = list[(Len(a) - i) + 1]
    BY <1>6
  <2>2. ToSet(list) = {list[i] : i \in 1..Len(a)} /\ ToSet(a) = {a[i] : i \in 1..Len(a)}
    BY <1>5, <1>6, LenProperties DEF ToSet
  <2>3. \A i \in 1..Len(a) : list[i] \in ToSet(a)
    BY <2>2, <1>6
  <2>4. \A i \in 1..Len(a) : a[i] \in ToSet(list)
    BY <2>1, <2>2, <1>6
  <2> QED BY <2>2, <2>3, <2>4
<1>8. NewestFirst(list)
  <2> SUFFICES ASSUME NEW i \in 1..Len(list), NEW j \in 1..Len(list), i < j
               PROVE  \E k, l \in Step : k < l /\ order[k] = list[j] /\ order[l] = list[i]
    BY DEF NewestFirst
  <2> DEFINE ii == (Len(a) - i) + 1
             jj == (Len(a) - j) + 1
  <2>1. list[i] = a[ii] /\ list[j] = a[jj] /\ ii \in 1..Len(a) /\ jj \in 1..Len(a) /\ jj < ii
    BY <1>6
  <2> HIDE DEF ii, jj
  <2>2. PICK k \in 1..Len(Visited), l \in 1..Len(Visited) :
          k < l /\ Visited[k] = a[jj] /\ Visited[l] = a[ii]
    BY <2>1, <1>5
  <2>3. k \in Step /\ l \in Step /\ order[k] = list[j] /\ order[l] = list[i]
    BY <2>1, <2>2, <1>1, <1>3
  <2> QED BY <2>2, <2>3
<1> QED BY <1>4, <1>5, <1>6, <1>7, <1>8 DEF list, a

------------------------------------------------------------------------------
(* A step of the run gets its result.                                      *)

Stands == AtLoop \/ phase \in {"executing", "fallback"}

\* What every action that settles the current step does to the results.
Settles(x) ==
  /\ Stands
  /\ results' = [results EXCEPT ![Current] = x]
  /\ unsuccessful' \in {unsuccessful, unsuccessful \cup {Current}}
  /\ failures' \in {failures, failures \cup {Current}}
  /\ Current \in failures' => Current \in unsuccessful'
  /\ UNCHANGED config

LEMMA SettledType ==
  ASSUME TypeOK, OrderInv, VerdictInv, NEW x \in {"success", "failed", "skipped"}, Settles(x)
  PROVE  /\ results' \in [Step -> {"none", "success", "failed", "skipped"}]
         /\ unsuccessful' \subseteq Step /\ failures' \subseteq Step
         /\ pipeline' = pipeline /\ order' = order
         /\ results'[Current] = x
         /\ \A s \in Step : s # Current => results'[s] = results[s]
<1>1. Current \in Step
  BY CurrentFacts DEF Settles, Stands
<1> QED BY <1>1 DEF TypeOK, Settles, config

(* The run goes on behind a step that has its result.                      *)
LEMMA AdvanceStep ==
  ASSUME PipelineInv, NEW x \in {"success", "failed", "skipped"}, Settles(x), Proceed,
         Current \in unsuccessful' \/ Blocking(Current) = {}
  PROVE  PipelineInv'
<1> USE DEF PipelineInv
<1>1. /\ Looping /\ error = "none" /\ status = "running" /\ undo = <<>> /\ undone = <<>>
      /\ position \in Step /\ position + 1 \in 1..(StepCount + 1) /\ (position + 1) - 1 = position
      /\ Current \in Step /\ Current \notin Upto(order, position - 1)
      /\ pipeline.upstreams[Current] \subseteq Upto(order, position - 1)
      /\ Upto(order, position) = Upto(order, position - 1) \cup {Current}
  BY CurrentFacts DEF Settles, Stands
<1>2. /\ results' \in [Step -> {"none", "success", "failed", "skipped"}]
      /\ unsuccessful' \subseteq Step /\ failures' \subseteq Step
      /\ pipeline' = pipeline /\ order' = order
      /\ results'[Current] = x
      /\ \A s \in Step : s # Current => results'[s] = results[s]
  BY SettledType
<1>3. /\ phase' = "loop" /\ position' = position + 1 /\ attempt' = 0
      /\ status' = status /\ error' = error /\ undo' = undo /\ undone' = undone
  BY DEF Proceed, verdict, compensation
<1>4. TypeOK'
  BY <1>1, <1>2, <1>3, PipelineAssumption DEF TypeOK
<1>5. OrderInv' /\ VerdictInv'
  BY <1>1, <1>2, <1>3 DEF OrderInv, VerdictInv, Looping
<1>6. LoopInv'
  <2>1. Upto(order', position' - 1) = Upto(order, position - 1) \cup {Current}
    BY <1>1, <1>2, <1>3
  <2>2. /\ \A s \in Step : results[s] # "none" <=> s \in Upto(order, position - 1)
        /\ failures \subseteq unsuccessful
        /\ unsuccessful \subseteq Upto(order, position - 1)
        /\ \A s \in Upto(order, position - 1) \ unsuccessful :
             pipeline.upstreams[s] \subseteq Upto(order, position - 1) \ unsuccessful
    BY <1>1 DEF LoopInv
  <2>3. \A s \in Step : results'[s] # "none" <=> s \in Upto(order', position' - 1)
    BY <1>1, <1>2, <2>1, <2>2
  <2>4. failures' \subseteq unsuccessful' /\ unsuccessful' \subseteq Upto(order', position' - 1)
    BY <2>1, <2>2 DEF Settles
  <2>5. \A s \in Upto(order', position' - 1) \ unsuccessful' :
          pipeline'.upstreams[s] \subseteq Upto(order', position' - 1) \ unsuccessful'
    <3> SUFFICES ASSUME NEW s \in Upto(order', position' - 1) \ unsuccessful'
                 PROVE  pipeline.upstreams[s] \subseteq Upto(order', position' - 1) \ unsuccessful'
      BY <1>2
    <3>1. unsuccessful' \subseteq unsuccessful \cup {Current} /\ unsuccessful \subseteq unsuccessful'
      BY DEF Settles
    <3>2. CASE s = Current
      <4>1. Blocking(Current) = {}
        BY <3>2
      <4>2. pipeline.upstreams[s] \subseteq Upto(order, position - 1) \ unsuccessful
        BY <4>1, <3>2, <1>1 DEF Blocking
      <4> QED BY <4>2, <3>1, <2>1, <1>1
    <3>3. CASE s # Current
      <4>1. s \in Upto(order, position - 1) \ unsuccessful
        BY <3>3, <3>1, <2>1
      <4>2. pipeline.upstreams[s] \subseteq Upto(order, position - 1) \ unsuccessful
        BY <4>1, <2>2
      <4> QED BY <4>2, <3>1, <2>1, <1>1
    <3> QED BY <3>2, <3>3
  <2> QED BY <2>3, <2>4, <2>5, <1>3 DEF LoopInv
<1>7. InputInv' /\ RollbackInv' /\ CompleteInv' /\ FinalInv'
  BY <1>3 DEF InputInv, RollbackInv, CompleteInv, FinalInv
<1> QED BY <1>4, <1>5, <1>6, <1>7

(* The run stops at a step that failed; the compensation is made ready.    *)
LEMMA StopStep ==
  ASSUME PipelineInv, NEW x \in {"failed", "skipped"}, Settles(x), Stop(results'),
         pipeline.onError # "continue"
  PROVE  PipelineInv'
<1> USE DEF PipelineInv
<1>1. /\ Looping /\ error = "none" /\ status = "running" /\ undo = <<>> /\ undone = <<>>
      /\ position \in Step /\ order \in [Step -> Step]
      /\ Current \in Step /\ Current \notin Upto(order, position - 1)
      /\ Upto(order, position) = Upto(order, position - 1) \cup {Current}
  BY CurrentFacts DEF Settles, Stands
<1>2. /\ results' \in [Step -> {"none", "success", "failed", "skipped"}]
      /\ unsuccessful' \subseteq Step /\ failures' \subseteq Step
      /\ pipeline' = pipeline /\ order' = order
      /\ results'[Current] = x
      /\ \A s \in Step : s # Current => results'[s] = results[s]
  BY SettledType
<1>3. /\ status' = "failed" /\ error' = "step"
      /\ position' = position /\ attempt' = attempt /\ undone' = <<>>
  BY <1>1 DEF Stop
<1>4. CASE pipeline.onError = "rollback"
  <2> DEFINE kept == {s \in Step : results'[s] = "success"}
             list == Unwinding(Among(Visited, kept))
  <2>1. phase' = "rollback" /\ undo' = list
    BY <1>4 DEF Stop
  <2>2. list \in Seq(Step) /\ ToSet(list) = Upto(order, position) \cap kept /\ NewestFirst(list)
    BY <1>1, UnwindingFacts
  <2> HIDE DEF list
  <2>3. TypeOK'
    BY <1>2, <1>3, <2>1, <2>2 DEF TypeOK
  <2>4. OrderInv' /\ VerdictInv'
    BY <1>1, <1>2, <1>3, <1>4, <2>1 DEF OrderInv, VerdictInv, Looping
  <2>5. RollbackInv'
    <3>1. kept \subseteq Upto(order, position)
      BY <1>1, <1>2 DEF LoopInv
    <3>2. ToSet(undone') \cup (ToSet(undo') \cap pipeline'.rollback) = Compensable'
      <4>1. ToSet(undone') = {} /\ ToSet(undo') = kept
        BY <1>3, <2>1, <2>2, <3>1 DEF ToSet
      <4> QED BY <4>1, <1>2 DEF Compensable
    <3>3. undone' \o undo' = list
      BY <1>3, <2>1, <2>2
    <3>4. NewestFirst(undone \o undo)'
      BY <3>3, <2>2, <1>2 DEF NewestFirst
    <3> QED BY <3>2, <3>4, <2>1 DEF RollbackInv
  <2>6. InputInv' /\ LoopInv' /\ CompleteInv' /\ FinalInv'
    BY <2>1 DEF InputInv, LoopInv, Looping, CompleteInv, FinalInv
  <2> QED BY <2>3, <2>4, <2>5, <2>6
<1>5. CASE pipeline.onError # "rollback"
  <2>1. phase' = "returned" /\ undo' = undo
    BY <1>5 DEF Stop
  <2>2. TypeOK'
    BY <1>2, <1>3, <2>1 DEF TypeOK
  <2>3. OrderInv' /\ VerdictInv'
    BY <1>1, <1>2, <1>3, <1>5, <2>1 DEF OrderInv, VerdictInv, Looping
  <2>4. InputInv' /\ LoopInv' /\ CompleteInv' /\ FinalInv' /\ RollbackInv'
    BY <1>2, <1>3, <1>5, <2>1 DEF InputInv, LoopInv, Looping, CompleteInv, FinalInv, RollbackInv
  <2> QED BY <2>2, <2>3, <2>4
<1> QED BY <1>4, <1>5

(* A run that ends or returns early leaves the results as they are.        *)
LEMMA BeginStep ==
  ASSUME PipelineInv, RejectInput \/ Begin
  PROVE  PipelineInv'
<1> USE DEF PipelineInv
<1>1. CASE RejectInput
  BY <1>1 DEF RejectInput, TypeOK, OrderInv, VerdictInv, InputInv, LoopInv, Looping, RollbackInv,
              CompleteInv, FinalInv, config, outcome, compensation
<1>2. CASE Begin
  <2> DEFINE p == ExecutionOrder(pipeline.upstreams)
  <2>1. /\ phase = "input" /\ error = "none" /\ status = "running" /\ undo = <<>> /\ undone = <<>>
        /\ order' = p
        /\ IF Schedulable(pipeline.upstreams)
           THEN phase' = "loop" /\ status' = status /\ error' = error
           ELSE phase' = "returned" /\ status' = "failed" /\ error' = "ordering"
        /\ pipeline' = pipeline /\ position' = position /\ results' = results
        /\ unsuccessful' = unsuccessful /\ failures' = failures /\ attempt' = attempt
        /\ undo' = undo /\ undone' = undone
    BY <1>2 DEF Begin, VerdictInv, verdict, outcome, compensation
  <2>2. p \in Seq(Step)
    BY OrderPops DEF Pops
  <2>3. TypeOK'
    BY <2>1, <2>2 DEF TypeOK
  <2>4. OrderInv' /\ VerdictInv'
    BY <2>1 DEF OrderInv, VerdictInv, Looping
  <2>5. LoopInv'
    <3>1. /\ position = 1 /\ unsuccessful = {} /\ failures = {}
          /\ \A s \in Step : results[s] = "none"
      BY <2>1 DEF InputInv
    <3>2. Upto(order', position' - 1) = {}
      BY <3>1, <2>1 DEF Upto
    <3> QED BY <3>1, <3>2, <2>1 DEF LoopInv, Looping
  <2>6. InputInv' /\ RollbackInv' /\ CompleteInv' /\ FinalInv'
    BY <2>1 DEF InputInv, RollbackInv, CompleteInv, FinalInv
  <2> QED BY <2>3, <2>4, <2>5, <2>6
<1> QED BY <1>1, <1>2

LEMMA LoopSteps ==
  ASSUME PipelineInv, CascadeSkip \/ ConditionFalse \/ ConditionError \/ StepSucceeds \/ StepFails
  PROVE  PipelineInv'
<1> USE DEF Settles, Stands, config
<1>1. PipelineInv => TypeOK /\ LoopInv /\ VerdictInv /\ OrderInv
  BY DEF PipelineInv
<1>2. AtLoop \/ phase \in {"executing", "fallback"} =>
        Current \notin failures /\ (Current \in Step)
  BY <1>1, CurrentFacts DEF LoopInv
<1>3. CASE CascadeSkip
  <2>1. Settles("skipped") /\ Proceed /\ Current \in unsuccessful'
    BY <1>3, <1>2 DEF CascadeSkip
  <2> HIDE DEF Settles
  <2> QED BY <2>1, AdvanceStep
<1>4. CASE ConditionFalse
  <2>1. Settles("skipped") /\ Proceed /\ Blocking(Current) = {}
    BY <1>4, <1>2 DEF ConditionFalse
  <2> HIDE DEF Settles
  <2> QED BY <2>1, AdvanceStep
<1>5. CASE ConditionError
  <2>1. Settles("failed") /\ Current \in unsuccessful'
    BY <1>5, <1>2 DEF ConditionError
  <2>2. Proceed \/ (Stop(results') /\ pipeline.onError # "continue")
    BY <1>5 DEF ConditionError, ConditionErrorTolerated
  <2> HIDE DEF Settles
  <2> QED BY <2>1, <2>2, AdvanceStep, StopStep
<1>6. CASE StepSucceeds
  <2>1. Settles("success") /\ Proceed
    BY <1>6, <1>2 DEF StepSucceeds
  <2>2. Blocking(Current) = {}
    BY <1>6, <1>1 DEF StepSucceeds, LoopInv, Looping
  <2> HIDE DEF Settles
  <2> QED BY <2>1, <2>2, AdvanceStep
<1>7. CASE StepFails
  <2> DEFINE x == IF pipeline.policy[Current] = "skip" THEN "skipped" ELSE "failed"
  <2>1. Settles(x) /\ Current \in unsuccessful' /\ x \in {"failed", "skipped"}
    BY <1>7, <1>2 DEF StepFails
  <2>2. Proceed \/ (Stop(results') /\ pipeline.onError # "continue")
    BY <1>7 DEF StepFails, Escalates
  <2> HIDE DEF Settles, x
  <2> QED BY <2>1, <2>2, AdvanceStep, StopStep
<1> QED BY <1>3, <1>4, <1>5, <1>6, <1>7

(* Launching, retrying and falling back settle nothing.                    *)
LEMMA ExecuteSteps ==
  ASSUME PipelineInv, Launch \/ Retry \/ FallBack
  PROVE  PipelineInv'
<1> USE DEF PipelineInv
<1>1. /\ Looping /\ Blocking(Current) = {} /\ position \in Step
      /\ phase' \in {"executing", "fallback"}
      /\ attempt' \in 0..MaxAttempts
      /\ pipeline' = pipeline /\ order' = order /\ position' = position
      /\ results' = results /\ unsuccessful' = unsuccessful /\ failures' = failures
      /\ status' = status /\ error' = error /\ undo' = undo /\ undone' = undone
  <2> USE DEF config, outcome, verdict, compensation
  <2>1. CASE Launch
    BY <2>1, CurrentFacts, PipelineAssumption DEF Launch, AtLoop
  <2>2. CASE Retry
    BY <2>2, PipelineAssumption DEF Retry, AttemptsLeft, Looping, LoopInv, VerdictInv, TypeOK
  <2>3. CASE FallBack
    BY <2>3 DEF FallBack, Looping, LoopInv, VerdictInv, TypeOK
  <2> QED BY <2>1, <2>2, <2>3
<1>2. TypeOK' /\ OrderInv' /\ VerdictInv' /\ InputInv'
  BY <1>1 DEF TypeOK, OrderInv, VerdictInv, InputInv, Looping
<1>3. LoopInv'
  BY <1>1 DEF LoopInv, Looping, Blocking, Current, Upto
<1>4. RollbackInv' /\ CompleteInv' /\ FinalInv'
  BY <1>1 DEF RollbackInv, CompleteInv, FinalInv
<1> QED BY <1>2, <1>3, <1>4

(* A timeout leaves the run at once; what was undone stays undone.         *)
LEMMA TimeoutSteps ==
  ASSUME PipelineInv, NestedTimeout \/ PipelineTimeout
  PROVE  PipelineInv'
<1> USE DEF PipelineInv
<1>1. /\ TimedOut /\ failures' \subseteq Step
      /\ phase \in {"loop", "executing", "fallback", "rollback"}
  BY CurrentFacts DEF NestedTimeout, PipelineTimeout, TypeOK
<1>2. /\ status' = "failed" /\ error' = "timeout" /\ phase' = "returned" /\ undo' = <<>>
      /\ pipeline' = pipeline /\ order' = order /\ position' = position /\ attempt' = attempt
      /\ undone' = undone /\ results' = results /\ unsuccessful' = unsuccessful
  BY <1>1 DEF TimedOut, config
<1>3. error \in {"none", "step"}
  BY <1>1 DEF VerdictInv, Looping
<1>4. TypeOK'
  BY <1>1, <1>2 DEF TypeOK
<1>5. OrderInv' /\ VerdictInv' /\ InputInv'
  BY <1>1, <1>2, <1>3 DEF OrderInv, VerdictInv, InputInv, Looping
<1>6. LoopInv' /\ RollbackInv' /\ CompleteInv' /\ FinalInv'
  BY <1>2 DEF LoopInv, Looping, RollbackInv, CompleteInv, FinalInv
<1> QED BY <1>4, <1>5, <1>6

(* Visiting the next step of the walk: a block is executed or there is     *)
(* none, and the order of the blocks is that of the walk.                  *)
LEMMA UndoStep ==
  ASSUME PipelineInv, Undo
  PROVE  PipelineInv'
<1> USE DEF PipelineInv
<1> DEFINE s == Head(undo)
           rest == Tail(undo)
           whole == undone \o undo
<1>1. /\ phase = "rollback" /\ undo # <<>> /\ undo' = rest
      /\ undone' = IF s \in pipeline.rollback THEN Append(undone, s) ELSE undone
      /\ pipeline' = pipeline /\ order' = order /\ phase' = phase /\ position' = position
      /\ results' = results /\ unsuccessful' = unsuccessful /\ failures' = failures
      /\ attempt' = attempt /\ status' = status /\ error' = error
  BY DEF Undo, config, outcome, verdict
<1>2. undo \in Seq(Step) /\ undone \in Seq(Step)
  BY DEF TypeOK
<1>3. /\ s \in Step /\ rest \in Seq(Step) /\ Len(undo) \in Nat \ {0} /\ Len(rest) = Len(undo) - 1
      /\ s = undo[1] /\ \A i \in 1..Len(rest) : rest[i] = undo[i + 1]
  BY <1>1, <1>2
<1>4. ToSet(undo) = {s} \cup ToSet(rest)
  <2>1. /\ ToSet(undo) = {undo[i] : i \in 1..Len(undo)}
        /\ ToSet(rest) = {rest[i] : i \in 1..Len(rest)}
    BY <1>2, <1>3, LenProperties DEF ToSet
  <2>2. \A i \in 1..Len(undo) : i = 1 \/ (i - 1 \in 1..Len(rest) /\ undo[i] = rest[i - 1])
    BY <1>3
  <2>3. 1 \in 1..Len(undo) /\ \A i \in 1..Len(rest) : i + 1 \in 1..Len(undo)
    BY <1>3
  <2> HIDE DEF s, rest
  <2>4. ToSet(undo) \subseteq {s} \cup ToSet(rest)
    BY <2>1, <2>2, <1>3
  <2>5. {s} \cup ToSet(rest) \subseteq ToSet(undo)
    BY <2>1, <2>3, <1>3
  <2> QED BY <2>4, <2>5
<1>5. undone' \in Seq(Step)
  BY <1>1, <1>2, <1>3
<1>6. TypeOK'
  BY <1>1, <1>3, <1>5 DEF TypeOK
<1>7. OrderInv' /\ VerdictInv' /\ InputInv'
  BY <1>1 DEF OrderInv, VerdictInv, InputInv, Looping
<1>8. LoopInv' /\ CompleteInv' /\ FinalInv'
  BY <1>1 DEF LoopInv, Looping, CompleteInv, FinalInv
<1>9. pipeline.onError = "rollback" /\ NewestFirst(whole)
      /\ ToSet(undone) \cup (ToSet(undo) \cap pipeline.rollback) = Compensable
  BY <1>1 DEF RollbackInv, VerdictInv
<1>10. ToSet(undone') \cup (ToSet(undo') \cap pipeline.rollback) = Compensable
  <2>1. CASE s \in pipeline.rollback
    <3>1. ToSet(undone') = ToSet(undone) \cup {s}
      <4> HIDE DEF s
      <4> QED BY <1>1, <1>2, <1>3, <2>1, ToSetAppend
    <3> QED BY <3>1, <1>1, <1>4, <1>9, <2>1
  <2>2. CASE s \notin pipeline.rollback
    BY <2>2, <1>1, <1>4, <1>9
  <2> QED BY <2>1, <2>2
<1>11. NewestFirst(undone' \o undo')
  <2> DEFINE after == undone' \o undo'
  <2>1. /\ whole \in Seq(Step) /\ Len(whole) = Len(undone) + Len(undo) /\ Len(undone) \in Nat
        /\ \A i \in 1..Len(whole) :
             whole[i] = IF i <= Len(undone) THEN undone[i] ELSE undo[i - Len(undone)]
    BY <1>2
  <2>2. CASE s \in pipeline.rollback
    <3>1. after = whole
      <4>1. undone' = undone \o <<s>>
        BY <1>1, <1>2, <1>3, <2>2, AppendIsConcat
      <4>2. undo = <<s>> \o rest
        BY <1>1, <1>2
      <4>3. <<s>> \in Seq(Step)
        BY <1>3
      <4> HIDE DEF s, rest
      <4> QED BY <4>1, <4>2, <4>3, <1>1, <1>2, <1>3, ConcatAssociative
    <3> QED BY <3>1, <1>9
  <2>3. CASE s \notin pipeline.rollback
    <3> DEFINE place(i) == IF i <= Len(undone) THEN i ELSE i + 1
    <3>1. undone' = undone /\ undo' = rest
      BY <2>3, <1>1
    <3>2. /\ Len(after) = Len(undone) + Len(rest)
          /\ \A i \in 1..Len(after) :
               after[i] = IF i <= Len(undone) THEN undone[i] ELSE rest[i - Len(undone)]
      BY <3>1, <1>2, <1>3
    <3> HIDE DEF after, whole, rest, s
    <3>3. \A i \in 1..Len(after) : place(i) \in 1..Len(whole) /\ after[i] = whole[place(i)]
      <4> SUFFICES ASSUME NEW i \in 1..Len(after)
                   PROVE  place(i) \in 1..Len(whole) /\ after[i] = whole[place(i)]
        OBVIOUS
      <4>1. CASE i <= Len(undone)
        BY <4>1, <3>2, <2>1, <1>3
      <4>2. CASE ~ (i <= Len(undone))
        <5>1. place(i) = i + 1 /\ i - Len(undone) \in 1..Len(rest) /\ i + 1 \in 1..Len(whole)
              /\ ~ (i + 1 <= Len(undone)) /\ (i + 1) - Len(undone) = (i - Len(undone)) + 1
          BY <4>2, <3>2, <2>1, <1>3
        <5>2. after[i] = undo[(i - Len(undone)) + 1]
          BY <4>2, <5>1, <3>2, <1>3
        <5>3. whole[i + 1] = undo[(i - Len(undone)) + 1]
          BY <5>1, <2>1
        <5> QED BY <5>1, <5>2, <5>3
      <4> QED BY <4>1, <4>2
    <3>4. \A i, j \in 1..Len(after) : i < j => place(i) < place(j)
      BY <3>2, <2>1, <1>3
    <3>5. NewestFirst(whole)
      BY <1>9 DEF whole
    <3> HIDE DEF place
    <3>6. NewestFirst(after)
      BY <3>3, <3>4, <3>5 DEF NewestFirst
    <3> QED BY <3>6 DEF after
  <2> QED BY <2>2, <2>3
<1>12. RollbackInv'
  <2>1. Compensable' = Compensable
    BY <1>1 DEF Compensable
  <2>2. NewestFirst(undone \o undo)'
    <3>1. order' = order
      BY <1>1
    <3> QED BY <1>11, <3>1 DEF NewestFirst
  <2> QED BY <2>1, <2>2, <1>1, <1>10 DEF RollbackInv
<1> QED BY <1>6, <1>7, <1>8, <1>12

(* The end of run().                                                       *)
LEMMA EndSteps ==
  ASSUME PipelineInv, Return \/ Finish
  PROVE  PipelineInv'
<1> USE DEF PipelineInv
<1>1. CASE Return
  <2>1. /\ \/ phase = "loop" /\ position > StepCount
           \/ phase = "rollback" /\ undo = <<>>
        /\ phase' = "returned"
        /\ pipeline' = pipeline /\ order' = order /\ position' = position
        /\ results' = results /\ unsuccessful' = unsuccessful /\ failures' = failures
        /\ attempt' = attempt /\ status' = status /\ error' = error
        /\ undo' = undo /\ undone' = undone
    BY <1>1 DEF Return, config, outcome, verdict, compensation
  <2>2. TypeOK' /\ OrderInv' /\ VerdictInv' /\ InputInv'
    BY <2>1 DEF TypeOK, OrderInv, VerdictInv, InputInv, Looping
  <2>3. LoopInv' /\ FinalInv'
    BY <2>1 DEF LoopInv, Looping, FinalInv
  <2>4. RollbackInv'
    BY <2>1 DEF RollbackInv, VerdictInv, Looping, Compensable, NewestFirst
  <2>5. CompleteInv'
    <3>1. CASE phase = "loop"
      <4>1. position - 1 = StepCount /\ error = "none"
        BY <2>1, <3>1, StepType DEF TypeOK, VerdictInv, Looping
      <4>2. Upto(order, StepCount) = Step
        BY <3>1, <4>1, UptoAll
      <4>3. \A s \in Step : results[s] # "none"
        BY <3>1, <4>1, <4>2 DEF LoopInv, Looping
      <4> QED BY <4>3, <2>1 DEF CompleteInv
    <3>2. CASE phase = "rollback"
      BY <3>2, <2>1 DEF CompleteInv, VerdictInv
    <3> QED BY <2>1, <3>1, <3>2
  <2> QED BY <2>2, <2>3, <2>4, <2>5
<1>2. CASE Finish
  <2> DEFINE final == IF status = "running" THEN FinalStatus ELSE status
  <2>1. /\ phase = "returned" /\ phase' = "ended"
        /\ \/ status' = final /\ error' = error
           \/ final # "failed" /\ status' = "failed" /\ error' = "schema"
        /\ pipeline' = pipeline /\ order' = order /\ position' = position
        /\ results' = results /\ unsuccessful' = unsuccessful /\ failures' = failures
        /\ attempt' = attempt /\ undo' = undo /\ undone' = undone
    BY <1>2 DEF Finish, config, outcome, compensation
  <2>2. FinalStatus \in {"success", "partial", "failed"}
    BY DEF FinalStatus
  <2>3. /\ error # "none" => status = "failed" /\ final = "failed"
        /\ error = "none" => status = "running" /\ final = FinalStatus
    BY <2>1 DEF VerdictInv
  <2>4. FinalStatus' = FinalStatus
    BY <2>1 DEF FinalStatus, Failed
  <2> HIDE DEF final
  <2>5. TypeOK'
    BY <2>1, <2>2, <2>3 DEF TypeOK
  <2>6. OrderInv' /\ VerdictInv' /\ InputInv'
    BY <2>1, <2>3 DEF OrderInv, VerdictInv, InputInv, Looping
  <2>7. LoopInv' /\ CompleteInv' /\ FinalInv'
    BY <2>1, <2>3, <2>4 DEF LoopInv, Looping, CompleteInv, FinalInv
  <2>8. RollbackInv'
    BY <2>1, <2>3 DEF RollbackInv, Compensable, NewestFirst
  <2> QED BY <2>5, <2>6, <2>7, <2>8
<1> QED BY <1>1, <1>2

------------------------------------------------------------------------------
(* Everything a step depends on.                                           *)

Named == Step \cup {Unknown}

WithUpstreams(reached) == reached \cup UNION {pipeline.upstreams[u] : u \in reached \cap Step}

LEMMA AncestorsExist ==
  ASSUME pipeline.upstreams \in Upstreams, NEW s \in Step
  PROVE  \E f : f = [n \in 0..StepCount |->
                      IF n = 0 THEN pipeline.upstreams[s]
                      ELSE f[n - 1] \cup UNION {pipeline.upstreams[u] : u \in f[n - 1] \cap Step}]
<1> DEFINE next == [i \in Nat |-> [r \in SUBSET Named |-> WithUpstreams(r)]]
<1>1. pipeline.upstreams[s] \in SUBSET Named
  BY DEF Upstreams, Named
<1>2. \A r \in SUBSET Named : WithUpstreams(r) \in SUBSET Named
  BY DEF Upstreams, Named, WithUpstreams
<1>3. next \in [Nat -> [SUBSET Named -> SUBSET Named]]
  BY <1>2
<1>4. \A i \in Nat, r \in SUBSET Named : next[i][r] = WithUpstreams(r)
  OBVIOUS
<1> HIDE DEF next
<1>5. PICK f : Iterates(f, StepCount, SUBSET Named, pipeline.upstreams[s], next)
  BY <1>1, <1>3, StepType, RecursionExists
<1>6. /\ f \in [0..StepCount -> SUBSET Named]
      /\ f[0] = pipeline.upstreams[s] /\ \A i \in 1..StepCount : f[i] = next[i][f[i - 1]]
  BY <1>5 DEF Iterates
<1>7. \A i \in 1..StepCount : f[i] = WithUpstreams(f[i - 1])
  <2> SUFFICES ASSUME NEW i \in 1..StepCount PROVE f[i] = WithUpstreams(f[i - 1])
    OBVIOUS
  <2>1. i \in Nat /\ i - 1 \in 0..StepCount
    BY StepType
  <2> QED BY <2>1, <1>4, <1>6
<1>8. f = [n \in 0..StepCount |-> IF n = 0 THEN pipeline.upstreams[s] ELSE WithUpstreams(f[n - 1])]
  <2>1. \A n \in 0..StepCount : n # 0 => n \in 1..StepCount
    BY StepType
  <2> QED BY <2>1, <1>6, <1>7
<1> QED BY <1>8 DEF WithUpstreams

(* A set that holds the upstreams of s and of its own members holds all of *)
(* them.                                                                   *)
LEMMA AncestorsWithin ==
  ASSUME pipeline.upstreams \in Upstreams, NEW s \in Step, NEW C,
         pipeline.upstreams[s] \subseteq C,
         \A u \in C \cap Step : pipeline.upstreams[u] \subseteq C
  PROVE  Ancestors(s) \subseteq C
<1> DEFINE IsReach(f) ==
             f = [n \in 0..StepCount |->
                    IF n = 0 THEN pipeline.upstreams[s]
                    ELSE f[n - 1] \cup UNION {pipeline.upstreams[u] : u \in f[n - 1] \cap Step}]
           reach == CHOOSE f : IsReach(f)
<1>1. Ancestors(s) = reach[StepCount]
  BY DEF Ancestors
<1>2. IsReach(reach)
  <2>1. \E f : IsReach(f)
    BY AncestorsExist
  <2> HIDE DEF IsReach
  <2> QED BY <2>1
<1>3. reach = [n \in 0..StepCount |->
                 IF n = 0 THEN pipeline.upstreams[s] ELSE WithUpstreams(reach[n - 1])]
  BY <1>2 DEF WithUpstreams
<1> HIDE DEF IsReach, reach
<1>4. reach[0] = pipeline.upstreams[s]
      /\ \A n \in 0..(StepCount - 1) : reach[n + 1] = WithUpstreams(reach[n])
  <2>1. \A i \in 0..(StepCount - 1) : i + 1 \in 0..StepCount /\ i + 1 # 0 /\ (i + 1) - 1 = i
    BY StepType
  <2>2. 0 \in 0..StepCount
    BY StepType
  <2> QED BY <2>1, <2>2, <1>3
<1> DEFINE T == {n \in Nat : reach[n] \subseteq C}
<1>5. 0 \in T
  BY <1>4
<1>6. ASSUME NEW n \in 0..(StepCount - 1), n \in T PROVE n + 1 \in T
  <2>1. reach[n] \subseteq C /\ reach[n + 1] = WithUpstreams(reach[n]) /\ n \in Nat
    BY <1>4, <1>6
  <2>2. WithUpstreams(reach[n]) \subseteq C
    BY <2>1 DEF WithUpstreams
  <2> QED BY <2>1, <2>2
<1> HIDE DEF T
<1>7. \A i \in 0..StepCount : i \in T
  BY <1>5, <1>6, StepType, BoundedInduction
<1>8. reach[StepCount] \subseteq C
  BY <1>7, StepType DEF T
<1> QED BY <1>1, <1>8

------------------------------------------------------------------------------
LEMMA PipelineInvInit == Init => PipelineInv
<1> SUFFICES ASSUME Init PROVE PipelineInv
  OBVIOUS
<1>1. TypeOK
  BY StepType, PipelineAssumption DEF Init, TypeOK
<1>2. OrderInv /\ VerdictInv /\ InputInv /\ LoopInv /\ RollbackInv /\ CompleteInv /\ FinalInv
  BY DEF Init, OrderInv, VerdictInv, InputInv, LoopInv, Looping, RollbackInv, CompleteInv, FinalInv
<1> QED BY <1>1, <1>2 DEF PipelineInv

LEMMA PipelineInvStep == PipelineInv /\ [Next]_vars => PipelineInv'
<1> SUFFICES ASSUME PipelineInv, [Next]_vars PROVE PipelineInv'
  OBVIOUS
<1> USE DEF PipelineInv
<1>1. CASE UNCHANGED vars
  <2>1. /\ phase' = phase /\ pipeline' = pipeline /\ order' = order /\ position' = position
        /\ results' = results /\ unsuccessful' = unsuccessful /\ failures' = failures
        /\ attempt' = attempt /\ status' = status /\ error' = error
        /\ undo' = undo /\ undone' = undone
    BY <1>1 DEF vars, config, outcome, verdict, compensation
  <2>2. TypeOK' /\ OrderInv' /\ VerdictInv' /\ InputInv'
    BY <2>1 DEF TypeOK, OrderInv, VerdictInv, InputInv, Looping
  <2>3. LoopInv' /\ CompleteInv'
    BY <2>1 DEF LoopInv, Looping, Blocking, Current, CompleteInv
  <2>4. FinalInv'
    BY <2>1 DEF FinalInv, FinalStatus, Failed
  <2>5. RollbackInv'
    BY <2>1 DEF RollbackInv, Compensable, NewestFirst
  <2> QED BY <2>2, <2>3, <2>4, <2>5
<1>2. CASE Next
  BY <1>2, BeginStep, LoopSteps, ExecuteSteps, TimeoutSteps, UndoStep, EndSteps DEF Next
<1> QED BY <1>1, <1>2

LEMMA PipelineInvariant == Spec => []PipelineInv
BY PipelineInvInit, PipelineInvStep, PTL DEF Spec

(* The variables keep their types.                                         *)
THEOREM TypeCorrect == Spec => []TypeOK
<1>1. PipelineInv => TypeOK
  BY DEF PipelineInv
<1> QED BY <1>1, PipelineInvariant, PTL

(* engine.py, compute_execution_order: a run that begins goes by the least *)
(* permutation that puts every step behind its upstreams, and one is       *)
(* refused only if no permutation does.                                    *)
THEOREM RunsInLeastOrder == Spec => []OrderIsLeastTopological
<1>1. PipelineInv => OrderIsLeastTopological
  <2> SUFFICES ASSUME PipelineInv, (phase = "loop" /\ position = 1) \/ error = "ordering"
               PROVE  LET all == Topological(pipeline.upstreams) IN
                        IF all = {} THEN error = "ordering"
                        ELSE order \in all /\ \A p \in all : p = order \/ Before(order, p)
    BY DEF OrderIsLeastTopological
  <2>1. CASE error = "ordering"
    BY <2>1, OrderIsLeast DEF PipelineInv, OrderInv
  <2>2. CASE error # "ordering"
    <3>1. order = ExecutionOrder(pipeline.upstreams) /\ Schedulable(pipeline.upstreams)
      BY <2>2 DEF PipelineInv, OrderInv, VerdictInv, Looping
    <3> QED BY <3>1, OrderIsLeast
  <2> QED BY <2>1, <2>2
<1> QED BY <1>1, PipelineInvariant, PTL

(* engine.py, the status of a finished run: `success` hides no step that   *)
(* failed or was never reached, and `partial` says that some failed, some  *)
(* did not, and all were settled.                                          *)
THEOREM StatusCorrect == Spec => []StatusIsHonest
<1>1. PipelineInv => StatusIsHonest
  <2> SUFFICES ASSUME PipelineInv, phase = "ended"
               PROVE  /\ status = "success" => \A s \in Step : results[s] \in {"success", "skipped"}
                      /\ status = "partial" => /\ Failed # {}
                                               /\ \E s \in Step : results[s] \in {"success", "skipped"}
                                               /\ \A s \in Step : results[s] # "none"
                      /\ status # "running"
    BY DEF StatusIsHonest
  <2>1. /\ results \in [Step -> {"none", "success", "failed", "skipped"}]
        /\ status \in {"failed"} \cup (IF error = "none" THEN {FinalStatus} ELSE {})
        /\ error = "none" => \A s \in Step : results[s] # "none"
    BY DEF PipelineInv, TypeOK, FinalInv, CompleteInv
  <2>2. CASE status = "failed"
    BY <2>2
  <2>3. CASE error = "none" /\ status = FinalStatus
    BY <2>1, <2>3 DEF FinalStatus, Failed
  <2> QED BY <2>1, <2>2, <2>3
<1> QED BY <1>1, PipelineInvariant, PTL

(* engine.py: under `continue` nothing but a timeout or a broken schema    *)
(* keeps a step of the list from having a result.                          *)
THEOREM ContinueCorrect == Spec => []ContinueLeavesNoStepOut
<1>1. PipelineInv => ContinueLeavesNoStepOut
  BY DEF PipelineInv, ContinueLeavesNoStepOut, CompleteInv, VerdictInv
<1> QED BY <1>1, PipelineInvariant, PTL

(* engine.py, _run_rollbacks: exactly the succeeded steps that have a      *)
(* block are compensated, each once, newest first, whatever the blocks do. *)
THEOREM RollbackCorrect == Spec => []RollbackUnwinds
<1>1. PipelineInv => RollbackUnwinds
  <2> SUFFICES ASSUME PipelineInv, phase = "ended"
               PROVE  IF pipeline.onError = "rollback" /\ error = "step"
                      THEN ToSet(undone) = Compensable /\ NewestFirst(undone)
                      ELSE error # "timeout" => undone = <<>>
    BY DEF RollbackUnwinds
  <2>1. CASE pipeline.onError = "rollback" /\ error = "step"
    <3>1. /\ ToSet(undone) \cup (ToSet(undo) \cap pipeline.rollback) = Compensable
          /\ NewestFirst(undone \o undo) /\ undo = <<>> /\ undone \in Seq(Step)
      BY <2>1 DEF PipelineInv, RollbackInv, TypeOK
    <3>2. ToSet(undo) = {} /\ undone \o undo = undone
      BY <3>1 DEF ToSet
    <3> QED BY <2>1, <3>1, <3>2
  <2>2. CASE ~ (pipeline.onError = "rollback" /\ error = "step")
    BY <2>2 DEF PipelineInv, VerdictInv
  <2> QED BY <2>1, <2>2
<1> QED BY <1>1, PipelineInvariant, PTL

(* engine.py, the cascade: the step about to be executed depends on no     *)
(* step that failed, at any distance and whatever became of the failure.   *)
THEOREM CascadeIsTransitive == Spec => NoStepAfterFailedUpstream
<1>1. PipelineInv /\ [Next]_vars =>
        [phase = "loop" /\ phase' = "executing" => Ancestors(Current) \cap failures = {}]_vars
  <2> SUFFICES ASSUME PipelineInv, [Next]_vars, phase = "loop", phase' = "executing"
               PROVE  Ancestors(Current) \cap failures = {}
    OBVIOUS
  <2>1. Launch
    BY DEF Next, vars, RejectInput, Begin, CascadeSkip, ConditionFalse, ConditionError, StepSucceeds,
           StepFails, Proceed, Stop, Retry, FallBack, NestedTimeout, PipelineTimeout, TimedOut, Undo,
           Return, Finish
  <2> DEFINE clean == Upto(order, position - 1) \ unsuccessful
  <2>2. /\ Current \in Step /\ pipeline.upstreams[Current] \subseteq Upto(order, position - 1)
        /\ pipeline.upstreams \in Upstreams
    BY <2>1, CurrentFacts, PipelineType DEF Launch, PipelineInv
  <2>3. pipeline.upstreams[Current] \subseteq clean
    BY <2>1, <2>2 DEF Launch, Blocking
  <2>4. failures \subseteq unsuccessful /\ \A u \in clean : pipeline.upstreams[u] \subseteq clean
    BY DEF PipelineInv, LoopInv, Looping
  <2> HIDE DEF clean
  <2>5. Ancestors(Current) \subseteq clean
    BY <2>2, <2>3, <2>4, AncestorsWithin
  <2> QED BY <2>4, <2>5 DEF clean
<1> QED BY <1>1, PipelineInvariant, PTL DEF Spec, NoStepAfterFailedUpstream
==============================================================================

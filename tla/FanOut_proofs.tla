---------------------------- MODULE FanOut_proofs ----------------------------
(***************************************************************************)
(* Theorems about FanOut for every finite set of items and any limits.     *)
(***************************************************************************)
EXTENDS FanOut, FiniteSetTheorems, TLAPS

(* Rounds come one after the other, and only a batch has a second one.     *)
RoundInv ==
  /\ \A j \in Job : j[1] > round => job[j] = "idle"
  /\ kind # "batch" => round = 1

(* The coordinator takes jobs that have ended; only a batch reports under  *)
(* the lock; nobody is told to stop before the call is cancelled.          *)
TakenInv ==
  /\ \A j \in seen : j \in Current /\ job[j] \in Ended
  /\ \A j \in Job : job[j] \in {"counting", "reporting"} => kind = "batch"
  /\ kind = "batch" => seen = {}
  /\ told \subseteq Working
  /\ step = "running" => told = {}

(* Once the call is cancelled or over, what still works was told to stop.  *)
StopInv ==
  step # "running" /\ (Gathers \/ kind = "map") =>
    \A j \in Working : j \in told \/ (kind = "batch" /\ (step = "failed" \/ j[1] < round))

ShapeInv == RoundInv /\ TakenInv /\ StopInv

Reporting == {i \in Item : job[<<1, i>>] = "reporting"}

(* While targets give no counts of their own: one item of a batch reports  *)
(* at a time, and the count it set is the only one that may be missing     *)
(* from the events. A target's report may have shown it already.           *)
BatchCountInv ==
  kind = "batch" /\ counts = {} /\ round = 1 /\ step # "failed" =>
    /\ progress = done[1]
    /\ \A i, k \in Reporting : i = k
    /\ done[1] \in {emitted, emitted + 1}
    /\ step = "running" /\ Reporting = {} => done[1] = emitted

(* A map step counts the items it has taken; the events do not run ahead.  *)
MapCountInv ==
  /\ calling # None => kind = "map"
  /\ kind = "map" /\ counts = {} => progress = Cardinality(seen)
  /\ kind # "batch" /\ counts = {} => emitted <= progress

CountInv == BatchCountInv /\ MapCountInv

FanOutInv == TypeOK /\ ShapeInv /\ CountInv

(* The steps of a job, and the reports of targets, which change nothing of *)
(* the coordinator's.                                                      *)
ItemStep(j) == JobStep(j) \/ TargetReports \/ TargetReported

------------------------------------------------------------------------------
LEMMA RoundFacts ==
  /\ Round \subseteq Nat
  /\ 1 \in Round
  /\ \A j \in Job : j[1] \in Round /\ j[2] \in Item /\ j = <<j[1], j[2]>>
  /\ \A i \in Item : <<1, i>> \in Job
BY FanOutAssumption DEF Round, Job

LEMMA NextCases ==
  ASSUME Next
  PROVE  \/ \E j \in Job : ItemStep(j) \/ ReportFails(j) \/ Take(j)
         \/ CalledBack \/ End \/ Cancel \/ Cancelled
<1>1. Job # {}
  BY RoundFacts, FanOutAssumption
<1> QED BY <1>1 DEF Next, Coordinate, ItemStep

LEMMA InitKeeps == Init => FanOutInv
<1> SUFFICES ASSUME Init PROVE FanOutInv
  OBVIOUS
<1> USE RoundFacts
<1>1. TypeOK
  BY DEF Init, TypeOK, Holding, Ended
<1>2. ShapeInv
  BY DEF Init, ShapeInv, RoundInv, TakenInv, StopInv, Job, Round
<1>3. Reporting = {}
  BY DEF Init, Reporting
<1>4. Cardinality({}) = 0
  BY FS_EmptySet
<1>5. CountInv
  BY <1>3, <1>4 DEF Init, CountInv, BatchCountInv, MapCountInv
<1> QED
  BY <1>1, <1>2, <1>5 DEF FanOutInv

------------------------------------------------------------------------------
(* Types.                                                                  *)

LEMMA ItemStepTypes ==
  ASSUME TypeOK, NEW j \in Job, ItemStep(j)
  PROVE  TypeOK'
<1> USE RoundFacts DEF TypeOK, config, Holding, Ended, Move, Finish
<1>1. CASE Acquire(j)
  BY <1>1 DEF Acquire
<1>2. CASE BatchItemReturns(j) \/ Report(j) \/ Reported(j)
  BY <1>2 DEF BatchItemReturns, Report, Reported
<1>3. CASE BranchReturns(j)
  BY <1>3 DEF BranchReturns, Released
<1>4. CASE MapItemReturns(j) \/ MapItemRetries(j) \/ FallbackReturns(j)
  BY <1>4 DEF MapItemReturns, MapItemRetries, FallbackReturns
<1>5. CASE Unwind(j)
  BY <1>5 DEF Unwind
<1>6. CASE TargetReports
  BY <1>6, FanOutAssumption DEF TargetReports
<1>7. CASE TargetReported
  BY <1>7 DEF TargetReported
<1> QED
  BY <1>1, <1>2, <1>3, <1>4, <1>5, <1>6, <1>7 DEF ItemStep, JobStep

LEMMA SeenIsFinite ==
  ASSUME TypeOK
  PROVE  IsFiniteSet(seen) /\ Cardinality(seen) \in Nat
<1>1. IsFiniteSet(Round)
  <2>1. 1 \in Int /\ MaxRounds \in Int
    BY FanOutAssumption
  <2>2. IsFiniteSet(1..MaxRounds)
    BY ONLY <2>1, FS_Interval
  <2> QED
    BY <2>2 DEF Round
<1>2. IsFiniteSet(Round \X Item)
  BY <1>1, FS_Product, FanOutAssumption
<1> QED
  BY <1>2, FS_Subset, FS_CardinalityType DEF Job, TypeOK

LEMMA CoordinatorTypes ==
  ASSUME FanOutInv,
         CalledBack \/ End \/ Cancel \/ Cancelled
         \/ \E j \in Job : ReportFails(j) \/ Take(j)
  PROVE  TypeOK'
<1> USE RoundFacts DEF FanOutInv, TypeOK, config, Holding, Ended
<1>1. CASE CalledBack
  BY <1>1 DEF CalledBack
<1>2. CASE End
  BY <1>2 DEF End
<1>3. CASE Cancel
  BY <1>3 DEF Cancel, ToldToStop, Working
<1>4. CASE Cancelled
  BY <1>4 DEF Cancelled
<1>5. ASSUME NEW j \in Job, ReportFails(j)
      PROVE  TypeOK'
  <2>1. job' \in [Job -> Holding \cup Ended \cup {"idle", "waiting"}]
    BY <1>5 DEF ReportFails, Move
  <2>2. round' \in Round /\ step' \in {"running", "cancelling", "ok", "failed", "cancelled"}
    BY <1>5, FanOutAssumption DEF ReportFails, Round
  <2> QED
    BY <1>5, <2>1, <2>2 DEF ReportFails
<1>6. ASSUME NEW j \in Job, Take(j)
      PROVE  TypeOK'
  <2>1. seen' \subseteq Job
    BY <1>6 DEF Take
  <2>2. calling' \in Item \cup {None}
    BY <1>6 DEF Take
  <2>3. progress' \in Nat
    <3>1. CASE kind = "map"
      BY <1>6, <3>1, SeenIsFinite DEF Take
    <3>2. CASE kind # "map"
      BY <1>6, <3>2 DEF Take
    <3> QED
      BY <3>1, <3>2
  <2> QED
    BY <1>6, <2>1, <2>2, <2>3 DEF Take
<1> QED
  BY <1>1, <1>2, <1>3, <1>4, <1>5, <1>6

------------------------------------------------------------------------------
(* Who still works, and who was told.                                      *)

\* What the steps of a job have in common.
Quieter ==
  /\ UNCHANGED <<kind, strategy, round, step, seen>>
  /\ told' \subseteq told
  /\ \A k \in Job : \/ job'[k] = job[k]
                    \/ job[k] \notin Ended \cup {"idle"} /\ job'[k] # "idle"
  /\ \A k \in told' : job'[k] = job[k]
  /\ \A k \in told : k \in told' \/ job'[k] \in Ended
  /\ \A k \in Job : job'[k] \in {"counting", "reporting"} => kind = "batch"

LEMMA ItemStepIsQuieter ==
  ASSUME FanOutInv, NEW j \in Job, ItemStep(j)
  PROVE  Quieter
<1> USE DEF FanOutInv, TypeOK, ShapeInv, TakenInv, Quieter, config, Ended, Move, Finish
<1>1. CASE Acquire(j)
  BY <1>1 DEF Acquire
<1>2. CASE BatchItemReturns(j)
  BY <1>2 DEF BatchItemReturns
<1>3. CASE Report(j) \/ Reported(j)
  BY <1>3 DEF Report, Reported
<1>4. CASE BranchReturns(j)
  BY <1>4 DEF BranchReturns, Released
<1>5. CASE MapItemReturns(j)
  BY <1>5 DEF MapItemReturns
<1>6. CASE MapItemRetries(j)
  BY <1>6 DEF MapItemRetries
<1>7. CASE FallbackReturns(j)
  <2>1. job' = [job EXCEPT ![j] = "ok"] \/ job' = [job EXCEPT ![j] = "failed"]
    BY <1>7 DEF FallbackReturns
  <2> QED
    BY <1>7, <2>1 DEF FallbackReturns
<1>8. CASE Unwind(j)
  <2>1. /\ job' = [job EXCEPT ![j] = "cancelled"]
        /\ told' = told \ {j} /\ j \in told
        /\ UNCHANGED <<kind, strategy, round, step, seen>>
    BY <1>8 DEF Unwind
  <2>2. job[j] \notin Ended \cup {"idle"}
    BY <2>1 DEF Working
  <2> QED
    BY <2>1, <2>2
<1>9. CASE TargetReports \/ TargetReported
  BY <1>9 DEF TargetReports, TargetReported
<1> QED
  BY <1>1, <1>2, <1>3, <1>4, <1>5, <1>6, <1>7, <1>8, <1>9 DEF ItemStep, JobStep

LEMMA QuieterKeepsShape ==
  ASSUME FanOutInv, Quieter
  PROVE  ShapeInv'
<1> USE DEF FanOutInv, TypeOK, ShapeInv, Quieter
<1>1. RoundInv'
  BY DEF RoundInv
<1>2. TakenInv'
  <2>1. Current' = Current
    BY DEF Current
  <2>2. ASSUME NEW k \in seen
        PROVE  k \in Current /\ job'[k] \in Ended
    <3>1. k \in Job /\ k \in Current /\ job[k] \in Ended
      BY <2>2 DEF TakenInv
    <3> QED
      BY <3>1
  <2>3. step' = "running" => told' = {}
    BY DEF TakenInv
  <2>4. told' \subseteq Working'
    <3> SUFFICES ASSUME NEW k \in told'
                 PROVE  job'[k] \notin Ended \cup {"idle"}
      BY DEF Working
    <3>1. k \in told /\ k \in Job /\ job[k] \notin Ended \cup {"idle"}
      BY DEF TakenInv, Working
    <3> QED
      BY <3>1
  <2> QED
    BY <2>1, <2>2, <2>3, <2>4 DEF TakenInv
<1>3. Working' \subseteq Working
  BY DEF Working
<1>4. Gathers' = Gathers
  BY DEF Gathers
<1>5. StopInv'
  <2> SUFFICES ASSUME step # "running", Gathers \/ kind = "map", NEW k \in Working'
               PROVE  k \in told' \/ (kind = "batch" /\ (step = "failed" \/ k[1] < round))
    BY <1>4 DEF StopInv
  <2>1. k \in Working /\ job'[k] \notin Ended
    BY <1>3 DEF Working
  <2>2. k \in told \/ (kind = "batch" /\ (step = "failed" \/ k[1] < round))
    BY <2>1 DEF StopInv
  <2> QED
    BY <2>1, <2>2
<1> QED
  BY <1>1, <1>2, <1>5

LEMMA ReportFailsKeepsShape ==
  ASSUME FanOutInv, NEW j \in Job, ReportFails(j)
  PROVE  ShapeInv'
<1> USE RoundFacts, FanOutAssumption
    DEF FanOutInv, TypeOK, ShapeInv, config, Move, Ended
<1>1. kind = "batch" /\ SaveFails /\ j \notin told /\ job[j] = "reporting"
  BY DEF ReportFails, TakenInv
<1>2. kind' = "batch" /\ seen' = seen /\ told' = told
  BY <1>1 DEF ReportFails
<1>3. CASE j[1] # round \/ step # "running"
  <2>1. job' = [job EXCEPT ![j] = "failed"] /\ UNCHANGED <<round, step>>
    BY <1>3 DEF ReportFails
  <2>2. Quieter
    BY <1>1, <1>2, <2>1 DEF ReportFails, Quieter, TakenInv
  <2> QED
    BY <2>2, QuieterKeepsShape
<1>4. CASE ~(j[1] # round \/ step # "running") /\ round = MaxRounds
  <2>1. job' = [job EXCEPT ![j] = "failed"] /\ step' = "failed" /\ round' = round
    BY <1>4 DEF ReportFails
  <2>2. told = {} /\ seen = {}
    BY <1>1, <1>4 DEF TakenInv
  <2>3. RoundInv'
    BY <1>1, <1>2, <2>1 DEF RoundInv
  <2>4. TakenInv'
    BY <1>1, <1>2, <2>1, <2>2 DEF TakenInv
  <2>5. StopInv'
    BY <1>1, <1>2, <2>1 DEF StopInv
  <2> QED
    BY <2>3, <2>4, <2>5
<1>5. CASE ~(j[1] # round \/ step # "running") /\ round # MaxRounds
  <2>1. /\ round' = round + 1 /\ step' = "running"
        /\ job' = [k \in Job |-> IF k[1] = round + 1 THEN "waiting"
                                 ELSE IF k = j THEN "failed" ELSE job[k]]
    BY <1>5 DEF ReportFails
  <2>2. RoundInv'
    BY <1>1, <1>2, <2>1 DEF RoundInv, Round
  <2>3. seen = {}
    BY <1>1 DEF TakenInv
  <2>4. TakenInv'
    BY <1>1, <1>2, <1>5, <2>1, <2>3 DEF TakenInv, Working
  <2>5. StopInv'
    BY <2>1 DEF StopInv
  <2> QED
    BY <2>2, <2>4, <2>5
<1> QED
  BY <1>3, <1>4, <1>5

LEMMA TakeKeepsShape ==
  ASSUME FanOutInv, NEW j \in Job, Take(j)
  PROVE  ShapeInv'
<1> USE DEF FanOutInv, TypeOK, ShapeInv, Take, config, Ended
<1>1. RoundInv'
  BY DEF RoundInv
<1>2. TakenInv'
  BY DEF TakenInv, Current, Working, Gathers
<1>3. StopInv'
  BY DEF StopInv
<1> QED
  BY <1>1, <1>2, <1>3

LEMMA CalledBackKeepsShape ==
  ASSUME FanOutInv, CalledBack
  PROVE  ShapeInv'
BY DEF FanOutInv, ShapeInv, RoundInv, TakenInv, StopInv, CalledBack, Current, Working,
       config

LEMMA EndKeepsShape ==
  ASSUME FanOutInv, End
  PROVE  ShapeInv'
<1> USE DEF FanOutInv, TypeOK, ShapeInv, End, config
<1>1. RoundInv'
  BY DEF RoundInv
<1>2. TakenInv'
  BY DEF TakenInv, Current, Working
<1>3. StopInv'
  <2> SUFFICES ASSUME Gathers \/ kind = "map", NEW k \in Working
               PROVE  kind = "batch" /\ k[1] < round
    BY DEF StopInv, Gathers, Working
  <2>1. k \in Job /\ job[k] \notin Ended \cup {"idle"}
    BY DEF Working
  <2>2. k[1] \in Nat /\ round \in Nat /\ k[1] <= round
    BY <2>1, RoundFacts DEF RoundInv
  <2>3. k \notin Current
    <3>1. CASE Gathers
      BY <3>1 DEF Gathers
    <3>2. CASE ~Gathers
      BY <3>2, <2>1 DEF Gathers, TakenInv
    <3> QED
      BY <3>1, <3>2
  <2>4. k[1] # round
    BY <2>1, <2>3, RoundFacts DEF Current
  <2>5. kind = "batch"
    BY <2>2, <2>4, <2>1, RoundFacts DEF RoundInv, Round
  <2> QED
    BY <2>2, <2>4, <2>5
<1> QED
  BY <1>1, <1>2, <1>3

LEMMA CancelKeepsShape ==
  ASSUME FanOutInv, Cancel
  PROVE  ShapeInv'
<1> USE DEF FanOutInv, TypeOK, ShapeInv, Cancel, config
<1>1. RoundInv'
  BY DEF RoundInv
<1>2. told \subseteq Working /\ ToldToStop \subseteq Working
  BY DEF TakenInv, ToldToStop
<1>3. TakenInv'
  BY <1>2 DEF TakenInv, Current, Working
<1>4. StopInv'
  <2> SUFFICES ASSUME Gathers \/ kind = "map", NEW k \in Working
               PROVE  k \in told' \/ (kind = "batch" /\ k[1] < round)
    BY DEF StopInv, Gathers, Working
  <2>1. k \in Job /\ job[k] \notin Ended \cup {"idle"}
    BY DEF Working
  <2>2. k[1] \in Nat /\ round \in Nat /\ k[1] <= round
    BY <2>1, RoundFacts DEF RoundInv
  <2>3. CASE k \in Current
    BY <2>3 DEF ToldToStop
  <2>4. CASE k \notin Current
    <3>1. k[1] # round
      BY <2>1, <2>4, RoundFacts DEF Current
    <3>2. kind = "batch"
      BY <2>2, <3>1, <2>1, RoundFacts DEF RoundInv, Round
    <3> QED
      BY <2>2, <3>1, <3>2
  <2> QED
    BY <2>3, <2>4
<1> QED
  BY <1>1, <1>3, <1>4

LEMMA CancelledKeepsShape ==
  ASSUME FanOutInv, Cancelled
  PROVE  ShapeInv'
<1> USE DEF FanOutInv, TypeOK, ShapeInv, Cancelled, config
<1>1. RoundInv' /\ TakenInv'
  BY DEF RoundInv, TakenInv, Current, Working
<1>2. StopInv'
  BY DEF StopInv, Gathers, Working
<1> QED
  BY <1>1, <1>2

------------------------------------------------------------------------------
(* Counts.                                                                 *)

\* Whose report is under way, and what has been counted and emitted, stay.
Uncounted ==
  /\ UNCHANGED <<kind, counts, round, step, seen, calling, done, progress, emitted>>
  /\ Reporting' = Reporting

LEMMA UncountedKeeps ==
  ASSUME CountInv, Uncounted
  PROVE  CountInv'
BY DEF CountInv, BatchCountInv, MapCountInv, Uncounted

\* In the first round an item that reports, or is about to, has not been told to
\* stop, and so the batch still runs.
LEMMA FirstRoundRuns ==
  ASSUME FanOutInv, NEW j \in Job, job[j] \in {"counting", "reporting"}, j \notin told,
         round = 1, step # "failed"
  PROVE  kind = "batch" /\ step = "running" /\ j[1] = 1 /\ j = <<1, j[2]>>
<1> USE RoundFacts DEF FanOutInv, TypeOK, ShapeInv
<1>1. kind = "batch"
  BY DEF TakenInv
<1>2. j[1] = 1
  <2>1. j[1] \in Nat /\ j[1] >= 1
    BY FanOutAssumption DEF Round
  <2>2. ~(j[1] > 1)
    BY DEF RoundInv
  <2> QED
    BY <2>1, <2>2
<1>3. j \in Working
  BY DEF Working, Ended
<1>4. step = "running"
  BY <1>1, <1>2, <1>3 DEF StopInv, Gathers
<1> QED
  BY <1>1, <1>2, <1>4

LEMMA ReportKeepsCount ==
  ASSUME FanOutInv, NEW j \in Job, Report(j)
  PROVE  CountInv'
<1> USE RoundFacts DEF FanOutInv, TypeOK, ShapeInv, CountInv, config
<1>1. kind = "batch" /\ job[j] = "counting" /\ j \notin told
  BY DEF Report, TakenInv
<1>2. MapCountInv'
  BY <1>1 DEF Report, MapCountInv
<1>3. BatchCountInv'
  <2> SUFFICES ASSUME counts = {}, round = 1, step # "failed"
               PROVE  /\ progress' = done'[1]
                      /\ \A i, k \in Reporting' : i = k
                      /\ done'[1] \in {emitted', emitted' + 1}
                      /\ step' = "running" /\ Reporting' = {} => done'[1] = emitted'
    BY DEF BatchCountInv, Report
  <2>1. step = "running" /\ j[1] = 1 /\ j = <<1, j[2]>>
    BY <1>1, FirstRoundRuns
  <2>2. Reporting = {}
    BY <2>1 DEF Report, NobodyReports, Reporting
  <2>3. Reporting' = {j[2]}
    BY <2>1, <2>2 DEF Report, Reporting, Move
  <2>4. done'[1] = done[1] + 1 /\ progress' = done[1] + 1 /\ emitted' = emitted
    BY <2>1 DEF Report
  <2>5. done[1] = emitted
    BY <1>1, <2>1, <2>2 DEF BatchCountInv
  <2> QED
    BY <2>3, <2>4, <2>5
<1> QED
  BY <1>2, <1>3

LEMMA ReportedKeepsCount ==
  ASSUME FanOutInv, NEW j \in Job, Reported(j)
  PROVE  CountInv'
<1> USE RoundFacts DEF FanOutInv, TypeOK, ShapeInv, CountInv, config
<1>1. kind = "batch" /\ job[j] = "reporting" /\ j \notin told
  BY DEF Reported, TakenInv
<1>2. MapCountInv'
  BY <1>1 DEF Reported, MapCountInv
<1>3. BatchCountInv'
  <2> SUFFICES ASSUME counts = {}, round = 1, step # "failed"
               PROVE  /\ progress' = done'[1]
                      /\ \A i, k \in Reporting' : i = k
                      /\ done'[1] \in {emitted', emitted' + 1}
                      /\ step' = "running" /\ Reporting' = {} => done'[1] = emitted'
    BY DEF BatchCountInv, Reported
  <2>1. j[1] = 1 /\ j = <<1, j[2]>>
    BY <1>1, FirstRoundRuns
  <2>2. job' = [job EXCEPT ![j] = "ok"]
    BY DEF Reported, Finish, Move
  <2>3. Reporting' \subseteq Reporting
    BY <2>1, <2>2 DEF Reporting
  <2>4. emitted' = progress /\ progress' = progress /\ done' = done
    BY DEF Reported
  <2>5. progress = done[1] /\ \A i, k \in Reporting : i = k
    BY <1>1 DEF BatchCountInv
  <2> QED
    BY <2>3, <2>4, <2>5
<1> QED
  BY <1>2, <1>3

\* A target without counts of its own leaves the record's, or shows it.
LEMMA TargetKeepsCount ==
  ASSUME FanOutInv, NEW j \in Job, TargetReports \/ TargetReported
  PROVE  CountInv'
<1> USE DEF FanOutInv, TypeOK, CountInv, config
<1>1. /\ UNCHANGED <<kind, counts, round, step, seen, calling, done>>
      /\ counts = {} => progress' = progress
      /\ emitted' \in {emitted, progress}
      /\ Reporting' = Reporting
  BY DEF TargetReports, TargetReported, Reporting
<1>2. BatchCountInv'
  BY <1>1 DEF BatchCountInv
<1>3. MapCountInv'
  BY <1>1 DEF MapCountInv
<1> QED
  BY <1>2, <1>3

LEMMA TakeKeepsCount ==
  ASSUME FanOutInv, NEW j \in Job, Take(j)
  PROVE  CountInv'
<1> USE RoundFacts DEF FanOutInv, TypeOK, ShapeInv, CountInv, config
<1>1. kind # "batch" /\ kind' = kind /\ counts' = counts /\ emitted' = emitted
  BY DEF Take, Gathers
<1>2. BatchCountInv'
  BY <1>1 DEF BatchCountInv
<1>3. CASE kind = "map"
  <2>1. /\ progress' = Cardinality(seen) + 1
        /\ j \notin seen /\ seen' = seen \cup {j}
    BY <1>3 DEF Take
  <2>2. IsFiniteSet(seen)
    BY SeenIsFinite
  <2>3. Cardinality(seen') = Cardinality(seen) + 1
    BY <2>1, <2>2, FS_AddElement
  <2>4. counts = {} => progress = Cardinality(seen) /\ emitted <= progress
    BY <1>3 DEF MapCountInv
  <2>5. MapCountInv'
    BY <1>1, <1>3, <2>1, <2>3, <2>4 DEF MapCountInv
  <2> QED
    BY <1>2, <2>5
<1>4. CASE kind # "map"
  <2>1. MapCountInv'
    BY <1>1, <1>4 DEF MapCountInv, Take
  <2> QED
    BY <1>2, <2>1
<1> QED
  BY <1>3, <1>4

LEMMA ReportFailsKeepsCount ==
  ASSUME FanOutInv, NEW j \in Job, ReportFails(j)
  PROVE  CountInv'
<1> USE RoundFacts DEF FanOutInv, TypeOK, ShapeInv, CountInv, config
<1>1. kind = "batch" /\ kind' = "batch" /\ calling' = calling
  BY DEF ReportFails, TakenInv
<1>2. MapCountInv'
  BY <1>1 DEF MapCountInv
<1>3. BatchCountInv'
  <2> SUFFICES ASSUME round' = 1, step' # "failed"
               PROVE  FALSE
    BY DEF BatchCountInv
  <2>1. job[j] = "reporting" /\ j \notin told
    BY DEF ReportFails
  <2>2. round \in Nat /\ round >= 1
    BY FanOutAssumption DEF Round
  <2>3. round' = round /\ step' = step
    BY <2>2 DEF ReportFails
  <2>4. step = "running" /\ j[1] = round
    BY <2>1, <2>3, FirstRoundRuns
  <2> QED
    BY <2>2, <2>3, <2>4 DEF ReportFails
<1> QED
  BY <1>2, <1>3

LEMMA ItemStepKeepsCount ==
  ASSUME FanOutInv, NEW j \in Job, ItemStep(j)
  PROVE  CountInv'
<1> USE RoundFacts DEF FanOutInv, TypeOK, ShapeInv, config, Move, Finish
<1>1. CASE Report(j)
  BY <1>1, ReportKeepsCount
<1>2. CASE Reported(j)
  BY <1>2, ReportedKeepsCount
<1>3. CASE Acquire(j) \/ BatchItemReturns(j)
  <2>1. Uncounted
    BY <1>3 DEF Acquire, BatchItemReturns, Uncounted, Reporting
  <2> QED
    BY <2>1, UncountedKeeps
<1>4. CASE BranchReturns(j)
  <2>1. Uncounted
    BY <1>4 DEF BranchReturns, Released, Uncounted, Reporting
  <2> QED
    BY <2>1, UncountedKeeps
<1>5. CASE MapItemReturns(j)
  <2>1. Uncounted
    BY <1>5 DEF MapItemReturns, Uncounted, Reporting
  <2> QED
    BY <2>1, UncountedKeeps
<1>6. CASE MapItemRetries(j)
  <2>1. Uncounted
    BY <1>6 DEF MapItemRetries, Uncounted, Reporting
  <2> QED
    BY <2>1, UncountedKeeps
<1>7. CASE FallbackReturns(j)
  <2>1. \E outcome \in {"ok", "failed"} : job' = [job EXCEPT ![j] = outcome]
    BY <1>7 DEF FallbackReturns
  <2>2. Uncounted
    BY <1>7, <2>1 DEF FallbackReturns, Uncounted, Reporting
  <2> QED
    BY <2>2, UncountedKeeps
<1>8. CASE Unwind(j)
  <2>1. step # "running"
    BY <1>8 DEF Unwind, TakenInv
  <2>2. BatchCountInv'
    <3>1. Reporting' \subseteq Reporting
      BY <1>8 DEF Unwind, Reporting
    <3> QED
      BY <1>8, <2>1, <3>1 DEF Unwind, CountInv, BatchCountInv
  <2>3. MapCountInv'
    BY <1>8 DEF Unwind, CountInv, MapCountInv
  <2> QED
    BY <2>2, <2>3 DEF CountInv
<1>9. CASE TargetReports \/ TargetReported
  BY <1>9, TargetKeepsCount
<1> QED
  BY <1>1, <1>2, <1>3, <1>4, <1>5, <1>6, <1>7, <1>8, <1>9 DEF ItemStep, JobStep

LEMMA CoordinatorKeepsCount ==
  ASSUME FanOutInv, CalledBack \/ End \/ Cancel \/ Cancelled
  PROVE  CountInv'
<1> USE DEF FanOutInv, TypeOK, CountInv, config
<1>1. CASE CalledBack
  <2>1. kind = "map"
    BY <1>1 DEF CalledBack, MapCountInv
  <2>2. /\ UNCHANGED <<kind, counts, seen, progress>>
        /\ calling' = None /\ emitted' \in {emitted, progress}
    BY <1>1 DEF CalledBack
  <2>3. MapCountInv'
    BY <2>1, <2>2 DEF MapCountInv
  <2>4. BatchCountInv'
    BY <2>1, <2>2 DEF BatchCountInv
  <2> QED
    BY <2>3, <2>4
<1>2. CASE End \/ Cancel \/ Cancelled
  <2>1. /\ UNCHANGED <<kind, counts, round, seen, calling, done, progress, emitted>>
        /\ Reporting' = Reporting /\ step' # "running" /\ step # "failed"
    BY <1>2 DEF End, Cancel, Cancelled, Reporting
  <2>2. BatchCountInv'
    BY <2>1 DEF BatchCountInv
  <2>3. MapCountInv'
    BY <2>1 DEF MapCountInv
  <2> QED
    BY <2>2, <2>3
<1> QED
  BY <1>1, <1>2

------------------------------------------------------------------------------
LEMMA NextKeeps ==
  ASSUME FanOutInv, [Next]_vars
  PROVE  FanOutInv'
<1>1. ASSUME NEW j \in Job, ItemStep(j)
      PROVE  FanOutInv'
  BY <1>1, ItemStepTypes, ItemStepIsQuieter, QuieterKeepsShape, ItemStepKeepsCount DEF FanOutInv
<1>2. ASSUME NEW j \in Job, ReportFails(j)
      PROVE  FanOutInv'
  BY <1>2, CoordinatorTypes, ReportFailsKeepsShape, ReportFailsKeepsCount DEF FanOutInv
<1>3. ASSUME NEW j \in Job, Take(j)
      PROVE  FanOutInv'
  BY <1>3, CoordinatorTypes, TakeKeepsShape, TakeKeepsCount DEF FanOutInv
<1>4. CASE CalledBack \/ End \/ Cancel \/ Cancelled
  BY <1>4, CoordinatorTypes, CalledBackKeepsShape, EndKeepsShape, CancelKeepsShape,
     CancelledKeepsShape, CoordinatorKeepsCount DEF FanOutInv
<1>5. CASE UNCHANGED vars
  <2>1. TypeOK'
    BY <1>5 DEF FanOutInv, TypeOK, vars, config
  <2>2. ShapeInv'
    BY <1>5 DEF FanOutInv, ShapeInv, RoundInv, TakenInv, StopInv, Working, Current,
       Gathers, vars, config
  <2>3. CountInv'
    BY <1>5 DEF FanOutInv, CountInv, BatchCountInv, MapCountInv, Reporting, vars, config
  <2> QED
    BY <2>1, <2>2, <2>3 DEF FanOutInv
<1> QED
  BY <1>1, <1>2, <1>3, <1>4, <1>5, NextCases

\* Every variable holds a value of its kind, in every reachable state.
THEOREM TypeCorrect == Spec => []TypeOK
<1>1. FanOutInv => TypeOK
  BY DEF FanOutInv
<1> QED
  BY <1>1, InitKeeps, NextKeeps, PTL DEF Spec

\* What still works for a call that is over was told to stop, but for the
\* branches of strategy "first" and the items of a batch whose report failed.
THEOREM StragglersAreTold == Spec => []StragglersWereTold
<1>1. FanOutInv => StragglersWereTold
  BY DEF FanOutInv, ShapeInv, StopInv, StragglersWereTold, Over
<1> QED
  BY <1>1, InitKeeps, NextKeeps, PTL DEF Spec

LEMMA StepCountsUp ==
  ASSUME FanOutInv, [Next]_vars, counts = {}, round = 1, step # "failed", emitted' # emitted
  PROVE  IF kind = "batch" THEN emitted' = emitted + 1 ELSE emitted' > emitted
<1> USE DEF FanOutInv, TypeOK, ShapeInv, CountInv
<1>1. emitted' = progress
  BY DEF Next, JobStep, Coordinate, vars, Acquire, BatchItemReturns, Report, Reported, ReportFails,
     TargetReports, TargetReported, BranchReturns, MapItemReturns, MapItemRetries,
     FallbackReturns, Unwind,
     Take, CalledBack, End, Cancel, Cancelled
<1>2. CASE kind = "batch"
  BY <1>1, <1>2 DEF BatchCountInv
<1>3. CASE kind # "batch"
  BY <1>1, <1>3 DEF MapCountInv
<1> QED
  BY <1>2, <1>3

\* As long as no target gives counts of its own and no report of the task has
\* failed, the counts in the events of a batch go up one by one, whatever is
\* reported between a save and its event; those of a map step never go back.
THEOREM EventsGoUpByOne == Spec => EventsCountUp
<1>1. FanOutInv /\ [Next]_vars =>
        [counts = {} /\ round = 1 /\ step # "failed" /\ emitted' # emitted =>
           IF kind = "batch" THEN emitted' = emitted + 1 ELSE emitted' > emitted]_vars
  BY StepCountsUp
<1> QED
  BY <1>1, InitKeeps, NextKeeps, PTL DEF Spec, EventsCountUp

------------------------------------------------------------------------------
(* The status.                                                             *)

\* A job of a step has its result when it has ended, and nothing is cancelled
\* while the coordinator runs.
ResultInv ==
  /\ kind # "batch" =>
       \A j \in Job : \A x \in {"ok", "failed"} : result[j] = x <=> job[j] = x
  /\ \A j \in Current : job[j] # "idle"
  /\ \A j \in Job : job[j] = "fallback" => kind = "map"
  /\ step = "running" => \A j \in Job : job[j] # "cancelled"

Counted(n) == {i \in Item : job[<<n, i>>] \in {"reporting", "ok", "failed"}}

\* Each item of the round is counted once, before its report.
DoneInv ==
  kind = "batch" =>
    /\ \A n \in Round : n > round => done[n] = 0
    /\ step = "running" => done[round] = Cardinality(Counted(round))
    /\ step = "ok" => done[round] = Cardinality(Item) /\ \A j \in Current : job[j] \in Ended

Became(outcome) == {j \in Current : job[j] = outcome}

\* What the strategy asked for when the step ended is still there.
VerdictInv ==
  kind # "batch" =>
    /\ step = "ok" => Cardinality(Became("ok")) >= Needed
    /\ step = "failed" => Cardinality(Item) - Cardinality(Became("failed")) < Needed

EarnInv == ResultInv /\ DoneInv /\ VerdictInv

LEMMA JobsAreFinite ==
  ASSUME TypeOK
  PROVE  /\ Current \subseteq Job
         /\ IsFiniteSet(Current) /\ Cardinality(Current) = Cardinality(Item)
         /\ Cardinality(Item) \in Nat /\ Cardinality(Item) >= 1
<1>1. IsFiniteSet({round}) /\ Cardinality({round}) = 1
  BY FS_Singleton
<1>2. Cardinality(Item) \in Nat
  BY FS_CardinalityType, FanOutAssumption
<1>3. IsFiniteSet({round} \X Item) /\ Cardinality({round} \X Item) = 1 * Cardinality(Item)
  BY <1>1, FS_Product, FanOutAssumption
<1>4. Cardinality(Item) # 0
  BY FS_EmptySet, FanOutAssumption
<1> QED BY <1>2, <1>3, <1>4 DEF Current, TypeOK, Job

LEMMA BecameFacts ==
  ASSUME TypeOK, NEW outcome
  PROVE  /\ IsFiniteSet(Became(outcome)) /\ Cardinality(Became(outcome)) \in Nat
         /\ Cardinality(Became(outcome)) <= Cardinality(Item)
<1>1. Became(outcome) \subseteq Current
  BY DEF Became
<1> QED BY <1>1, JobsAreFinite, FS_Subset, FS_CardinalityType

\* More jobs end, and none that has ended becomes anything else.
LEMMA VerdictStays ==
  ASSUME TypeOK, TypeOK', VerdictInv,
         UNCHANGED <<kind, strategy, round>>,
         step' = step \/ step' \notin {"ok", "failed"},
         \A j \in Job : job[j] \in Ended => job'[j] = job[j]
  PROVE  VerdictInv'
<1>1. ASSUME NEW x \in {"ok", "failed"}
      PROVE  Cardinality(Became(x)) <= Cardinality(Became(x)')
  <2>1. Became(x) \subseteq Became(x)'
    BY JobsAreFinite DEF Became, Current, Ended
  <2>2. IsFiniteSet(Became(x)')
    <3>1. IsFiniteSet(Current') /\ Became(x)' \subseteq Current'
      BY JobsAreFinite DEF Became, Current
    <3> QED BY <3>1, FS_Subset
  <2> QED BY <2>1, <2>2, FS_Subset
<1>2. \A x \in {"ok", "failed"} : Cardinality(Became(x)) \in Nat
  BY BecameFacts
<1>3. \A x \in {"ok", "failed"} : Cardinality(Became(x)') \in Nat
  <2>1. \A x : IsFiniteSet(Became(x)')
    <3>1. \A x : Became(x)' \subseteq Current'
      BY DEF Became
    <3>2. IsFiniteSet(Current')
      BY JobsAreFinite DEF Current
    <3> QED BY <3>1, <3>2, FS_Subset
  <2> QED BY <2>1, FS_CardinalityType
<1>4. Needed' = Needed
  BY DEF Needed
<1>5. Needed \in Nat /\ Cardinality(Item) \in Nat
  <2>1. Cardinality(Item) \in Nat
    BY JobsAreFinite
  <2> QED BY <2>1 DEF Needed, TypeOK
<1> HIDE DEF Needed, Became
<1> QED BY <1>1, <1>2, <1>3, <1>4, <1>5 DEF VerdictInv

LEMMA ItemStepKeepsResults ==
  ASSUME FanOutInv, EarnInv, NEW j \in Job, ItemStep(j)
  PROVE  ResultInv'
<1>1. Quieter
  BY ItemStepIsQuieter
<1> USE RoundFacts DEF FanOutInv, TypeOK, ShapeInv, EarnInv, ResultInv, config, Move, Finish
<1>2. /\ kind' = kind /\ step' = step /\ Current' = Current
      /\ \A k \in Current : job'[k] # "idle"
  BY <1>1, JobsAreFinite DEF Quieter, Current
<1>3. step = "running" => told = {}
  BY DEF TakenInv
<1>4. /\ kind # "batch" => \A k \in Job : \A x \in {"ok", "failed"} : result'[k] = x <=> job'[k] = x
      /\ \A k \in Job : job'[k] = "fallback" => kind = "map"
      /\ step = "running" => \A k \in Job : job'[k] # "cancelled"
  <2>1. CASE Acquire(j)
    BY <2>1 DEF Acquire
  <2>2. CASE BatchItemReturns(j) \/ Report(j) \/ Reported(j)
    <3>1. kind = "batch"
      BY <2>2 DEF BatchItemReturns, Report, Reported, TakenInv
    <3> QED BY <2>2, <3>1 DEF BatchItemReturns, Report, Reported
  <2>3. CASE BranchReturns(j)
    BY <2>3 DEF BranchReturns, Released
  <2>4. CASE MapItemReturns(j)
    BY <2>4, FanOutAssumption DEF MapItemReturns
  <2>5. CASE MapItemRetries(j)
    BY <2>5 DEF MapItemRetries
  <2>6. CASE FallbackReturns(j)
    BY <2>6 DEF FallbackReturns
  <2>7. CASE Unwind(j)
    BY <2>7, <1>3, FanOutAssumption DEF Unwind
  <2>8. CASE TargetReports \/ TargetReported
    BY <2>8 DEF TargetReports, TargetReported
  <2> QED BY <2>1, <2>2, <2>3, <2>4, <2>5, <2>6, <2>7, <2>8 DEF ItemStep, JobStep
<1> QED BY <1>2, <1>4

LEMMA CountedFinite ==
  ASSUME NEW n
  PROVE  IsFiniteSet(Counted(n)) /\ Cardinality(Counted(n)) \in Nat
<1>1. Counted(n) \subseteq Item
  BY DEF Counted
<1> QED BY <1>1, FanOutAssumption, FS_Subset, FS_CardinalityType

LEMMA CountedStays ==
  ASSUME \A k \in Job : job'[k] \in {"reporting", "ok", "failed"} <=>
                         job[k] \in {"reporting", "ok", "failed"},
         NEW n \in Round
  PROVE  Counted(n)' = Counted(n)
<1>1. \A i \in Item : <<n, i>> \in Job
  BY DEF Job
<1> QED BY <1>1 DEF Counted

\* A job that is counted was not, and no other job of a batch gains or loses.
LEMMA ItemStepKeepsDone ==
  ASSUME FanOutInv, EarnInv, NEW j \in Job, ItemStep(j)
  PROVE  DoneInv'
<1>1. Quieter
  BY ItemStepIsQuieter
<1> USE RoundFacts DEF FanOutInv, TypeOK, ShapeInv, EarnInv, DoneInv, ResultInv, config, Move, Finish
<1>2. CASE kind # "batch"
  BY <1>1, <1>2 DEF Quieter
<1>3. CASE kind = "batch" /\ Report(j)
  <2>1. j[1] \in Nat /\ round \in Nat /\ j[1] <= round
    BY <1>3 DEF Report, RoundInv
  <2>2. step = "ok" => j[1] # round
    <3>1. job[j] \notin Ended
      BY <1>3 DEF Report, Ended
    <3>2. j[1] = round => j \in Current
      BY DEF Current
    <3> QED BY <1>3, <3>1, <3>2
  <2>3. /\ done' = [done EXCEPT ![j[1]] = @ + 1] /\ job' = [job EXCEPT ![j] = "reporting"]
        /\ round' = round /\ step' = step /\ kind' = kind /\ job[j] = "counting"
    BY <1>3 DEF Report
  <2>4. ASSUME step = "running"
        PROVE  done'[round] = Cardinality(Counted(round)')
    <3>1. CASE j[1] = round
      <4>1. j = <<round, j[2]>> /\ j[2] \in Item
        BY <3>1
      <4>2. Counted(round)' = Counted(round) \cup {j[2]} /\ j[2] \notin Counted(round)
        <5>1. \A i \in Item : <<round, i>> \in Job /\ (<<round, i>> = j <=> i = j[2])
          BY <4>1 DEF Job
        <5>2. \A i \in Item : job'[<<round, i>>] = IF i = j[2] THEN "reporting" ELSE job[<<round, i>>]
          BY <2>3, <5>1
        <5>3. job[<<round, j[2]>>] = "counting"
          BY <2>3, <4>1
        <5>4. Counted(round)' = {i \in Item : job'[<<round, i>>] \in {"reporting", "ok", "failed"}}
          BY <2>3 DEF Counted
        <5> QED
          BY ONLY <4>1, <5>2, <5>3, <5>4 DEF Counted
      <4>3. Cardinality(Counted(round)') = Cardinality(Counted(round)) + 1
        <5>1. IsFiniteSet(Counted(round))
          BY CountedFinite
        <5> QED BY ONLY <4>2, <5>1, FS_AddElement
      <4>4. done[round] = Cardinality(Counted(round))
        BY <1>3, <2>4
      <4> QED BY <2>3, <3>1, <4>3, <4>4
    <3>2. CASE j[1] # round
      <4>1. Counted(round)' = Counted(round)
        BY <2>3, <3>2 DEF Counted
      <4> QED BY <1>3, <2>3, <2>4, <3>2, <4>1
    <3> QED BY <3>1, <3>2
  <2>5. Current' = Current
    BY <2>3 DEF Current
  <2>6. step = "ok" => done'[round] = Cardinality(Item) /\ \A k \in Current : job'[k] \in Ended
    BY <1>3, <2>2, <2>3, JobsAreFinite DEF Ended
  <2>7. \A n \in Round : n > round => done'[n] = 0
    BY <1>3, <2>1, <2>3
  <2> QED BY <2>3, <2>4, <2>5, <2>6, <2>7
<1>4. CASE kind = "batch" /\ ~Report(j)
  <2>1. done' = done /\ round' = round /\ step' = step /\ kind' = kind /\ Current' = Current
    BY <1>1, <1>4 DEF ItemStep, JobStep, Quieter, Current, Acquire, BatchItemReturns, Reported, TargetReports,
                      TargetReported, BranchReturns, MapItemReturns, MapItemRetries,
                      FallbackReturns, Unwind
  <2>2. step = "running" => Counted(round)' = Counted(round)
    <3>1. CASE Acquire(j)
      BY <3>1, CountedStays DEF Acquire
    <3>2. CASE BatchItemReturns(j) \/ Reported(j)
      BY <3>2, CountedStays DEF BatchItemReturns, Reported
    <3>3. CASE Unwind(j)
      BY <3>3 DEF Unwind, TakenInv
    <3>4. ~FallbackReturns(j)
      BY <1>4 DEF FallbackReturns
    <3>5. CASE TargetReports \/ TargetReported
      BY <3>5, CountedStays DEF TargetReports, TargetReported
    <3> QED
      BY <1>4, <3>1, <3>2, <3>3, <3>4, <3>5 DEF ItemStep, JobStep, BranchReturns, MapItemReturns, MapItemRetries
  <2>3. \A k \in Current : job[k] \in Ended => job'[k] \in Ended
    BY <1>1, JobsAreFinite DEF Quieter
  <2> QED BY <1>4, <2>1, <2>2, <2>3
<1> QED BY <1>2, <1>3, <1>4

LEMMA ItemStepKeepsEarned ==
  ASSUME FanOutInv, EarnInv, NEW j \in Job, ItemStep(j)
  PROVE  EarnInv'
<1>1. Quieter /\ TypeOK'
  BY ItemStepIsQuieter, ItemStepTypes DEF FanOutInv
<1>2. \A k \in Job : job[k] \in Ended => job'[k] = job[k]
  BY <1>1 DEF Quieter
<1>3. VerdictInv'
  BY <1>1, <1>2, VerdictStays DEF Quieter, EarnInv, FanOutInv
<1> QED BY <1>3, ItemStepKeepsResults, ItemStepKeepsDone DEF EarnInv

LEMMA ReportFailsKeepsEarned ==
  ASSUME FanOutInv, EarnInv, NEW j \in Job, ReportFails(j)
  PROVE  EarnInv'
<1> USE RoundFacts, FanOutAssumption
    DEF FanOutInv, TypeOK, ShapeInv, EarnInv, DoneInv, ResultInv, VerdictInv, config, Move
<1>1. kind = "batch" /\ kind' = "batch" /\ job[j] = "reporting" /\ done' = done
  BY DEF ReportFails, TakenInv
<1>2. CASE j[1] # round \/ step # "running"
  <2>1. job' = [job EXCEPT ![j] = "failed"] /\ round' = round /\ step' = step
    BY <1>2 DEF ReportFails
  <2>2. Counted(round)' = Counted(round)
    BY <1>1, <2>1 DEF Counted
  <2>3. Current' = Current /\ Current \subseteq Job
    BY <2>1, JobsAreFinite DEF Current
  <2> QED BY <1>1, <2>1, <2>2, <2>3 DEF Ended
<1>3. CASE ~(j[1] # round \/ step # "running") /\ round = MaxRounds
  <2>1. job' = [job EXCEPT ![j] = "failed"] /\ round' = round /\ step' = "failed"
    BY <1>3 DEF ReportFails
  <2>2. Current' = Current /\ Current \subseteq Job
    BY <2>1, JobsAreFinite DEF Current
  <2> QED BY <1>1, <2>1, <2>2
<1>4. CASE ~(j[1] # round \/ step # "running") /\ round # MaxRounds
  <2>1. /\ round' = round + 1 /\ step' = "running" /\ round + 1 \in Round
        /\ job' = [k \in Job |-> IF k[1] = round + 1 THEN "waiting"
                                 ELSE IF k = j THEN "failed" ELSE job[k]]
    BY <1>4 DEF ReportFails, Round
  <2>2. Counted(round)' = {}
    <3>1. \A i \in Item : job'[<<round + 1, i>>] = "waiting"
      BY <2>1 DEF Job
    <3> QED BY <2>1, <3>1 DEF Counted
  <2>3. done'[round'] = 0 /\ \A n \in Round : n > round' => done'[n] = 0
    BY <1>1, <2>1
  <2>4. \A k \in Current' : k \in Job /\ k[1] = round + 1
    BY <2>1 DEF Current, Job
  <2>5. ResultInv'
    BY <1>1, <1>4, <2>1, <2>4
  <2>6. DoneInv' /\ VerdictInv'
    BY <1>1, <2>1, <2>2, <2>3, FS_EmptySet
  <2> QED BY <2>5, <2>6
<1> QED BY <1>2, <1>3, <1>4

\* The strategies' tests against the number of successes each needs.
LEMMA EarnedIsEnough ==
  ASSUME FanOutInv, EarnInv, kind # "batch"
  PROVE  /\ Succeeded \subseteq Became("ok")
         /\ Earned => Cardinality(Became("ok")) >= Needed
         /\ Succeeded = Became("ok") /\ ~Earned => Cardinality(Became("ok")) < Needed
<1> USE DEF FanOutInv, TypeOK, ShapeInv
<1>1. Succeeded \subseteq Became("ok") /\ Became("ok") \subseteq Current
  BY JobsAreFinite DEF Succeeded, Became, EarnInv, ResultInv, TakenInv
<1>2. IsFiniteSet(Succeeded)
  BY <1>1, BecameFacts, FS_Subset
<1>3. /\ Cardinality(Succeeded) <= Cardinality(Became("ok"))
      /\ Cardinality(Succeeded) \in Nat /\ Cardinality(Became("ok")) \in Nat
      /\ Cardinality(Item) \in Nat
  BY <1>1, <1>2, BecameFacts, JobsAreFinite, FS_Subset, FS_CardinalityType
<1>4. Succeeded # {} => Cardinality(Succeeded) >= 1
  BY <1>2, <1>3, FS_EmptySet
<1>5. Succeeded = Current => Cardinality(Succeeded) = Cardinality(Item)
  BY JobsAreFinite
<1>6. Succeeded # Current => Cardinality(Succeeded) < Cardinality(Item)
  <2>1. Succeeded \subseteq Current
    BY <1>1
  <2>2. /\ Cardinality(Succeeded) <= Cardinality(Current)
        /\ Cardinality(Current) = Cardinality(Succeeded) => Current = Succeeded
        /\ Cardinality(Current) = Cardinality(Item)
    BY <2>1, JobsAreFinite, FS_Subset
  <2> QED BY <2>2, <1>3
<1>7. Succeeded = {} => Cardinality(Succeeded) = 0
  BY FS_EmptySet
<1> HIDE DEF Succeeded
<1>8. \A n, m \in Nat : /\ 2 * n > m => n >= m \div 2 + 1
                        /\ ~(2 * n > m) => n < m \div 2 + 1
  OBVIOUS
<1>9. strategy \in {"all", "first", "majority"}
  OBVIOUS
<1>10. /\ Earned => Cardinality(Succeeded) >= Needed
       /\ ~Earned => Cardinality(Succeeded) < Needed
  <2>1. CASE strategy = "all"
    BY <2>1, <1>3, <1>5, <1>6 DEF Earned, Needed
  <2>2. CASE strategy = "first"
    BY <2>2, <1>3, <1>4, <1>7 DEF Earned, Needed
  <2>3. CASE strategy = "majority"
    BY <2>3, <1>3, <1>8 DEF Earned, Needed
  <2> QED BY <1>9, <2>1, <2>2, <2>3
<1>11. Needed \in Nat
  BY <1>3, <1>9 DEF Needed
<1> HIDE DEF Earned, Needed
<1> QED BY <1>1, <1>3, <1>10, <1>11

LEMMA EndKeepsEarned ==
  ASSUME FanOutInv, EarnInv, End
  PROVE  EarnInv'
<1> USE DEF FanOutInv, TypeOK, ShapeInv, EarnInv
<1>1. /\ step = "running" /\ kind' = kind /\ strategy' = strategy /\ round' = round
      /\ job' = job /\ result' = result /\ done' = done
      /\ step' = (IF kind = "batch" \/ Earned THEN "ok" ELSE "failed")
      /\ Current' = Current /\ Current \subseteq Job
  BY JobsAreFinite DEF End, config, Current
<1>2. ResultInv'
  BY <1>1 DEF ResultInv
<1>3. Current \cap Working = {} => \A k \in Current : job[k] \in {"ok", "failed"}
  BY <1>1 DEF Working, Ended, ResultInv
<1>4. DoneInv'
  <2> SUFFICES ASSUME kind = "batch"
               PROVE  done[round] = Cardinality(Item) /\ \A k \in Current : job[k] \in Ended
    BY <1>1 DEF DoneInv
  <2>1. Current \cap Working = {}
    BY DEF End, Gathers
  <2>2. \A i \in Item : <<round, i>> \in Current
    BY DEF Current
  <2>3. Counted(round) = Item
    BY <1>3, <2>1, <2>2 DEF Counted
  <2> QED BY <1>1, <1>3, <2>1, <2>3 DEF DoneInv, Ended
<1>5. VerdictInv'
  <2> SUFFICES ASSUME kind # "batch" PROVE VerdictInv'
    BY <1>1 DEF VerdictInv
  <2>1. /\ Became("ok")' = Became("ok") /\ Became("failed")' = Became("failed")
        /\ Needed' = Needed
    BY <1>1 DEF Became, Needed
  <2>2. CASE Earned
    BY <1>1, <2>1, <2>2, EarnedIsEnough DEF VerdictInv
  <2>3. CASE ~Earned
    <3>1. \A k \in Current : job[k] \in {"ok", "failed"}
      <4>1. CASE Gathers \/ seen # Current
        BY <4>1, <2>3, <1>3 DEF End, Earned
      <4>2. CASE seen = Current
        BY <4>2, <1>1 DEF TakenInv, Ended, ResultInv
      <4> QED BY <4>1, <4>2
    <3>2. Succeeded = Became("ok")
      <4>1. CASE Gathers
        BY <4>1, <1>1 DEF Succeeded, Became, ResultInv
      <4>2. CASE ~Gathers
        <5>1. seen = Current
          BY <2>3, <4>2 DEF End, Earned
        <5> QED BY <4>2, <5>1, <1>1 DEF Succeeded, Became, ResultInv
      <4> QED BY <4>1, <4>2
    <3>3. Cardinality(Item) - Cardinality(Became("failed")) = Cardinality(Became("ok"))
      <4>1. Became("ok") \cup Became("failed") = Current /\ Became("ok") \cap Became("failed") = {}
        BY <3>1 DEF Became
      <4>2. /\ IsFiniteSet(Became("ok")) /\ IsFiniteSet(Became("failed"))
            /\ Cardinality(Became("ok")) \in Nat /\ Cardinality(Became("failed")) \in Nat
            /\ Cardinality(Current) = Cardinality(Item)
        BY BecameFacts, JobsAreFinite
      <4>3. Cardinality(Current) = Cardinality(Became("ok")) + Cardinality(Became("failed")) - 0
        <5>1. Cardinality(Became("ok") \cup Became("failed")) =
                Cardinality(Became("ok")) + Cardinality(Became("failed"))
                  - Cardinality(Became("ok") \cap Became("failed"))
          BY ONLY <4>2, FS_Union
        <5>2. Cardinality({}) = 0
          BY FS_EmptySet
        <5> QED BY ONLY <4>1, <5>1, <5>2
      <4> QED BY <4>2, <4>3
    <3>4. Cardinality(Became("ok")) < Needed
      BY <2>3, <3>2, EarnedIsEnough
    <3> QED BY <1>1, <2>1, <2>3, <3>3, <3>4 DEF VerdictInv
  <2> QED BY <2>2, <2>3
<1> QED BY <1>2, <1>4, <1>5

LEMMA CoordinatorKeepsEarned ==
  ASSUME FanOutInv, EarnInv, TypeOK',
         CalledBack \/ Cancel \/ Cancelled \/ (\E j \in Job : Take(j)) \/ UNCHANGED vars
  PROVE  EarnInv'
<1> USE DEF FanOutInv, EarnInv
<1>1. /\ UNCHANGED <<kind, strategy, round, job, result, done>>
      /\ step' = step \/ (step' \in {"cancelling", "cancelled"})
      /\ Current' = Current
  BY DEF CalledBack, Cancel, Cancelled, Take, vars, config, Current
<1>2. Counted(round)' = Counted(round)
  BY <1>1 DEF Counted
<1>3. ResultInv' /\ DoneInv'
  BY <1>1, <1>2 DEF ResultInv, DoneInv
<1>4. VerdictInv'
  BY <1>1, VerdictStays
<1> QED BY <1>3, <1>4

LEMMA NextKeepsEarned ==
  ASSUME FanOutInv, EarnInv, [Next]_vars
  PROVE  EarnInv'
<1>1. TypeOK'
  BY NextKeeps DEF FanOutInv
<1> QED
  BY <1>1, NextCases, ItemStepKeepsEarned, ReportFailsKeepsEarned, EndKeepsEarned,
     CoordinatorKeepsEarned

LEMMA InitKeepsEarned == Init => EarnInv
<1> SUFFICES ASSUME Init PROVE EarnInv
  OBVIOUS
<1>1. \A j \in Current : j \in Job /\ j[1] = 1
  BY RoundFacts DEF Init, Current, Job
<1>2. Counted(1) = {}
  BY RoundFacts DEF Init, Counted
<1>3. ResultInv /\ VerdictInv
  BY <1>1, FanOutAssumption DEF Init, ResultInv, VerdictInv
<1>4. DoneInv
  BY <1>2, FS_EmptySet, RoundFacts DEF Init, DoneInv
<1> QED BY <1>3, <1>4 DEF EarnInv

\* A map or parallel step succeeded only if enough of its items did, and
\* failed only if those still at work could not make it succeed any more; a
\* batch that succeeded has counted every item.
THEOREM StatusesAreEarned == Spec => []StatusIsEarned
<1>1. EarnInv => StatusIsEarned
  BY DEF EarnInv, VerdictInv, DoneInv, StatusIsEarned, Count, Became
<1> QED
  BY <1>1, InitKeeps, NextKeeps, InitKeepsEarned, NextKeepsEarned, PTL DEF Spec
==============================================================================

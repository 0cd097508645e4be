-------------------------- MODULE TaskManager_proofs --------------------------
(***************************************************************************)
(* Theorems about TaskManager for every set of tasks and callers, every    *)
(* number of permits, attempts and cancels, and both kinds of backend.     *)
(***************************************************************************)
EXTENDS TaskManager, FiniteSetTheorems, SequenceTheorems, TLAPS

(* The loop counter's range depends on where the coroutine stands, and the *)
(* semaphore's on who holds it.                                            *)
AttemptInv ==
  \A t \in Task :
    /\ pc[t] \in {"absent", "submit_save", "submit_emit", "ready", "acquire",
                  "start_save", "start_emit"} => attempts[t] = 0
    /\ pc[t] = "backoff" => attempts[t] < MaxAttempts

OutcomeInv == \A t \in Task : pc[t] \in Finalizing => status[t] \in Terminal

TypeInv == TypeOK /\ AttemptInv /\ OutcomeInv /\ SlotInv

(* A waiting queue with one waiter removed is a queue of tasks.            *)
LEMMA WithoutType ==
  ASSUME NEW S, NEW q \in Seq(S), NEW e
  PROVE  Without(q, e) \in Seq(S)
<1>1. CASE \E i \in 1..Len(q) : q[i] = e
  <2> DEFINE k == CHOOSE i \in 1..Len(q) : q[i] = e
  <2>1. k \in 1..Len(q)
    BY <1>1
  <2> HIDE DEF k
  <2>2. k \in Int /\ Len(q) \in Int /\ \A i \in 1..Len(q) : q[i] \in S
    BY <2>1
  <2>3. SubSeq(q, 1, k - 1) \in Seq(S)
    <3>1. \A i \in 1..(k - 1) : q[i] \in S
      BY <2>1, <2>2
    <3> QED
      BY <2>2, <3>1, SubSeqProperties
  <2>4. SubSeq(q, k + 1, Len(q)) \in Seq(S)
    <3>1. \A i \in (k + 1)..Len(q) : q[i] \in S
      BY <2>1, <2>2
    <3> QED
      BY <2>2, <3>1, SubSeqProperties
  <2>5. SubSeq(q, 1, k - 1) \o SubSeq(q, k + 1, Len(q)) \in Seq(S)
    BY <2>3, <2>4
  <2> QED
    BY <1>1, <2>5 DEF Without, k
<1>2. CASE ~\E i \in 1..Len(q) : q[i] = e
  BY <1>2 DEF Without
<1> QED
  BY <1>1, <1>2

(* What leaving _run does to the semaphore: the counter and the holders    *)
(* move together, so their sum stays.                                      *)
LEMMA ReleaseKeepsSum ==
  ASSUME TypeOK, IsFiniteSet(holding),
         permits + Cardinality(holding) = MaxConcurrency,
         NEW t \in Task, Release(t)
  PROVE  /\ permits' \in 0..MaxConcurrency
         /\ waiters' \in Seq(Task)
         /\ holding' = holding \ {t}
         /\ IsFiniteSet(holding')
         /\ permits' + Cardinality(holding') = MaxConcurrency
<1>1. /\ IsFiniteSet(holding \ {t})
      /\ Cardinality(holding \ {t}) =
           IF t \in holding THEN Cardinality(holding) - 1 ELSE Cardinality(holding)
  BY FS_RemoveElement
<1>2. Cardinality(holding) \in Nat /\ Cardinality(holding \ {t}) \in Nat
  BY <1>1, FS_CardinalityType
<1>3. waiters' \in Seq(Task)
  BY WithoutType DEF TypeOK, Release
<1>4. holding' = holding \ {t}
  BY DEF Release
<1>5. permits' + Cardinality(holding') = MaxConcurrency
  BY <1>1, <1>2, <1>4, TaskManagerAssumption DEF TypeOK, Release
<1>6. permits' \in 0..MaxConcurrency
  BY <1>1, <1>2, <1>4, <1>5, TaskManagerAssumption DEF TypeOK, Release
<1> QED
  BY <1>1, <1>3, <1>4, <1>5, <1>6

(* Taking a permit moves both sides the other way.                         *)
LEMMA AdmitKeepsSum ==
  ASSUME TypeOK, IsFiniteSet(holding),
         permits + Cardinality(holding) = MaxConcurrency,
         NEW t \in Task, t \notin holding, PermitFree, Admit(t)
  PROVE  /\ permits' \in 0..MaxConcurrency
         /\ holding' = holding \cup {t}
         /\ IsFiniteSet(holding')
         /\ permits' + Cardinality(holding') = MaxConcurrency
<1>1. /\ IsFiniteSet(holding \cup {t})
      /\ Cardinality(holding \cup {t}) = Cardinality(holding) + 1
  BY FS_AddElement
<1>2. Cardinality(holding) \in Nat
  BY FS_CardinalityType
<1>3. holding' = holding \cup {t} /\ permits' = permits - 1
  BY DEF Admit
<1> QED
  BY <1>1, <1>2, <1>3, TaskManagerAssumption DEF TypeOK, PermitFree

(* The steps of one task that leave the semaphore and the outcome alone.   *)
LEMMA QuietStep ==
  ASSUME TypeInv, NEW t \in Task,
         \/ Submit(t) \/ SubmitSaved(t) \/ Register(t)
         \/ StartSaved(t) \/ StartEmitted(t) \/ AttemptSaved(t)
         \/ BackoffOver(t) \/ FinalSaved(t) \/ FinalEmitted(t)
         \/ ReportBegin(t) \/ ReportSaved(t)
  PROVE  TypeInv'
<1> USE TaskManagerAssumption DEF TypeInv, TypeOK, coroutines, semaphore, cancellation, closing
<1>1. CASE Submit(t)
  <2>1. TypeOK'
    BY <1>1 DEF Submit, At, Goto, Status, Terminal, PC, Saving, Emitting, Finalizing, InsideSlot
  <2>2. AttemptInv'
    BY <1>1 DEF Submit, At, Goto, AttemptInv
  <2>3. OutcomeInv'
    BY <1>1 DEF Submit, At, Goto, OutcomeInv, Finalizing
  <2>4. SlotInv'
    BY <1>1 DEF Submit, At, Goto, SlotInv, PermitsConserved, InsideSlot, Finalizing
  <2> QED
    BY <2>1, <2>2, <2>3, <2>4
<1>2. CASE SubmitSaved(t)
  <2>1. TypeOK'
    BY <1>2 DEF SubmitSaved, At, Goto, Status, Terminal, PC, Saving, Emitting, Finalizing, InsideSlot
  <2>2. AttemptInv'
    BY <1>2 DEF SubmitSaved, At, Goto, AttemptInv
  <2>3. OutcomeInv'
    BY <1>2 DEF SubmitSaved, At, Goto, OutcomeInv, Finalizing
  <2>4. SlotInv'
    BY <1>2 DEF SubmitSaved, At, Goto, SlotInv, PermitsConserved, InsideSlot, Finalizing
  <2> QED
    BY <2>1, <2>2, <2>3, <2>4
<1>3. CASE Register(t)
  <2>1. TypeOK'
    BY <1>3 DEF Register, At, Goto, Status, Terminal, PC, Saving, Emitting, Finalizing, InsideSlot
  <2>2. AttemptInv'
    BY <1>3 DEF Register, At, Goto, AttemptInv
  <2>3. OutcomeInv'
    BY <1>3 DEF Register, At, Goto, OutcomeInv, Finalizing
  <2>4. SlotInv'
    BY <1>3 DEF Register, At, Goto, SlotInv, PermitsConserved, InsideSlot, Finalizing
  <2> QED
    BY <2>1, <2>2, <2>3, <2>4
<1>4. CASE StartSaved(t)
  <2>1. TypeOK'
    BY <1>4 DEF StartSaved, At, Goto, Status, Terminal, PC, Saving, Emitting, Finalizing, InsideSlot
  <2>2. AttemptInv'
    BY <1>4 DEF StartSaved, At, Goto, AttemptInv
  <2>3. OutcomeInv'
    BY <1>4 DEF StartSaved, At, Goto, OutcomeInv, Finalizing
  <2>4. SlotInv'
    BY <1>4 DEF StartSaved, At, Goto, SlotInv, PermitsConserved, InsideSlot, Finalizing
  <2> QED
    BY <2>1, <2>2, <2>3, <2>4
<1>5. CASE StartEmitted(t)
  <2>1. TypeOK'
    BY <1>5 DEF StartEmitted, At, Goto, NextAttempt, Status, Terminal, PC, Saving, Emitting, Finalizing, InsideSlot, AttemptInv
  <2>2. AttemptInv'
    BY <1>5 DEF StartEmitted, At, Goto, NextAttempt, AttemptInv
  <2>3. OutcomeInv'
    BY <1>5 DEF StartEmitted, At, Goto, NextAttempt, OutcomeInv, Finalizing
  <2>4. SlotInv'
    BY <1>5 DEF StartEmitted, At, Goto, NextAttempt, SlotInv, PermitsConserved, InsideSlot, Finalizing
  <2> QED
    BY <2>1, <2>2, <2>3, <2>4
<1>6. CASE AttemptSaved(t)
  <2>1. TypeOK'
    BY <1>6 DEF AttemptSaved, At, Goto, Status, Terminal, PC, Saving, Emitting, Finalizing, InsideSlot
  <2>2. AttemptInv'
    BY <1>6 DEF AttemptSaved, At, Goto, AttemptInv
  <2>3. OutcomeInv'
    BY <1>6 DEF AttemptSaved, At, Goto, OutcomeInv, Finalizing
  <2>4. SlotInv'
    BY <1>6 DEF AttemptSaved, At, Goto, SlotInv, PermitsConserved, InsideSlot, Finalizing
  <2> QED
    BY <2>1, <2>2, <2>3, <2>4
<1>7. CASE BackoffOver(t)
  <2>1. TypeOK'
    BY <1>7 DEF BackoffOver, At, Goto, NextAttempt, Status, Terminal, PC, Saving, Emitting, Finalizing, InsideSlot, AttemptInv
  <2>2. AttemptInv'
    BY <1>7 DEF BackoffOver, At, Goto, NextAttempt, AttemptInv
  <2>3. OutcomeInv'
    BY <1>7 DEF BackoffOver, At, Goto, NextAttempt, OutcomeInv, Finalizing
  <2>4. SlotInv'
    BY <1>7 DEF BackoffOver, At, Goto, NextAttempt, SlotInv, PermitsConserved, InsideSlot, Finalizing
  <2> QED
    BY <2>1, <2>2, <2>3, <2>4
<1>8. CASE FinalSaved(t)
  <2>1. TypeOK'
    BY <1>8 DEF FinalSaved, At, Goto, Status, Terminal, PC, Saving, Emitting, Finalizing, InsideSlot
  <2>2. AttemptInv'
    BY <1>8 DEF FinalSaved, At, Goto, AttemptInv
  <2>3. OutcomeInv'
    BY <1>8 DEF FinalSaved, At, Goto, OutcomeInv, Finalizing
  <2>4. SlotInv'
    BY <1>8 DEF FinalSaved, At, Goto, SlotInv, PermitsConserved, InsideSlot, Finalizing
  <2> QED
    BY <2>1, <2>2, <2>3, <2>4
<1>9. CASE FinalEmitted(t)
  <2>1. TypeOK'
    BY <1>9 DEF FinalEmitted, At, Goto, Status, Terminal, PC, Saving, Emitting, Finalizing, InsideSlot, OutcomeInv
  <2>2. AttemptInv'
    BY <1>9 DEF FinalEmitted, At, Goto, AttemptInv
  <2>3. OutcomeInv'
    BY <1>9 DEF FinalEmitted, At, Goto, OutcomeInv, Finalizing
  <2>4. SlotInv'
    BY <1>9 DEF FinalEmitted, At, Goto, SlotInv, PermitsConserved, InsideSlot, Finalizing
  <2> QED
    BY <2>1, <2>2, <2>3, <2>4
<1>10. CASE ReportBegin(t)
  <2>1. TypeOK'
    BY <1>10 DEF ReportBegin, At, Status, Terminal, PC, Saving, Emitting, Finalizing, InsideSlot
  <2>2. AttemptInv'
    BY <1>10 DEF ReportBegin, At, AttemptInv
  <2>3. OutcomeInv'
    BY <1>10 DEF ReportBegin, At, OutcomeInv, Finalizing
  <2>4. SlotInv'
    BY <1>10 DEF ReportBegin, At, SlotInv, PermitsConserved, InsideSlot, Finalizing
  <2> QED
    BY <2>1, <2>2, <2>3, <2>4
<1>11. CASE ReportSaved(t)
  <2>1. TypeOK'
    BY <1>11 DEF ReportSaved, Status, Terminal, PC, Saving, Emitting, Finalizing, InsideSlot
  <2>2. AttemptInv'
    BY <1>11 DEF ReportSaved, AttemptInv
  <2>3. OutcomeInv'
    BY <1>11 DEF ReportSaved, OutcomeInv, Finalizing
  <2>4. SlotInv'
    BY <1>11 DEF ReportSaved, SlotInv, PermitsConserved, InsideSlot, Finalizing
  <2> QED
    BY <2>1, <2>2, <2>3, <2>4
<1> QED
  BY <1>1, <1>2, <1>3, <1>4, <1>5, <1>6, <1>7, <1>8, <1>9, <1>10, <1>11

(* Entering _finalize from the attempt loop, and the loop's except clause. *)
LEMMA FinalizeStep ==
  ASSUME TypeInv, NEW t \in Task, NEW outcome \in Terminal,
         Finalize(t, outcome),
         t \in holding \/ outcome = "cancelled",
         stored' \in [Task -> Status \cup {"absent"}],
         posted' \in [Task -> Seq(Terminal)],
         interrupt' \in [Task -> BOOLEAN],
         UNCHANGED <<announced, cancellation, closing, reporting>>
  PROVE  TypeInv'
<1> USE TaskManagerAssumption DEF TypeInv, TypeOK, Finalize, Goto, semaphore, cancellation, closing
<1>1. TypeOK'
  <2>1. outcome \in Status /\ "final_save" \in PC
    BY DEF Status, PC, Saving
  <2>2. status' \in [Task -> Status]
    BY <2>1
  <2>3. pc' \in [Task -> PC]
    BY <2>1
  <2> QED
    BY <2>2, <2>3
<1>2. AttemptInv'
  BY DEF AttemptInv
<1>3. OutcomeInv'
  BY DEF OutcomeInv, Finalizing
<1>4. SlotInv'
  BY DEF SlotInv, PermitsConserved, InsideSlot, Finalizing
<1> QED
  BY <1>1, <1>2, <1>3, <1>4

LEMMA AttemptFailedStep ==
  ASSUME TypeInv, NEW t \in Task, t \in holding,
         AttemptFailed(t),
         UNCHANGED <<stored, interrupt, announced, posted>>,
         UNCHANGED <<cancellation, closing, reporting>>
  PROVE  TypeInv'
<1>1. CASE AttemptsLeft(t) /\ Goto(t, "backoff") /\ UNCHANGED <<status, attempts, semaphore>>
  <2> USE <1>1, TaskManagerAssumption
          DEF TypeInv, TypeOK, Goto, AttemptsLeft, semaphore, cancellation, closing
  <2>1. TypeOK'
    BY DEF PC
  <2>2. AttemptInv'
    BY DEF AttemptInv
  <2>3. OutcomeInv'
    BY DEF OutcomeInv, Finalizing
  <2>4. SlotInv'
    BY DEF SlotInv, PermitsConserved, InsideSlot, Finalizing
  <2> QED
    BY <2>1, <2>2, <2>3, <2>4
<1>2. CASE Finalize(t, "failed")
  BY <1>2, FinalizeStep DEF TypeInv, TypeOK, Terminal
<1> QED
  BY <1>1, <1>2 DEF AttemptFailed

(* Leaving _run on any path.                                               *)
LEMMA LeaveStep ==
  ASSUME TypeInv, NEW t \in Task, Leave(t),
         stored' \in [Task -> Status \cup {"absent"}],
         posted' \in [Task -> Seq(Terminal)],
         interrupt' \in [Task -> BOOLEAN],
         UNCHANGED <<announced, cancellation, closing, reporting>>
  PROVE  TypeInv'
<1>1. /\ permits' \in 0..MaxConcurrency
      /\ waiters' \in Seq(Task)
      /\ holding' = holding \ {t}
      /\ IsFiniteSet(holding')
      /\ permits' + Cardinality(holding') = MaxConcurrency
  BY ReleaseKeepsSum DEF Leave, TypeInv, SlotInv, PermitsConserved
<1> USE <1>1, TaskManagerAssumption DEF TypeInv, TypeOK, Leave, Goto, cancellation, closing
<1>2. TypeOK'
  BY DEF PC
<1>3. AttemptInv'
  BY DEF AttemptInv
<1>4. OutcomeInv'
  BY DEF OutcomeInv, Finalizing
<1>5. SlotInv'
  BY DEF SlotInv, PermitsConserved, InsideSlot, Finalizing
<1> QED
  BY <1>2, <1>3, <1>4, <1>5

(* Entering the semaphore.                                                 *)
LEMMA AdmitStep ==
  ASSUME TypeInv, NEW t \in Task, pc[t] \in {"ready", "acquire"},
         PermitFree, Admit(t),
         waiters' \in Seq(Task),
         UNCHANGED <<attempts, stored, interrupt, announced, posted>>,
         UNCHANGED <<cancellation, closing, reporting>>
  PROVE  TypeInv'
<1>1. t \notin holding
  BY DEF TypeInv, SlotInv, PermitsConserved, InsideSlot, Finalizing
<1>2. /\ permits' \in 0..MaxConcurrency
      /\ holding' = holding \cup {t}
      /\ IsFiniteSet(holding')
      /\ permits' + Cardinality(holding') = MaxConcurrency
  BY <1>1, AdmitKeepsSum DEF TypeInv, SlotInv, PermitsConserved
<1> USE <1>2, TaskManagerAssumption DEF TypeInv, TypeOK, Admit, Goto, cancellation, closing
<1>3. TypeOK'
  BY DEF PC, Status, Terminal, Saving
<1>4. AttemptInv'
  BY DEF AttemptInv
<1>5. OutcomeInv'
  BY DEF OutcomeInv, Finalizing, Terminal
<1>6. SlotInv'
  BY DEF SlotInv, PermitsConserved, InsideSlot, Finalizing
<1> QED
  BY <1>3, <1>4, <1>5, <1>6

(* The steps that enter or leave the semaphore, or finalize.               *)
LEMMA SlotStep ==
  ASSUME TypeInv, NEW t \in Task,
         \/ Start(t) \/ Acquire(t) \/ Dispatched(t)
         \/ WebhookDone(t) \/ SaveFailed(t) \/ Interrupt(t)
  PROVE  TypeInv'
<1>1. CASE Start(t)
  <2>1. CASE CancelledBeforeStart(t) /\ Finalize(t, "cancelled")
    BY <1>1, <2>1, FinalizeStep DEF Start, TypeInv, TypeOK, Terminal
  <2>2. CASE PermitFree /\ Admit(t) /\ UNCHANGED <<attempts, waiters>>
    BY <1>1, <2>2, AdmitStep DEF Start, At, TypeInv, TypeOK
  <2>3. CASE /\ waiters' = Append(waiters, t)
             /\ Goto(t, "acquire")
             /\ UNCHANGED <<status, attempts, permits, holding>>
    <3> USE <1>1, <2>3, TaskManagerAssumption
            DEF Start, At, Goto, TypeInv, TypeOK, cancellation, closing
    <3>1. TypeOK'
      BY DEF PC
    <3>2. AttemptInv'
      BY DEF AttemptInv
    <3>3. OutcomeInv'
      BY DEF OutcomeInv, Finalizing
    <3>4. SlotInv'
      BY DEF SlotInv, PermitsConserved, InsideSlot, Finalizing
    <3> QED
      BY <3>1, <3>2, <3>3, <3>4
  <2> QED
    BY <1>1, <2>1, <2>2, <2>3 DEF Start
<1>2. CASE Acquire(t)
  <2>1. waiters' \in Seq(Task)
    BY <1>2 DEF Acquire, TypeInv, TypeOK
  <2> QED
    BY <1>2, <2>1, AdmitStep DEF Acquire, At
<1>3. CASE Dispatched(t)
  <2>1. t \in holding
    BY <1>3 DEF Dispatched, At, TypeInv, TypeOK, SlotInv, PermitsConserved, InsideSlot
  <2>2. CASE Finalize(t, "succeeded")
    BY <1>3, <2>1, <2>2, FinalizeStep DEF Dispatched, TypeInv, TypeOK, Terminal
  <2>3. CASE AttemptFailed(t)
    BY <1>3, <2>1, <2>3, AttemptFailedStep DEF Dispatched
  <2> QED
    BY <1>3, <2>2, <2>3 DEF Dispatched
<1>4. CASE WebhookDone(t)
  <2>1. posted' \in [Task -> Seq(Terminal)]
    <3>1. Append(posted[t], status[t]) \in Seq(Terminal)
      BY <1>4 DEF WebhookDone, At, TypeInv, TypeOK, OutcomeInv, Finalizing
    <3> QED
      BY <1>4, <3>1 DEF WebhookDone, TypeInv, TypeOK
  <2> QED
    BY <1>4, <2>1, LeaveStep DEF WebhookDone, TypeInv, TypeOK
<1>5. CASE SaveFailed(t)
  <2>1. CASE InTry(t) /\ AttemptFailed(t)
    <3>1. t \in holding
      BY <1>5, <2>1 DEF SaveFailed, InTry, Saving, TypeInv, SlotInv
    <3> QED
      BY <1>5, <2>1, <3>1, AttemptFailedStep DEF SaveFailed
  <2>2. CASE ~InTry(t) /\ Leave(t)
    BY <1>5, <2>2, LeaveStep DEF SaveFailed, TypeInv, TypeOK
  <2> QED
    BY <1>5, <2>1, <2>2 DEF SaveFailed
<1>6. CASE Interrupt(t)
  <2>1. stored' \in [Task -> Status \cup {"absent"}]
    BY <1>6 DEF Interrupt, TypeInv, TypeOK
  <2>2. posted' \in [Task -> Seq(Terminal)]
    <3>1. pc[t] = "webhook" => Append(posted[t], status[t]) \in Seq(Terminal)
      BY DEF TypeInv, TypeOK, OutcomeInv, Finalizing
    <3> QED
      BY <1>6, <3>1 DEF Interrupt, TypeInv, TypeOK
  <2>3. interrupt' \in [Task -> BOOLEAN]
    BY <1>6 DEF Interrupt, TypeInv, TypeOK
  <2>4. CASE Finalize(t, "cancelled")
    BY <1>6, <2>1, <2>2, <2>3, <2>4, FinalizeStep DEF Interrupt, Terminal
  <2>5. CASE Leave(t)
    BY <1>6, <2>1, <2>2, <2>3, <2>5, LeaveStep DEF Interrupt
  <2> QED
    BY <1>6, <2>4, <2>5 DEF Interrupt
<1> QED
  BY <1>1, <1>2, <1>3, <1>4, <1>5, <1>6

(* cancel() and shutdown() leave every record and permit where they are.   *)
LEMMA ControlStep ==
  ASSUME TypeInv,
         \/ \E c \in Caller, t \in Task : CancelRead(c, t)
         \/ \E c \in Callers : CancelAct(c)
         \/ BeginShutdown
         \/ ShutdownStep
         \/ ShutdownFails
  PROVE  TypeInv'
<1>1. UNCHANGED <<status, attempts, stored, pc, announced, posted, semaphore, reporting>>
  BY DEF CancelRead, CancelAct, BeginShutdown, ShutdownStep, ShutdownCancel, ShutdownFails, CloseStore,
         coroutines
<1> USE <1>1, TaskManagerAssumption DEF TypeInv, TypeOK, semaphore
<1>2. TypeOK'
  <2>1. CASE \E c \in Caller, t \in Task : CancelRead(c, t)
    BY <2>1 DEF CancelRead, coroutines, closing, Callers
  <2>2. CASE \E c \in Callers : CancelAct(c)
    <3>1. PICK c \in Callers : CancelAct(c)
      BY <2>2
    <3>2. call[c] \in Task
      BY <3>1 DEF CancelAct
    <3>3. interrupt' \in [Task -> BOOLEAN]
      BY <3>1, <3>2 DEF CancelAct
    <3> QED
      BY <3>1, <3>2, <3>3 DEF CancelAct, closing
  <2>3. CASE BeginShutdown
    BY <2>3 DEF BeginShutdown, coroutines, cancellation, Running
  <2>4. CASE ShutdownStep
    BY <2>4 DEF ShutdownStep, ShutdownCancel, CloseStore, coroutines, cancellation,
                closing, Callers
  <2>5. CASE ShutdownFails
    BY <2>5 DEF ShutdownFails, coroutines, cancellation
  <2> QED
    BY <2>1, <2>2, <2>3, <2>4, <2>5
<1>3. AttemptInv' /\ OutcomeInv' /\ SlotInv'
  BY DEF AttemptInv, OutcomeInv, SlotInv, PermitsConserved
<1> QED
  BY <1>2, <1>3

LEMMA TypeInvInit == Init => TypeInv
<1> SUFFICES ASSUME Init PROVE TypeInv
  OBVIOUS
<1> USE TaskManagerAssumption DEF Init
<1>1. TypeOK
  BY DEF TypeOK, Status, PC, Terminal, Callers
<1>2. AttemptInv /\ OutcomeInv
  BY DEF AttemptInv, OutcomeInv, Finalizing
<1>3. SlotInv
  BY FS_EmptySet DEF SlotInv, PermitsConserved, InsideSlot, Finalizing
<1> QED
  BY <1>1, <1>2, <1>3 DEF TypeInv

LEMMA TypeInvStep == TypeInv /\ [Next]_vars => TypeInv'
<1> SUFFICES ASSUME TypeInv, [Next]_vars PROVE TypeInv'
  OBVIOUS
<1>1. CASE \E t \in Task : Submit(t) \/ Proceed(t) \/ Dispatched(t)
  BY <1>1, QuietStep, SlotStep DEF Proceed
<1>2. CASE \E t \in Task : ReportBegin(t) \/ ReportSaved(t)
  BY <1>2, QuietStep
<1>3. CASE \/ \E c \in Caller, t \in Task : CancelRead(c, t)
           \/ \E c \in Callers : CancelAct(c)
           \/ BeginShutdown
           \/ ShutdownStep \/ ShutdownFails
  BY <1>3, ControlStep
<1>4. CASE UNCHANGED vars
  BY <1>4 DEF vars, coroutines, semaphore, cancellation, closing, TypeInv, TypeOK,
              AttemptInv, OutcomeInv, SlotInv, PermitsConserved
<1> QED
  BY <1>1, <1>2, <1>3, <1>4 DEF Next

(* Every variable keeps its type; attempts stay within max_attempts.       *)
THEOREM TypeCorrect == Spec => []TypeOK
<1>1. TypeInv => TypeOK
  BY DEF TypeInv
<1> QED
  BY <1>1, TypeInvInit, TypeInvStep, PTL DEF Spec

(* No path out of _run leaks a permit of _semaphore or returns one twice,  *)
(* for any number of tasks and permits.                                    *)
THEOREM SemaphoreConserved == Spec => []PermitsConserved
<1>1. TypeInv => PermitsConserved
  BY DEF TypeInv, SlotInv
<1> QED
  BY <1>1, TypeInvInit, TypeInvStep, PTL DEF Spec

------------------------------------------------------------------------------
(* Cancellation.                                                           *)

(* The steps of a coroutine.                                               *)
LEMMA CancelInvTaskStep ==
  ASSUME TypeInv, CancelInv, NEW t \in Task,
         Submit(t) \/ Proceed(t) \/ Dispatched(t)
  PROVE  CancelInv'
<1> USE DEF TypeInv, TypeOK, CancelInv, coroutines, semaphore, cancellation
<1>1. CASE Submit(t) \/ SubmitSaved(t) \/ Register(t)
  BY <1>1 DEF Submit, SubmitSaved, Register, At, Goto, InsideSlot, Finalizing
<1>2. CASE Start(t) \/ Acquire(t)
  <2>1. CASE Admit(t)
    BY <1>2, <2>1 DEF Start, Acquire, Admit, CancelledBeforeStart, Goto, InsideSlot, Finalizing
  <2>2. CASE ~Admit(t)
    BY <1>2, <2>2 DEF Start, Acquire, Finalize, Goto, InsideSlot, Finalizing
  <2> QED
    BY <2>1, <2>2
<1>3. CASE StartSaved(t) \/ StartEmitted(t) \/ AttemptSaved(t) \/ BackoffOver(t)
  BY <1>3 DEF StartSaved, StartEmitted, AttemptSaved, BackoffOver, NextAttempt, At, CanStep,
              Goto, InsideSlot, Finalizing
<1>4. CASE Dispatched(t)
  BY <1>4 DEF Dispatched, AttemptFailed, Finalize, At, CanStep, Goto, InsideSlot, Finalizing
<1>5. CASE FinalSaved(t) \/ FinalEmitted(t)
  BY <1>5 DEF FinalSaved, FinalEmitted, At, CanStep, Goto, InsideSlot, Finalizing
<1>6. CASE WebhookDone(t)
  BY <1>6 DEF WebhookDone, Leave, Goto, InsideSlot, Finalizing
<1>7. CASE SaveFailed(t)
  <2>1. CASE InTry(t) /\ AttemptFailed(t)
    BY <1>7, <2>1 DEF SaveFailed, InTry, AttemptFailed, Finalize, CanStep, Goto, Saving,
                      InsideSlot, Finalizing
  <2>2. CASE Leave(t)
    BY <1>7, <2>2 DEF SaveFailed, Leave, Goto, InsideSlot, Finalizing
  <2> QED
    BY <1>7, <2>1, <2>2 DEF SaveFailed
<1>8. CASE Interrupt(t)
  <2>1. CASE Finalize(t, "cancelled")
    BY <1>8, <2>1 DEF Interrupt, Finalize, Goto, InsideSlot, Finalizing
  <2>2. CASE Leave(t)
    BY <1>8, <2>2 DEF Interrupt, Leave, Goto, InsideSlot, Finalizing
  <2> QED
    BY <1>8, <2>1, <2>2 DEF Interrupt
<1> QED
  BY <1>1, <1>2, <1>3, <1>4, <1>5, <1>6, <1>7, <1>8 DEF Proceed

LEMMA CancelInvStep == TypeInv /\ CancelInv /\ [Next]_vars => CancelInv'
<1> SUFFICES ASSUME TypeInv, CancelInv, [Next]_vars PROVE CancelInv'
  OBVIOUS
<1>1. CASE \E t \in Task : Submit(t) \/ Proceed(t) \/ Dispatched(t)
  BY <1>1, CancelInvTaskStep
<1>2. CASE \E c \in Callers : CancelAct(c)
  <2>1. PICK c \in Callers : CancelAct(c)
    BY <1>2
  <2>2. call[c] \in Task
    BY <2>1 DEF CancelAct, TypeInv, TypeOK
  <2>3. pc[call[c]] \in InsideSlot \cup Finalizing => call[c] \in Running
    BY <2>2 DEF InsideSlot, Finalizing, Running
  <2> QED
    BY <2>1, <2>2, <2>3 DEF CancelAct, CancelInv, TypeInv, TypeOK
<1>3. CASE \/ \E t \in Task : ReportBegin(t) \/ ReportSaved(t)
           \/ \E c \in Caller, t \in Task : CancelRead(c, t)
           \/ BeginShutdown
           \/ ShutdownStep \/ ShutdownFails
           \/ UNCHANGED vars
  BY <1>3 DEF CancelInv, ReportBegin, ReportSaved, CancelRead, BeginShutdown, ShutdownStep,
              ShutdownCancel, ShutdownFails, CloseStore, vars, coroutines, cancellation
<1> QED
  BY <1>1, <1>2, <1>3 DEF Next

(* A target is entered from attempt_save alone, and not with CancelledError*)
(* due.                                                                    *)
LEMMA DispatchNeedsNoInterrupt ==
  ASSUME TypeInv, [Next]_vars, NEW t \in Task, pc[t] # "dispatch", pc'[t] = "dispatch"
  PROVE  pc[t] = "attempt_save" /\ ~interrupt[t]
<1>1. ~UNCHANGED pc
  OBVIOUS
<1>2. PICK u \in Task : Submit(u) \/ Proceed(u) \/ Dispatched(u)
  BY <1>1 DEF Next, ReportBegin, ReportSaved, CancelRead, CancelAct, BeginShutdown,
              ShutdownStep, ShutdownCancel, ShutdownFails, CloseStore, vars, coroutines
<1> USE DEF TypeInv, TypeOK
<1>3. CASE AttemptSaved(u)
  BY <1>3 DEF AttemptSaved, At, CanStep, Goto
<1>4. CASE \/ Submit(u) \/ SubmitSaved(u) \/ Register(u) \/ Start(u) \/ Acquire(u)
           \/ StartSaved(u) \/ StartEmitted(u) \/ BackoffOver(u)
  BY <1>4 DEF Submit, SubmitSaved, Register, Start, Acquire, Admit, StartSaved, StartEmitted,
              BackoffOver, NextAttempt, Finalize, Goto
<1>5. CASE \/ Dispatched(u) \/ FinalSaved(u) \/ FinalEmitted(u) \/ WebhookDone(u)
           \/ SaveFailed(u) \/ Interrupt(u)
  BY <1>5 DEF Dispatched, FinalSaved, FinalEmitted, WebhookDone, SaveFailed, Interrupt,
              AttemptFailed, Finalize, Leave, Goto
<1> QED
  BY <1>2, <1>3, <1>4, <1>5 DEF Proceed

(* After cancel() has flagged a task its target is never invoked again:    *)
(* whatever await the coroutine stood at, it meets CancelledError first.   *)
THEOREM CancelStopsDispatch == Spec => NoDispatchAfterCancel
<1>1. Init => CancelInv
  BY DEF Init, CancelInv
<1>2. TypeInv /\ CancelInv /\ [Next]_vars
        => [\A t \in cancelRequested : pc[t] # "dispatch" => pc'[t] # "dispatch"]_vars
  <2> SUFFICES ASSUME TypeInv, CancelInv, [Next]_vars, NEW t \in cancelRequested,
                      pc[t] # "dispatch", pc'[t] = "dispatch"
               PROVE  FALSE
    OBVIOUS
  <2>1. t \in Task
    BY DEF TypeInv, TypeOK
  <2>2. pc[t] = "attempt_save" /\ ~interrupt[t]
    BY <2>1, DispatchNeedsNoInterrupt
  <2> QED
    BY <2>2 DEF CancelInv, InsideSlot
<1> QED
  BY <1>1, <1>2, TypeInvInit, TypeInvStep, CancelInvStep, PTL DEF Spec, NoDispatchAfterCancel

------------------------------------------------------------------------------
(* Shutdown.                                                               *)

(* A coroutine comes to life by Submit and Register only.                  *)
LEMMA RunningShrinks ==
  ASSUME TypeInv, [Next]_vars,
         phase # "up",
         \A t \in Task : pc[t] \notin {"submit_save", "submit_emit"}
  PROVE  /\ Running' \subseteq Running
         /\ \A t \in Task : pc'[t] \notin {"submit_save", "submit_emit"}
<1> USE DEF TypeInv, TypeOK, Running
<1>1. CASE UNCHANGED pc
  BY <1>1
<1>2. CASE ~UNCHANGED pc
  <2>1. PICK u \in Task : Submit(u) \/ Proceed(u) \/ Dispatched(u)
    BY <1>2 DEF Next, ReportBegin, ReportSaved, CancelRead, CancelAct, BeginShutdown,
                ShutdownStep, ShutdownCancel, ShutdownFails, CloseStore, vars, coroutines
  <2>2. ~Submit(u) /\ ~SubmitSaved(u) /\ ~Register(u)
    BY DEF Submit, SubmitSaved, Register, At
  <2>3. CASE \/ Start(u) \/ Acquire(u) \/ StartSaved(u) \/ StartEmitted(u)
             \/ AttemptSaved(u) \/ BackoffOver(u)
    BY <2>3 DEF Start, Acquire, Admit, Finalize, StartSaved, StartEmitted, AttemptSaved,
                BackoffOver, NextAttempt, At, Goto
  <2>4. CASE Dispatched(u) \/ FinalSaved(u) \/ FinalEmitted(u) \/ WebhookDone(u)
    BY <2>4 DEF Dispatched, FinalSaved, FinalEmitted, WebhookDone, AttemptFailed, Finalize,
                Leave, At, Goto
  <2>5. CASE SaveFailed(u)
    BY <2>5 DEF SaveFailed, InTry, Saving, Finalizing, AttemptFailed, Finalize, Leave, Goto
  <2>6. CASE Interrupt(u)
    BY <2>6 DEF Interrupt, InTry, Finalizing, Finalize, Leave, Goto
  <2> QED
    BY <2>1, <2>2, <2>3, <2>4, <2>5, <2>6 DEF Proceed
<1> QED
  BY <1>1, <1>2

(* phase moves only by shutdown()'s own steps.                             *)
LEMMA PhaseSteps ==
  ASSUME [Next]_vars
  PROVE  \/ UNCHANGED <<phase, draining>>
         \/ BeginShutdown
         \/ CloseStore
         \/ ShutdownFails
<1>1. CASE \E t \in Task : Submit(t) \/ Proceed(t) \/ Dispatched(t)
  BY <1>1 DEF Proceed, Submit, SubmitSaved, Register, Start, Acquire, StartSaved,
              StartEmitted, AttemptSaved, BackoffOver, Dispatched, FinalSaved, FinalEmitted,
              WebhookDone, SaveFailed, Interrupt, closing
<1>2. CASE ~\E t \in Task : Submit(t) \/ Proceed(t) \/ Dispatched(t)
  BY <1>2 DEF Next, ReportBegin, ReportSaved, CancelRead, CancelAct, ShutdownStep,
              ShutdownCancel, vars, closing
<1> QED
  BY <1>1, <1>2

LEMMA DrainInvStep == TypeInv /\ DrainInv /\ [Next]_vars => DrainInv'
<1> SUFFICES ASSUME TypeInv, DrainInv, [Next]_vars PROVE DrainInv'
  OBVIOUS
<1>1. CASE BeginShutdown
  BY <1>1 DEF BeginShutdown, DrainInv, Running, coroutines
<1>2. CASE CloseStore
  <2>1. UNCHANGED <<pc, draining>> /\ Running' = Running /\ Running = {}
    BY <1>2 DEF CloseStore, DrainInv, Running, Gathered, coroutines
  <2> QED
    BY <1>2, <2>1 DEF CloseStore, DrainInv
<1>3. CASE ShutdownFails
  BY <1>3 DEF ShutdownFails, DrainInv, Running, coroutines
<1>4. CASE UNCHANGED <<phase, draining>>
  <2>1. CASE phase = "up"
    BY <1>4, <2>1 DEF DrainInv
  <2>2. CASE phase # "up"
    <3>1. \A t \in Task : pc[t] \notin {"submit_save", "submit_emit"}
      BY <2>2 DEF DrainInv
    <3>2. /\ Running' \subseteq Running
          /\ \A t \in Task : pc'[t] \notin {"submit_save", "submit_emit"}
      BY <2>2, <3>1, RunningShrinks
    <3> QED
      BY <1>4, <2>2, <3>2 DEF DrainInv
  <2> QED
    BY <2>1, <2>2
<1> QED
  BY <1>1, <1>2, <1>3, <1>4, PhaseSteps

(* When shutdown() closes the store no task coroutine can still use it.    *)
THEOREM ShutdownDrains == Spec => []ClosedStoreIsQuiet
<1>1. Init => DrainInv
  BY DEF Init, DrainInv
<1>2. DrainInv => ClosedStoreIsQuiet
  BY DEF DrainInv, ClosedStoreIsQuiet
<1> QED
  BY <1>1, <1>2, TypeInvInit, TypeInvStep, DrainInvStep, PTL DEF Spec

------------------------------------------------------------------------------
(* What is in the rows.                                                    *)

Fatal == {"failed", "cancelled"}

(* Why a fatal row stays: only _finalize makes the live record fatal, what *)
(* follows it writes nothing else, and a background report has its         *)
(* snapshot from before it.                                                *)
RowInv ==
  \A t \in Task :
    /\ pc[t] \notin Finalizing \cup {"ended"} => status[t] \notin Fatal
    /\ pc[t] \notin {"final_emit", "webhook", "ended"} => stored[t] \notin Fatal
    /\ pc[t] \in {"final_emit", "webhook"} /\ stored[t] \in Fatal => status[t] = stored[t]
    /\ reporting[t] \notin Fatal

(* Backends that do not suspend run a save or an append in one piece:      *)
(* nobody else is in one, no cancel() stands between its read and its      *)
(* action, and CancelledError comes only at a true await.                  *)
SyncInv ==
  /\ \A t \in Task : interrupt[t] => pc[t] \in {"ready", "acquire", "dispatch", "backoff"}
  /\ \A t \in Task : pc[t] \in Saving \cup Emitting =>
       /\ \A u \in Task \ {t} : pc[u] \notin Saving \cup Emitting
       /\ \A c \in Callers : call[c] = NoTask
  /\ \A c \in Callers : call[c] # NoTask => stored[call[c]] \notin Terminal \cup {"absent"}

(* The row follows the record, save by save, and the outcome is broadcast  *)
(* and POSTed behind the last one.                                         *)
Recorded(t) ==
  /\ pc[t] \in {"absent", "submit_save"} =>
       stored[t] = "absent" /\ status[t] = "queued" /\ reporting[t] = "none"
  /\ pc[t] \in {"submit_emit", "ready", "acquire"} => stored[t] = "queued" /\ status[t] = "queued"
  /\ pc[t] = "start_save" => stored[t] = "queued" /\ status[t] = "running"
  /\ pc[t] \in {"start_emit", "attempt_save", "dispatch", "backoff"} =>
       stored[t] = "running" /\ status[t] = "running"
  /\ pc[t] = "final_save" => stored[t] = "running" \/ (stored[t] = "queued" /\ status[t] = "cancelled")
  /\ pc[t] \in {"final_emit", "webhook", "ended"} => stored[t] = status[t]

Told(t) ==
  /\ pc[t] \notin {"webhook", "ended"} \/ stored[t] \notin Terminal =>
       announced[t] = <<>> /\ posted[t] = <<>>
  /\ pc[t] = "webhook" => announced[t] = <<stored[t]>> /\ posted[t] = <<>>
  /\ pc[t] = "ended" /\ stored[t] \in Terminal =>
       announced[t] = <<stored[t]>> /\ posted[t] \in {<<>>, <<stored[t]>>}

LifeInv == SyncInv /\ \A t \in Task : Recorded(t) /\ Told(t)

(* A step of one coroutine leaves the others and their rows alone.         *)
LEMMA OthersStay ==
  ASSUME TypeOK, NEW t \in Task, Submit(t) \/ Proceed(t) \/ Dispatched(t)
  PROVE  /\ \A u \in Task \ {t} :
              /\ pc'[u] = pc[u] /\ status'[u] = status[u] /\ stored'[u] = stored[u]
              /\ interrupt'[u] = interrupt[u]
              /\ announced'[u] = announced[u] /\ posted'[u] = posted[u]
         /\ UNCHANGED <<reporting, call>>
<1> USE DEF TypeOK, semaphore, cancellation, Goto
<1>1. CASE \/ Submit(t) \/ SubmitSaved(t) \/ Register(t) \/ StartSaved(t) \/ StartEmitted(t)
           \/ AttemptSaved(t) \/ BackoffOver(t) \/ FinalSaved(t) \/ FinalEmitted(t)
  BY <1>1 DEF Submit, SubmitSaved, Register, StartSaved, StartEmitted, AttemptSaved, BackoffOver,
              FinalSaved, FinalEmitted, NextAttempt
<1>2. CASE Start(t) \/ Acquire(t)
  BY <1>2 DEF Start, Acquire, Admit, Finalize
<1>3. CASE Dispatched(t) \/ SaveFailed(t)
  BY <1>3 DEF Dispatched, SaveFailed, AttemptFailed, Finalize, Leave
<1>4. CASE WebhookDone(t)
  BY <1>4 DEF WebhookDone, Leave
<1>5. CASE Interrupt(t)
  BY <1>5 DEF Interrupt, Finalize, Leave
<1> QED BY <1>1, <1>2, <1>3, <1>4, <1>5 DEF Proceed

(* Of one coroutine's own row.                                             *)
RowAt(t) ==
  /\ pc[t] \notin Finalizing \cup {"ended"} => status[t] \notin Fatal
  /\ pc[t] \notin {"final_emit", "webhook", "ended"} => stored[t] \notin Fatal
  /\ pc[t] \in {"final_emit", "webhook"} /\ stored[t] \in Fatal => status[t] = stored[t]
  /\ reporting[t] \notin Fatal

LEMMA RowTaskStep ==
  ASSUME TypeInv, RowInv, NEW t \in Task, Submit(t) \/ Proceed(t) \/ Dispatched(t)
  PROVE  /\ RowAt(t)'
         /\ stored[t] \in Fatal => stored'[t] = stored[t]
<1>1. RowAt(t)
  BY DEF RowInv, RowAt
<1>2. reporting' = reporting
  BY OthersStay DEF TypeInv
<1> USE <1>1, <1>2 DEF TypeInv, TypeOK, RowAt, Fatal, Finalizing, Goto, At
<1>3. CASE \/ Submit(t) \/ SubmitSaved(t) \/ Register(t) \/ StartSaved(t) \/ StartEmitted(t)
           \/ AttemptSaved(t) \/ BackoffOver(t)
  BY <1>3 DEF Submit, SubmitSaved, Register, StartSaved, StartEmitted, AttemptSaved, BackoffOver,
              NextAttempt
<1>4. CASE FinalSaved(t) \/ FinalEmitted(t)
  BY <1>4 DEF FinalSaved, FinalEmitted
<1>5. CASE Start(t) \/ Acquire(t)
  BY <1>5 DEF Start, Acquire, Admit, Finalize
<1>6. CASE Dispatched(t)
  BY <1>6 DEF Dispatched, AttemptFailed, Finalize
<1>7. CASE SaveFailed(t)
  BY <1>7 DEF SaveFailed, AttemptFailed, Finalize, InTry, Leave, Saving
<1>8. CASE WebhookDone(t)
  BY <1>8 DEF WebhookDone, Leave
<1>9. CASE Interrupt(t)
  BY <1>9 DEF Interrupt, Finalize, InTry, Leave, Saving
<1> QED BY <1>3, <1>4, <1>5, <1>6, <1>7, <1>8, <1>9 DEF Proceed

(* The next step of anything, seen from the rows.                          *)
LEMMA RowStep ==
  ASSUME TypeInv, RowInv, [Next]_vars
  PROVE  /\ RowInv'
         /\ \A t \in Task : stored[t] \in Fatal /\ reporting[t] = "none" => stored'[t] = stored[t]
<1>1. CASE \E t \in Task : Submit(t) \/ Proceed(t) \/ Dispatched(t)
  <2>1. PICK t \in Task : Submit(t) \/ Proceed(t) \/ Dispatched(t)
    BY <1>1
  <2>2. RowAt(t)' /\ (stored[t] \in Fatal => stored'[t] = stored[t])
    BY <2>1, RowTaskStep
  <2>3. \A u \in Task \ {t} : /\ pc'[u] = pc[u] /\ status'[u] = status[u] /\ stored'[u] = stored[u]
                              /\ reporting'[u] = reporting[u]
    BY <2>1, OthersStay DEF TypeInv
  <2> QED BY <2>2, <2>3 DEF RowInv, RowAt
<1>2. CASE \E t \in Task : ReportBegin(t) \/ ReportSaved(t)
  <2>1. PICK t \in Task : ReportBegin(t) \/ ReportSaved(t)
    BY <1>2
  <2>2. CASE ReportBegin(t)
    BY <2>2 DEF ReportBegin, At, RowInv, TypeInv, TypeOK, coroutines, Finalizing
  <2>3. CASE ReportSaved(t)
    <3>1. /\ pc' = pc /\ status' = status
          /\ reporting' = [reporting EXCEPT ![t] = "none"]
          /\ \A u \in Task \ {t} : stored'[u] = stored[u]
          /\ stored'[t] \in {stored[t], reporting[t]} \/ (~AsyncBackends /\ stored'[t] = status[t])
          /\ reporting[t] # "none"
      BY <2>3 DEF ReportSaved, TypeInv, TypeOK
    <3>2. ~AsyncBackends => pc[t] # "final_save"
      BY <2>3 DEF ReportSaved, OnlyMover, Saving
    <3>3. "none" \notin Fatal
      BY DEF Fatal
    <3> QED BY <3>1, <3>2, <3>3 DEF RowInv, Finalizing, TypeInv, TypeOK
  <2> QED BY <2>1, <2>2, <2>3
<1>3. CASE \/ \E c \in Caller, t \in Task : CancelRead(c, t)
           \/ \E c \in Callers : CancelAct(c)
           \/ BeginShutdown \/ ShutdownStep \/ ShutdownFails \/ UNCHANGED vars
  BY <1>3 DEF CancelRead, CancelAct, BeginShutdown, ShutdownStep, ShutdownCancel, ShutdownFails, CloseStore,
              vars, coroutines, RowInv
<1> QED BY <1>1, <1>2, <1>3 DEF Next

(* manager.py, _run and _finalize: a row that says failed or cancelled is  *)
(* never overwritten, whatever saves fail and whatever is cancelled again, *)
(* unless a background report still has a snapshot to write.               *)
THEOREM FatalRowsStay == Spec => FailedAndCancelledAreFinal
<1>1. Init => RowInv
  BY DEF Init, RowInv, Fatal
<1>2. TypeInv /\ RowInv /\ [Next]_vars => RowInv'
  BY RowStep
<1>3. TypeInv /\ RowInv /\ [Next]_vars =>
        [\A t \in Task : stored[t] \in {"failed", "cancelled"} /\ reporting[t] = "none"
           => stored'[t] = stored[t]]_vars
  BY RowStep DEF Fatal
<1> QED
  BY <1>1, <1>2, <1>3, TypeInvInit, TypeInvStep, PTL DEF Spec, FailedAndCancelledAreFinal

------------------------------------------------------------------------------
(* With backends that do not suspend and saves that do not fail, the rows  *)
(* and the broadcasts live the lifecycle of models.py.                     *)

Prompt == ~AsyncBackends /\ ~SaveFails

(* Nobody else is in the middle of anything while a coroutine steps.       *)
LEMMA AloneWhenStepping ==
  ASSUME Prompt, TypeOK, NEW t \in Task, Proceed(t) \/ Submit(t) \/ Dispatched(t)
  PROVE  /\ \A u \in Task \ {t} : pc[u] \notin Saving \cup Emitting
         /\ \A c \in Callers : call[c] = NoTask
         /\ ~SaveFailed(t)
BY DEF Prompt, Proceed, Submit, SubmitSaved, Register, Start, Acquire, StartSaved, StartEmitted,
       AttemptSaved, BackoffOver, Dispatched, FinalSaved, FinalEmitted, WebhookDone, SaveFailed,
       Interrupt, At, CanStep, OnlyMover

(* What a step of t makes of its own row, and of what was told about it.   *)
LifeStep(t) ==
  \/ stored'[t] = stored[t] /\ announced'[t] = announced[t]
  \/ /\ announced'[t] = announced[t]
     /\ \/ stored[t] = "absent" /\ stored'[t] = "queued"
        \/ stored[t] = "queued" /\ stored'[t] \in {"running", "cancelled"}
        \/ stored[t] = "running" /\ stored'[t] \in Terminal
  \/ /\ stored'[t] = stored[t] /\ stored[t] \in Terminal
     /\ announced[t] = <<>> /\ announced'[t] = <<stored[t]>>

LEMMA LifeTaskStep ==
  ASSUME Prompt, TypeInv, LifeInv, NEW t \in Task, Submit(t) \/ Proceed(t) \/ Dispatched(t)
  PROVE  /\ Recorded(t)' /\ Told(t)' /\ LifeStep(t)
         /\ interrupt'[t] => pc'[t] \in {"ready", "acquire", "dispatch", "backoff"}
<1>1. /\ Recorded(t) /\ Told(t) /\ reporting' = reporting
      /\ interrupt[t] => pc[t] \in {"ready", "acquire", "dispatch", "backoff"}
      /\ pc[t] \in Finalizing => status[t] \in Terminal
  BY OthersStay DEF LifeInv, SyncInv, TypeInv, OutcomeInv
<1>2. \A s \in Terminal : Append(<<>>, s) = <<s>>
  OBVIOUS
<1>3. "queued" \notin Terminal /\ "running" \notin Terminal /\ "absent" \notin Terminal
  BY DEF Terminal
<1> USE <1>1, <1>3 DEF TypeInv, TypeOK, Recorded, Told, LifeStep, Goto, At, CanStep, Finalizing
<1>4. CASE Submit(t) \/ SubmitSaved(t) \/ Register(t)
  BY <1>4 DEF Submit, SubmitSaved, Register
<1>5. CASE StartSaved(t) \/ StartEmitted(t) \/ AttemptSaved(t) \/ BackoffOver(t)
  BY <1>5 DEF StartSaved, StartEmitted, AttemptSaved, BackoffOver, NextAttempt
<1>6. CASE Start(t) \/ Acquire(t)
  BY <1>6 DEF Start, Acquire, Admit, Finalize
<1>7. CASE Dispatched(t)
  BY <1>7 DEF Dispatched, AttemptFailed, Finalize
<1>8. CASE FinalSaved(t)
  BY <1>8 DEF FinalSaved, Terminal
<1>9. CASE FinalEmitted(t)
  BY <1>9, <1>2 DEF FinalEmitted
<1>10. CASE WebhookDone(t)
  BY <1>10, <1>2 DEF WebhookDone, Leave
<1>11. CASE Interrupt(t)
  <2>1. pc[t] \in {"ready", "acquire", "dispatch", "backoff"}
    BY <1>11 DEF Interrupt
  <2>2. stored' = stored /\ posted' = posted /\ announced' = announced
    BY <1>11, <2>1 DEF Interrupt, Saving
  <2>3. interrupt'[t] = FALSE
    BY <1>11 DEF Interrupt
  <2>4. CASE Finalize(t, "cancelled") /\ pc[t] = "dispatch"
    BY <2>2, <2>3, <2>4 DEF Finalize
  <2>5. CASE Leave(t)
    BY <2>1, <2>2, <2>3, <2>5 DEF Leave
  <2> QED BY <1>11, <2>1, <2>4, <2>5 DEF Interrupt, InTry
<1>12. ~SaveFailed(t)
  BY AloneWhenStepping
<1> QED BY <1>4, <1>5, <1>6, <1>7, <1>8, <1>9, <1>10, <1>11, <1>12 DEF Proceed

(* Each step keeps the invariant and moves one row, or tells one outcome,  *)
(* or neither.                                                             *)
LEMMA LifeInvStep ==
  ASSUME Prompt, TypeInv, LifeInv, [Next]_vars
  PROVE  /\ LifeInv'
         /\ \/ UNCHANGED <<stored, announced>>
            \/ \E t \in Task :
                 /\ LifeStep(t)
                 /\ \A u \in Task \ {t} : stored'[u] = stored[u] /\ announced'[u] = announced[u]
<1> USE DEF TypeInv, TypeOK
<1>1. CASE \E t \in Task : Submit(t) \/ Proceed(t) \/ Dispatched(t)
  <2>1. PICK t \in Task : Submit(t) \/ Proceed(t) \/ Dispatched(t)
    BY <1>1
  <2>2. /\ Recorded(t)' /\ Told(t)' /\ LifeStep(t)
        /\ interrupt'[t] => pc'[t] \in {"ready", "acquire", "dispatch", "backoff"}
    BY <2>1, LifeTaskStep
  <2>3. /\ \A u \in Task \ {t} :
             /\ pc'[u] = pc[u] /\ status'[u] = status[u] /\ stored'[u] = stored[u]
             /\ interrupt'[u] = interrupt[u]
             /\ announced'[u] = announced[u] /\ posted'[u] = posted[u]
        /\ reporting' = reporting /\ call' = call
    BY <2>1, OthersStay
  <2>4. /\ \A u \in Task \ {t} : pc[u] \notin Saving \cup Emitting
        /\ \A c \in Callers : call[c] = NoTask
    BY <2>1, AloneWhenStepping
  <2>5. SyncInv'
    BY <2>2, <2>3, <2>4 DEF LifeInv, SyncInv
  <2>6. ASSUME NEW u \in Task PROVE Recorded(u)' /\ Told(u)'
    <3>1. CASE u # t
      BY <2>3, <3>1 DEF LifeInv, Recorded, Told
    <3> QED BY <2>2, <3>1
  <2> QED BY <2>2, <2>3, <2>5, <2>6 DEF LifeInv
<1>2. CASE \E t \in Task : ReportBegin(t)
  BY <1>2 DEF ReportBegin, At, coroutines, cancellation, LifeInv, SyncInv, Recorded, Told
<1>3. CASE \E t \in Task : ReportSaved(t)
  <2>1. PICK t \in Task : ReportSaved(t)
    BY <1>3
  <2>2. pc[t] \notin Saving \cup Emitting /\ reporting[t] # "none"
    BY <2>1 DEF ReportSaved, OnlyMover, Prompt
  <2>3. stored[t] = status[t]
    BY <2>2 DEF LifeInv, Recorded, PC, Saving, Emitting
  <2>4. stored' = stored
    BY <2>1, <2>3 DEF ReportSaved, Prompt
  <2>5. /\ pc' = pc /\ status' = status /\ interrupt' = interrupt /\ call' = call
        /\ announced' = announced /\ posted' = posted
        /\ \A u \in Task : reporting'[u] \in {reporting[u], "none"}
    BY <2>1 DEF ReportSaved, cancellation
  <2> QED BY <2>4, <2>5 DEF LifeInv, SyncInv, Recorded, Told
<1>4. CASE \E c \in Callers : CancelAct(c)
  <2>1. PICK c \in Callers : CancelAct(c)
    BY <1>4
  <2>2. call[c] \in Task /\ stored[call[c]] \notin Terminal \cup {"absent"}
    BY <2>1 DEF CancelAct, LifeInv, SyncInv
  <2>3. \A t \in Task : pc[t] \notin Saving \cup Emitting
    BY <2>1, <2>2 DEF CancelAct, LifeInv, SyncInv
  <2>4. call[c] \in Running => pc[call[c]] \in {"ready", "acquire", "dispatch", "backoff"}
    BY <2>2, <2>3 DEF LifeInv, Recorded, Running, PC, Saving, Emitting, OutcomeInv, Finalizing
  <2>5. /\ pc' = pc /\ status' = status /\ stored' = stored /\ reporting' = reporting
        /\ announced' = announced /\ posted' = posted
        /\ call' = [call EXCEPT ![c] = NoTask]
        /\ interrupt' = [interrupt EXCEPT ![call[c]] = @ \/ call[c] \in Running]
    BY <2>1 DEF CancelAct
  <2>6. SyncInv'
    BY <2>2, <2>3, <2>4, <2>5 DEF LifeInv, SyncInv
  <2> QED BY <2>5, <2>6 DEF LifeInv, Recorded, Told
<1>5. CASE (\E c \in Caller, t \in Task : CancelRead(c, t)) \/ (\E t \in Task : ShutdownCancel(t))
  <2>1. /\ pc' = pc /\ status' = status /\ stored' = stored /\ reporting' = reporting
        /\ announced' = announced /\ posted' = posted /\ interrupt' = interrupt
        /\ \A t \in Task : pc[t] \notin Saving \cup Emitting
    BY <1>5 DEF CancelRead, ShutdownCancel, OnlyMover, Prompt, coroutines
  <2>2. \A d \in Callers : call'[d] = call[d] \/ (call'[d] \in Task /\ Cancellable(call'[d]))
    BY <1>5 DEF CancelRead, ShutdownCancel, Callers
  <2>3. SyncInv'
    BY <2>1, <2>2 DEF LifeInv, SyncInv, Cancellable
  <2> QED BY <2>1, <2>3 DEF LifeInv, Recorded, Told
<1>6. CASE BeginShutdown \/ CloseStore \/ UNCHANGED vars
  BY <1>6 DEF BeginShutdown, CloseStore, vars, coroutines, cancellation, LifeInv, SyncInv,
              Recorded, Told
<1>7. CASE ShutdownFails
  BY <1>7 DEF ShutdownFails, coroutines, cancellation, LifeInv, SyncInv, Recorded, Told
<1> QED BY <1>1, <1>2, <1>3, <1>4, <1>5, <1>6, <1>7 DEF Next, ShutdownStep

LEMMA LifeInvInit == Init => LifeInv
BY DEF Init, LifeInv, SyncInv, Recorded, Told, Saving, Emitting, Terminal

(* manager.py, _finalize, _emit and _fire_webhook: a coroutine that ended  *)
(* with a terminal row has broadcast exactly that status, once, and POSTed *)
(* at most that, whoever cancels it and at whatever await.                 *)
THEOREM OutcomeToldOnce ==
  ASSUME Prompt
  PROVE  Spec => []OutcomeAnnouncedOnce
<1>1. LifeInv => OutcomeAnnouncedOnce
  BY DEF LifeInv, Told, OutcomeAnnouncedOnce
<1>2. TypeInv /\ LifeInv /\ [Next]_vars => LifeInv'
  BY LifeInvStep
<1> QED
  BY <1>1, <1>2, LifeInvInit, TypeInvInit, TypeInvStep, PTL DEF Spec

(* models.py:22-41: the rows go through the lifecycle's transitions only,  *)
(* a terminal row is never left, and its status is told at most once.      *)
THEOREM RefinesLifecycle ==
  ASSUME Prompt
  PROVE  Spec => ImplementsLifecycle
<1>1. Init => Lifecycle!Init
  BY DEF Init, Lifecycle!Init
<1>2. TypeInv /\ LifeInv /\ [Next]_vars => [Lifecycle!Next]_<<stored, announced>>
  <2> SUFFICES ASSUME TypeInv, LifeInv, [Next]_vars, ~UNCHANGED <<stored, announced>>
               PROVE  Lifecycle!Next
    OBVIOUS
  <2>1. PICK t \in Task :
          /\ LifeStep(t)
          /\ \A u \in Task \ {t} : stored'[u] = stored[u] /\ announced'[u] = announced[u]
    BY LifeInvStep
  <2>2. /\ stored \in [Task -> Status \cup {"absent"}] /\ stored' \in [Task -> Status \cup {"absent"}]
        /\ announced \in [Task -> Seq(Terminal)] /\ announced' \in [Task -> Seq(Terminal)]
    BY TypeInvStep DEF TypeInv, TypeOK
  <2>3. stored' = [stored EXCEPT ![t] = stored'[t]] /\ announced' = [announced EXCEPT ![t] = announced'[t]]
    BY <2>1, <2>2
  <2>4. CASE announced'[t] = announced[t]
    <3>1. announced' = announced
      BY <2>3, <2>4, <2>2
    <3>2. stored'[t] # stored[t]
      BY <2>2, <2>3, <3>1
    <3> QED
      BY <2>1, <2>3, <3>1, <3>2
         DEF LifeStep, Terminal, Lifecycle!Next, Lifecycle!Queue, Lifecycle!Begin, Lifecycle!Finish,
             Lifecycle!Withdraw, Lifecycle!Move, Lifecycle!Terminal
  <2>5. CASE announced'[t] # announced[t]
    <3>1. /\ stored'[t] = stored[t] /\ stored[t] \in Terminal
          /\ announced[t] = <<>> /\ announced'[t] = <<stored[t]>>
      BY <2>1, <2>5 DEF LifeStep
    <3>2. stored' = stored
      BY <2>2, <2>3, <3>1
    <3> QED
      BY <2>3, <3>1, <3>2 DEF Terminal, Lifecycle!Next, Lifecycle!Tell, Lifecycle!Terminal
  <2> QED BY <2>4, <2>5
<1>3. TypeInv /\ LifeInv /\ [Next]_vars => LifeInv'
  BY LifeInvStep
<1> QED
  BY <1>1, <1>2, <1>3, LifeInvInit, TypeInvInit, TypeInvStep, PTL
     DEF Spec, ImplementsLifecycle, Lifecycle!Spec
==============================================================================

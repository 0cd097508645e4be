---------------------------- MODULE TaskLifecycle ----------------------------
(***************************************************************************)
(* What a client may rely on about one task, as TaskStatus and its         *)
(* transition diagram put it (agentomatic/tasks/models.py): the row it     *)
(* polls moves along                                                       *)
(*      QUEUED -> RUNNING -> SUCCEEDED | FAILED                            *)
(*      QUEUED/RUNNING -> CANCELLED                                        *)
(* and never leaves a terminal status, and the terminal status is told to  *)
(* the stream's subscribers at most once, truthfully.                      *)
(***************************************************************************)
EXTENDS Sequences

CONSTANT Task

VARIABLES
  state,   \* the status a client reads, "absent" before the first save
  told     \* terminal events the subscribers received

Terminal == {"succeeded", "failed", "cancelled"}

Init ==
  /\ state = [t \in Task |-> "absent"]
  /\ told = [t \in Task |-> <<>>]

Move(t, from, to) ==
  /\ state[t] = from
  /\ state' = [state EXCEPT ![t] = to]
  /\ UNCHANGED told

Queue(t) == Move(t, "absent", "queued")
Begin(t) == Move(t, "queued", "running")
Finish(t) == \E s \in Terminal : Move(t, "running", s)
Withdraw(t) == Move(t, "queued", "cancelled")

Tell(t) ==
  /\ state[t] \in Terminal
  /\ told[t] = <<>>
  /\ told' = [told EXCEPT ![t] = <<state[t]>>]
  /\ UNCHANGED state

Next == \E t \in Task : Queue(t) \/ Begin(t) \/ Finish(t) \/ Withdraw(t) \/ Tell(t)

Spec == Init /\ [][Next]_<<state, told>>
==============================================================================

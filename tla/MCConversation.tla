---------------------------- MODULE MCConversation ----------------------------
(* Conversation on small instances.                                         *)
EXTENDS Conversation, TLC

\* Ids of each kind are interchangeable.
Symmetry ==
  Permutations(Thread) \cup Permutations(Approval) \cup Permutations(Turn)
==============================================================================

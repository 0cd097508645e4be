---------------------------- MODULE MCTaskManager ----------------------------
(* TaskManager on small instances: the cfg files give every constant.      *)
EXTENDS TaskManager
==============================================================================

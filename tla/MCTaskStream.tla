----------------------------- MODULE MCTaskStream -----------------------------
(* TaskStream on small instances.                                          *)
EXTENDS TaskStream

SmallEvents == {1, 3}
OneSize == {1}
==============================================================================

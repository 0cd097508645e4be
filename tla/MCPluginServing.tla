---------------------------- MODULE MCPluginServing ----------------------------
EXTENDS PluginServing, TLC

CONSTANTS p1, p2, v1, v2, v3

\* Plugin p1 cannot load v2; p2 loads everything.
FirstFails == {<<p1, v2>>}

NoneFails == {}

=============================================================================

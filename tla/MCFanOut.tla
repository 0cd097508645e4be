------------------------------- MODULE MCFanOut -------------------------------
EXTENDS FanOut

CONSTANTS i1, i2, i3
=============================================================================

\* Three streams, of which two are retained; a frame of size 4 alone exceeds
\* every ceiling.
CONSTANTS
  s1 = s1
  s2 = s2
  s3 = s3
  Stream = {s1, s2, s3}
  Size = {1, 4}
  MaxFrames = 2
  MaxStreams = 2
  MaxStreamBytes = 3
  MaxTotalBytes = 3
  Produces = 3
  Returning = {s1}
SYMMETRY MCSymmetry
SPECIFICATION Spec
INVARIANTS BudgetKept ReplayIsHonest
PROPERTY NewestIsRetained
CHECK_DEADLOCK FALSE

\* Three items under two permits, retried items, a batch attempted twice, and a report of a
\* target under way beside them.
CONSTANTS
  i1 = i1
  i2 = i2
  i3 = i3
  Item = {i1, i2, i3}
  Limit = 2
  MaxAttempts = 2
  MaxRounds = 2
  SaveFails = TRUE
  TargetCounts = {2}
  MaxAside = 1
  None = None
SPECIFICATION Spec
INVARIANTS StatusIsEarned StragglersWereTold
PROPERTIES  AllEnds
CHECK_DEADLOCK FALSE

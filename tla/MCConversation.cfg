\* Three requests, three threads of which the memory store keeps two, two
\* suspended states.
CONSTANTS
  Thread = {t1, t2, t3}
  Approval = {a1, a2}
  Turn = {r1, r2, r3}
  None = None
  MaxThreads = 2
  MaxMessages = 1
  Slack = 2
  SummarizeAfter = 1
  Backends = {"memory", "sql"}
SPECIFICATION Spec
SYMMETRY Symmetry
INVARIANTS HistoryIsTurns DecidedOnce
PROPERTIES CreateEvictsOldest ShortThreadIsSeen
CHECK_DEADLOCK FALSE

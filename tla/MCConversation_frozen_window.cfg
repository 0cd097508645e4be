\* One thread with more messages than load_history reads.
CONSTANTS
  Thread = {t1}
  Approval = {a1}
  Turn = {r1, r2, r3}
  None = None
  MaxThreads = 1
  MaxMessages = 1
  Slack = 1
  SummarizeAfter = 1
  Backends = {"memory", "sql"}
SPECIFICATION Spec
PROPERTIES LatestMessagesAreSeen
CHECK_DEADLOCK FALSE

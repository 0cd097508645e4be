\* A promotion while the lifespan is still loading plugins; no requests.
CONSTANTS
  p1 = p1
  p2 = p2
  v1 = v1
  v2 = v2
  v3 = v3
  Plugin = {p1, p2}
  Version = {v1, v2}
  Broken <- NoneFails
  Writer = {w1}
  Call = {}
  Watcher = Watcher
  None = None
  Partial = Partial
SPECIFICATION Spec
INVARIANT QuietMeansCurrent
CHECK_DEADLOCK FALSE

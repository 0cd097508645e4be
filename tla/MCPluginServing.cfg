\* Two plugins, of which one cannot load v2, two registry changes, two requests.
CONSTANTS
  p1 = p1
  p2 = p2
  v1 = v1
  v2 = v2
  v3 = v3
  Plugin = {p1, p2}
  Version = {v1, v2}
  Broken <- FirstFails
  Writer = {w1, w2}
  Call = {c1, c2}
  Watcher = Watcher
  None = None
  Partial = Partial
SPECIFICATION Spec
INVARIANT PredictionsSeeOneModel
PROPERTIES WatcherRests ChangeIsApplied
CHECK_DEADLOCK FALSE

SPECIFICATION Spec
CONSTANTS
  Capture = capture
  Drain = drain
  Hooks = {h1}
  MaxJobEvents = 2
  MaxJobBytes = 2
  Threshold = 2
  Sizes = {1, 3}
  SessionStopped = stopped
  Boundaries = {stopped}
  MaxEvents = 3
  MaxBatch = 1
  MaxFailures = 1
INVARIANT EveryJobBounded

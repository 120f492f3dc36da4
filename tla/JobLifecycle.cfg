SPECIFICATION LifecycleSpec
CONSTANTS
  Workers = {w1, w2}
  Jobs = {1, 2}
  Indices = {1, 2}
  Contents = {a, b}
  a = a
  NoWorker = NoWorker
  LeaseDuration = 2
  MaxAttempts = 2
  Horizon = 3
  MaxMishaps = 1
  MaxRearms = 1
INVARIANTS
  AttemptAccounting
  DeadLetterEarned
PROPERTIES
  LiveLeaseHonoured
  CompletionSound
  FairJobsSettle

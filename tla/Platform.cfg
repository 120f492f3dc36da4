SPECIFICATION PlatformSpec
CONSTANTS
  Tasks = {t1}
  Sessions = {s1, s2}
  HandoffIds = {h1}
  Duration = 2
  RenewalInterval = 1
  NoLease = NoLease
  NoSession = NoSession
  NoEvent = NoEvent
  MaxTime = 3
  MaxInflight = 2
  MaxGeneration = 2
  Commits <- MCCommits
  Verdict <- MCVerdict
  Unasked = Unasked
  TaskIds <- MCTasks
  Callers <- MCCallers
  Files <- MCFiles
  Ignored = {"target"}
  Claimable <- MCClaimable
  Begins = {}
  MaxClaims = 2
  MaxFaults = 0
  None = None
  Nothing = Nothing
  Absent = Absent
  Missing = Missing
  Matrix <- MCMatrix
  Endings <- MCEndings
  MaxAttempts = 2
  MaxLaunches = 3
  MaxCrashes = 1
  MaxDrifts = 0
  Binaries = {b1, b2}
  MaxEdits = 2
  Scheduled <- MCScheduled
  Harnesses <- MCHarnesses
  HookEvents <- MCHookEvents
  Paths <- MCPaths
  MaxSteps = 3
  a1 = a1
  a2 = a2
  b1 = b1
  b2 = b2
SYMMETRY SessionSymmetry
INVARIANTS
  LiveBeliefHonoured
  ExclusiveWriter
  BoundedTenure
  TransferCheckpointed
  ReadyMerges
  TasksSound
  BenchmarkSound
  NoMixedBuild
  HookedOnce
PROPERTIES
  LeaseStepsSound
CHECK_DEADLOCK FALSE

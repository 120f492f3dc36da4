SPECIFICATION FoldsSpec
CONSTANTS
  None = None
  MaxEvents = 2
  MaxJobs = 1
  MaxDays = 1
  MaxFaults = 2
  Runs = {"maintain", "operator"}
  Policies <- MCPolicies
  DayLength = 2
  MonthLength = 2
  StagingAge = 2
  RunLimit = 1
  MaxPoints = 3
  MaxCaptured = 0
  MaxHours = 2
  MaxMishaps = 2
  Shells = {s1, s2}
  Evidence = {e1, e2}
  Subjects = {gated, free}
  Gated = {gated}
  MinNewEvidence = 1
  MinGap = 1
  Observation = 1
  QuietFor = 0
  MaxMemories = 3
  MaxVersions = 3
  MaxTime = 1
  MaxCommands = 2
  Derivable <- MCDerivable
  Citations <- MCCitations
  Events = {1, 3, 4}
  Claims = {2}
  Corpora <- MCCorpora
  Limits = {2}
  FusionDepth = 3
  PerSession = 2
  MaxCommits = 2
  MaxSearches = 2
  NoAnswer = NoAnswer
  s1 = s1
  s2 = s2
  e1 = e1
  e2 = e2
  gated = gated
  free = free
INVARIANTS
  FoldedIntoOne
CHECK_DEADLOCK FALSE

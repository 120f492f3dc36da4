SPECIFICATION NotesSpec
CONSTANTS
  Roots = {a, b}
  Levels = {0, 2, 4, 6, 8}
  Emergency = 1
  Critical = 3
  Warning = 5
  Recovery = 8
  RecoveryChecks = 2
  MaxRestarts = 1
  project = project
  other = other
  global = global
  good = good
  bad = bad
  None = None
  Notes <- MCNotesSet
  Global <- MCGlobal
  Rank <- MCRank
  Contents <- MCContents
  Refused <- MCRefused
  Builders = {"service", "shell"}
  MaxEdits = 2
  MaxChanges = 1
  MaxFaults = 1
INVARIANTS
  DegradedInOrder
  VaultSound
PROPERTIES
  RecoveryEarned
  EverythingResumes
  NotesSettle
  ClaimsInVault
CHECK_DEADLOCK FALSE

SPECIFICATION SourcesSpec
CONSTANTS
  Roots <- MCRoots
  Cwds <- MCCwds
  CommonDir <- MCCommonDir
  Transcripts = {t1, t2}
  Registrars = {c1, c2}
  c1 = c1
  MaxIds = 2
  MaxRestarts = 2
  service1 = service1
  record = record
  bad = bad
  torn = torn
INVARIANTS
  SourcesOwned
PROPERTIES
  SessionsCaptured
  EverythingCaptured
CHECK_DEADLOCK FALSE

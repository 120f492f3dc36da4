SPECIFICATION AgentsSpec
CONSTANTS
  Services = {p1, p2}
  Sources = {1, 2}
  Jsonl = {1}
  Contents = {rec, bad}
  Malformed = bad
  Torn = torn
  MaxRows = 1
  Width <- MCWidth
  MaxBytes = 3
  MaxIdentity = 3
  MaxCuts = 1
  MaxSchemas = 3
  MaxFailures = 1
  Clients = {c1}
  Questions = {q1}
  Trees = {t1}
  Vaults = {v1, v2}
  MaxPrompts = 2
  MaxCommands = 3
  MaxChanges = 1
  NoVault = NoVault
  NativeSessions = {a1}
  Memories <- MCMemories
  MaxPushed = 2
  SessionCap = 2
  MaxCalls = 2
  MaxHookFaults = 2
SYMMETRY ServiceSymmetry
INVARIANTS
  NoRecordSkipped
  NoTornRecord
  LossRecorded
  DriftHoldsCursor
  OneLiveSearch
  ServedCurrent
  HooksSound
PROPERTIES
  CursorMonotonic
CHECK_DEADLOCK FALSE

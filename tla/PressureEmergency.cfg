SPECIFICATION Spec
CONSTANTS
  Roots = {a, b}
  Levels = {0, 2, 4, 6, 8}
  Emergency = 1
  Critical = 3
  Warning = 5
  Recovery = 8
  RecoveryChecks = 2
  MaxRestarts = 1
PROPERTIES
  EmergencyBlocksCapture

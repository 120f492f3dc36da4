SPECIFICATION Spec
CONSTANTS
  Tasks = {t1}
  Sessions = {s1, s2}
  HandoffIds = {h1}
  Duration = 2
  RenewalInterval = 1
  NoLease = NoLease
  NoSession = NoSession
  NoEvent = NoEvent
  MaxTime = 3
  MaxInflight = 1
  MaxGeneration = 2
INVARIANT OneLiveWriter

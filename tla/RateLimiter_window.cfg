SPECIFICATION Spec
CONSTANTS
  Requests = {r1, r2, r3, r4, r5}
  Limit = 2
  Window = 3
  MaxTime = 6
SYMMETRY Interchangeable
CHECK_DEADLOCK FALSE
INVARIANTS
  TypeOK
  LimitPerWindow
  TwiceInAnyHour
  UnsetOnlyByCreator
PROPERTIES
  AtomicQuota

SPECIFICATION Spec
CONSTANTS
  Ids = {a, b}
  Hole = Hole
  Feeds = {x}
  Subscriptions = {{}}
  Unreadable = Unreadable
  Room = 2
  Keep = 1
  MaxEvents = 1
  MaxRequests = 3
SYMMETRY Interchangeable
CHECK_DEADLOCK FALSE
INVARIANTS
  EveryStrategyReceives

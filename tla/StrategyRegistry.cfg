SPECIFICATION Spec
CONSTANTS
  Ids = {a, b, c}
  Hole = Hole
  Feeds = {x, y}
  Subscriptions = {{x}, Unreadable}
  Unreadable = Unreadable
  Room = 2
  Keep = 1
  MaxEvents = 2
  MaxRequests = 5
SYMMETRY Interchangeable
CHECK_DEADLOCK FALSE
INVARIANTS
  TypeOK
  CalledOnce
  UndisturbedReachesAll
  SignalsAccounted
PROPERTIES
  NotCalledOnceRemoved

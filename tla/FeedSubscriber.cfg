SPECIFICATION Spec
CONSTANTS
  x = x
  Symbols = {x}
  NoSymbol = NoSymbol
  Frames <- MCFrames
  Keep = 1
  MaxSignals = 2
  Hwm = 1
  MaxFrames = 3
  MaxStarts = 2
CHECK_DEADLOCK FALSE
INVARIANTS
  TypeOK
  ConsumersAgree
  KeysFresh
  KeyBeforeChannel
  ListsBounded

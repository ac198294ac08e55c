SPECIFICATION FairSpec
CONSTANTS
  s1 = s1
  s2 = s2
  NoSymbol = NoSymbol
  NumChannels = 2
  Securities = {s1}
  Symbols = {s1, NoSymbol}
  Prices = {0, 1, 2}
  Depth = 1
  Contents <- MCQuoteAndTrade
  SeqMod = 16
  MaxPackets = 1
  MaxCopies = 0
  MaxStrays = 1
CHECK_DEADLOCK FALSE
INVARIANTS
  StoppedClean
PROPERTIES
  StopTerminates
  PacketsParsed

SPECIFICATION Spec
CONSTANTS
  s1 = s1
  s2 = s2
  NoSymbol = NoSymbol
  NumChannels = 1
  Securities = {s1, s2}
  Symbols = {s1, s2, NoSymbol}
  Prices = {0, 1, 2}
  Depth = 1
  Contents <- MCBookContents
  SeqMod = 16
  MaxPackets = 3
  MaxCopies = 1
  MaxStrays = 0
INVARIANTS
  TypeOK
  HandledOnceInOrder
  BookShowsLatestQuote
  TapeFollowsFeed
  SnapshotIsBook
  GapsReported
CHECK_DEADLOCK FALSE

SPECIFICATION Spec
CONSTANTS
    Symbols = {x}
    NoSymbol = NoSymbol
    Trades <- MCFewTrades
    RsiPeriod = 2
    BandPeriod = 5
    FastPeriod = 2
    SlowPeriod = 3
    Window = 2
    MaxTrades = 5
    MaxResets = 1
INVARIANTS QuietAfterReset
CHECK_DEADLOCK FALSE

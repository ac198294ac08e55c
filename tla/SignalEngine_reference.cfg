SPECIFICATION Spec
CONSTANTS
    Symbols = {x, y}
    NoSymbol = NoSymbol
    Trades <- MCTrades
    RsiPeriod = 2
    BandPeriod = 5
    FastPeriod = 2
    SlowPeriod = 3
    Window = 2
    MaxTrades = 5
    MaxResets = 1
INVARIANTS TypeOK SignalsMatchReference StudiesMatchTape ValueAreaJustEnough
CHECK_DEADLOCK FALSE

\* Every market of up to eight bars over three quotes, four requests, and the
\* three strategies with the shortest windows they accept.
SPECIFICATION BacktestSpec
\* The market ends.
CHECK_DEADLOCK FALSE
CONSTANTS
    Quotes <- SomeQuotes
    Configs <- SomeConfigs
    Whole = 20
    Cent = 10
    MaxBars = 8
    ShortWindow = 2
    LongWindow = 3
    RsiPeriod = 3
    Oversold = 30
    Overbought = 70
    BandPeriod = 3
    StdDev = 1
INVARIANTS
    RowsFitSchema
    FilledAtNextOpen
    PnlAddsUp
    SignalsAreCrossings

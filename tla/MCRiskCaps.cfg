CONSTANTS
    Trades = {t1, t2, t3, t4}
    Scheduler = scheduler
    Threads = {w1}
    MaxTrades = 2
    MaxOpen = 1
    LossCap = 1
    Outcomes = {0}
    MaxDay = 2
    MaxPnl = 0
    MaxReloads = 1
    MaxRestarts = 1
SYMMETRY Interchangeable
SPECIFICATION LedgerSpec
INVARIANTS
    LedgerTypeOK
    TradeCap
    OpenCap
PROPERTIES
    KillSwitchHolds
CHECK_DEADLOCK FALSE

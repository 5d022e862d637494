CONSTANTS
    Trades = {t1, t2}
    Scheduler = scheduler
    Threads = {}
    MaxTrades = 2
    MaxOpen = 2
    LossCap = 1
    Outcomes <- Losses
    MaxDay = 1
    MaxPnl = 0
    MaxReloads = 0
    MaxRestarts = 0
SPECIFICATION LedgerSpec
PROPERTIES
    DailyLossStops
CHECK_DEADLOCK FALSE

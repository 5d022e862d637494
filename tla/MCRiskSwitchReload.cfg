CONSTANTS
    Trades = {t1}
    Scheduler = scheduler
    Threads = {}
    MaxTrades = 1
    MaxOpen = 1
    LossCap = 1
    Outcomes <- Losses
    MaxDay = 1
    MaxPnl = 0
    MaxReloads = 1
    MaxRestarts = 0
SPECIFICATION LedgerSpec
PROPERTIES
    KillSwitchBlocks
CHECK_DEADLOCK FALSE

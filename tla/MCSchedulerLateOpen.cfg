CONSTANTS
    t1 = t1
    t2 = t2
    t3 = t3
    infy = infy
    tcs = tcs
    Trades <- MCTrades
    Own <- MCOwn
    Sym <- MCSym
    Symbols = {infy, tcs}
    MaxDay = 2
    MaxRestarts = 1
SPECIFICATION SchedulerSpec
PROPERTIES
    NoOpensAfterSquareOff

CONSTANTS
    t1 = t1
    t2 = t2
    Trades <- MCTrades
    Terms <- MCTerms
    Scheduler = scheduler
    Threads = {w1}
    Prices = {1, 2}
    MaxRestarts = 1
SPECIFICATION Spec
INVARIANTS
    ClosedOnce
CHECK_DEADLOCK FALSE

CONSTANTS
    t1 = t1
    t2 = t2
    Trades <- MCTrades
    Terms <- MCTerms
    Scheduler = scheduler
    Threads = {w1}
    Prices = {1, 2}
    MaxRestarts = 1
SPECIFICATION FairSpec
INVARIANTS
    TypeOK
    AuditMatchesRow
    ClosesBounded
    ReportedIsClosed
    AutoCloseAtBreach
    RowAfterOrders
PROPERTIES
    ImplementsLifecycle
    ForceCloseCompletes
CHECK_DEADLOCK FALSE

SPECIFICATION BatchSpec
CONSTANTS
    Grid <- Prices
    AtrMult = 1
    MinConfidence = 5
    MinAgreement = 2
    MinReward = 1
    RiskDivisor = 10
    LotSize = 2
    Bars <- Candles
    Modes = {"baseline", "walk_forward", "live_parity", "orchestrator_parity", "ensemble"}
    Optimized = {"walk_forward"}
    Soloists <- AllStrategies
    Teams = {{"supertrend", "vwap_pullback"}, {"rsi_reversal", "vwap_pullback"}}
    Count = 2
    Lengths = {1, 4}
    Warmup = 1
    TrainBars = 0
    TestBars = 2
    Memory = 2
    Cooldown = 2
    TrailMult = 1
    Capital = 640
    Slip = 2
    Brokerage = 2
    AdjustedStops = {45}
    MaxTrades = 1
    LossCap = 50
    Chunks = 2
    MaxAttempts = 2
    MaxMidnights = 1
INVARIANTS BacktestTypeOK ParityLedger WholeDataOnly
PROPERTIES LossBounded ExitsExplained BatchKeepsGoing
CHECK_DEADLOCK FALSE

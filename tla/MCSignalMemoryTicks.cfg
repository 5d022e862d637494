CONSTANTS
  nifty = nifty
  bank = bank
  rsi = rsi
  ema = ema
  t1 = t1
  Loop = Loop
  Threads = {}
  Symbols = {nifty, bank}
  Signals <- Emitted
  Window = 2
  Cooldown = 2
  MinAgree = 2
  MinConf = 2
  MaxRuns = 4
  MaxTicks = 2
SPECIFICATION MemorySpec
PROPERTY MemoryCountsTicks
CHECK_DEADLOCK FALSE

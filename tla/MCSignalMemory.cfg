CONSTANTS
  nifty = nifty
  bank = bank
  rsi = rsi
  ema = ema
  t1 = t1
  Loop = Loop
  Threads = {t1}
  Symbols = {nifty}
  Signals <- Emitted
  Window = 2
  Cooldown = 2
  MinAgree = 2
  MinConf = 2
  MaxRuns = 3
  MaxTicks = 2
SPECIFICATION MemorySpec
INVARIANTS MemoryTypeOK MergedRecent
PROPERTIES LastWordsVote Conviction CooldownKept
CHECK_DEADLOCK FALSE

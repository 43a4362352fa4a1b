SPECIFICATION Spec
CONSTANTS
  Usdt = 2000
  Books <- SomeBooks
  Lookback = 1
  PauseFor = 1
  MinThreshold = 80
  Natrs = {90, 5000}
  Regimes = {"NEUTRAL", "BULLISH"}
  MaxBookSpread = 50
  MaxBasis = 71
  VolPause = 250
  RawKept = 2
  MaxTicks = 3
  Tick = 2
  MinNotional = 10000
  MinAmount = 1
  PriceFloor = 3952
  PriceCeiling = 4020
  SkewKappa = 100
  SkewGammaNet = 10
  PingPong = FALSE
  Power = 500000
  Levels = 3
  GridNatr = 130
  VolMults = {100, 300}
  Frees = {0, 600000}
  LevelCooldown = 1
  SideCooldown = 1
  MaxEvents = 5
INVARIANTS
  TypeOK
PROPERTIES
  PassiveQuotes
  ExposureBounded
  
  

CONSTANTS
  LowRatio = 20
  InitRatio = 25
  HighRatio = 30
  MaxOrder = 20000
  MaxOrderDev = 2000
  Openings <- Sound
  Prices = {10}
  OpeningPrice = 10
  TransferFee = 100
  Samples = {15000, 25000}
  MaxPriceMoves = 0
  MaxCutOffs = 1
  MaxDelays = 0
  MaxMisreads = 0
SPECIFICATION FairSpec
PROPERTIES NearlyHedgedAtRest LittleIsIdleAtRest MovesAreCovered Settles

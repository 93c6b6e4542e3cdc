CONSTANTS
  LowRatio = 20
  InitRatio = 25
  HighRatio = 30
  MaxOrder = 0
  MaxOrderDev = 0
  Openings <- Balanced
  Prices = {9, 10, 11, 12}
  OpeningPrice = 10
  TransferFee = 100
  Samples = {0}
  MaxPriceMoves = 2
  MaxCutOffs = 1
  MaxDelays = 1
  MaxMisreads = 1
SPECIFICATION FairSpec
INVARIANTS TypeOK NoPanic NoThrowBack
PROPERTIES MovesAreCovered PanicsAreAboutKraken Recovers

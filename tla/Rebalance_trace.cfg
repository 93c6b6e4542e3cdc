CONSTANTS
  LowRatio = 20
  InitRatio = 25
  HighRatio = 30
  MaxOrder = 0
  MaxOrderDev = 0
  Openings <- WithTrace
  Prices = {10}
  OpeningPrice = 10
  TransferFee = 100
  Samples = {0}
  MaxPriceMoves = 0
  MaxCutOffs = 0
  MaxDelays = 0
  MaxMisreads = 0
SPECIFICATION Spec
PROPERTY HedgedAtRest

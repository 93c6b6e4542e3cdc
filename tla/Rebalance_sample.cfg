CONSTANTS
  LowRatio = 20
  InitRatio = 25
  HighRatio = 30
  MaxOrder = 20000
  MaxOrderDev = 9000
  Openings <- BarelyHedged
  Prices = {10}
  OpeningPrice = 10
  TransferFee = 100
  Samples <- LowSamples
  MaxPriceMoves = 0
  MaxCutOffs = 0
  MaxDelays = 0
  MaxMisreads = 0
SPECIFICATION Spec
INVARIANT OrdersArePositive

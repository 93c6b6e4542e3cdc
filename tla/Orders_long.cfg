CONSTANTS
  LowRatio = 20
  InitRatio = 25
  HighRatio = 30
  MaxOrder = 0
  MaxOrderDev = 0
  Samples = {0}
  OpeningPrice = 10
  Openings <- Overhedged
  Prices = {10}
  Wishes = {3000}
  MaxOpen = 3
  MaxPriceMoves = 0
  MaxWishes = 0
  MaxFaults = 1
SPECIFICATION Spec
INVARIANT NeverLong

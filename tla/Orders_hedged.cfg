CONSTANTS
  LowRatio = 20
  InitRatio = 25
  HighRatio = 30
  MaxOrder = 0
  MaxOrderDev = 0
  Samples = {0}
  OpeningPrice = 10
  Openings <- Varied
  Prices = {9, 10, 11}
  Wishes = {1190, 3000}
  MaxOpen = 4
  MaxPriceMoves = 1
  MaxWishes = 1
  MaxFaults = 1
SPECIFICATION FairSpec
INVARIANTS TypeOK OneOrderPerCall LargeEnough FilledBeforeReturn WithinAmount HedgedFirst EvenReduction
PROPERTIES OrdersComeRound HedgeHeals

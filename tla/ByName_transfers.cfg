CONSTANTS
  Amounts = {5, 900, 2050}
  Fees = {0, 50, 400}
  Shift = 300
  Opening <- OpeningValue
  MaxLaunches = 2
  MaxOutside = 1
SPECIFICATION DeadlineSpec
INVARIANTS TypeOK OkMeansCredited NoLostArrival
PROPERTIES CountersOnlyGrow ExpenseIsTheFee KeepsCustody AsksForAll LoopComesRound

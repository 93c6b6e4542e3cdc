CONSTANTS
  Amounts = {900, 2050}
  Fees = {0, 50, 400}
  Shift = 300
  Opening <- OpeningValue
  MaxLaunches = 2
  MaxOutside = 1
SPECIFICATION ByNameSpec
PROPERTY DoesItsWork

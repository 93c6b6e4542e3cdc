CONSTANTS
  Amounts = {900, 2050}
  Fees = {0, 50}
  Shift = 300
  Opening <- OpeningValue
  MaxLaunches = 2
  MaxOutside = 1
SPECIFICATION PatientSpec
PROPERTIES PatientReturn

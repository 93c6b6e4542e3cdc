CONSTANTS
  Need = 10
  Openings = {13, 24}
  MaxPending = 2
  MaxFaults = 2
  MaxKills = 1
SPECIFICATION ScriptSpec
INVARIANTS TypeOK BinanceIsNext OkMeansPaid 
PROPERTIES KeepsPayments CallEnds NeedsMet

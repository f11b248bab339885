SPECIFICATION Spec
CONSTANTS
  Indices <- MCIndices
  Stocks <- MCStocks
  Expiries <- MCExpiries
  MinDays = 1
  Publications <- MCPublications
  MaxDay = 2
  MaxFaults = 1
  None = None
CHECK_DEADLOCK FALSE
INVARIANT LiveContracts
INVARIANT DailyIsLast
PROPERTY DayIsComplete

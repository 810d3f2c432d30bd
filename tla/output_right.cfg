SPECIFICATION Spec
CONSTANTS
  NameLen <- MCNameLen
  West <- MCWest
  Inputs <- MCInputs
  HeadLen = 2
  MaxFaults = 1
INVARIANTS
  StatisticsCountTheRows
  CsvIsWhole
  TableFits
  ShownWasSent
CHECK_DEADLOCK FALSE

SPECIFICATION HistorySpec
CONSTANTS
  Nothing = Nothing
  MaxEntries = 4
  MaxFailures = 2
INVARIANTS ImportIsExact NothingLeftOpen
CHECK_DEADLOCK FALSE

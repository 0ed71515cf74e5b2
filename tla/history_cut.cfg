SPECIFICATION HistorySpec
CONSTANTS
  Nothing = Nothing
  MaxEntries = 4
  MaxFailures = 1
INVARIANTS InterruptedImportIsRetried
CHECK_DEADLOCK FALSE

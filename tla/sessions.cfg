SPECIFICATION DirectorySpec
CONSTANTS
  Session = {s1, s2, s3}
  NoSession = NoSession
  Capacity = 2
  MaxCommands = 4
  MaxRestarts = 1
SYMMETRY Interchangeable
INVARIANTS PhoneKnowsDirectory
PROPERTIES NoStaleRevival
CHECK_DEADLOCK FALSE

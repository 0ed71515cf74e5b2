SPECIFICATION Spec
CONSTANTS
  small = small
  large = large
  Upload = {u1, u2}
  Content = {small, large}
  Size <- Sizes
  Request = {q1, q2}
  Prompt = {p1}
  None = None
  MaxImage = 3
  ChunkMax = 2
  Quota = 3
  PerMinute = 2
  UploadTtl = 1
  RetainTtl = 2
  ExportTtl = 1
  MaxExports = 1
  MaxMade = 2
  MaxClock = 2
  MaxCrashes = 1
SYMMETRY Interchangeable
INVARIANTS CompleteHasBytes AcceptedPromptKeepsImage QuotaOvershootBounded
CHECK_DEADLOCK FALSE
PROPERTIES ExportStaysServed

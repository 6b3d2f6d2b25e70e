SPECIFICATION Spec
CONSTANTS
  Batches <- Fifty
  MaxVersion = 1
  MaxEntries = 50
  MaxSockets = 1
  ShortReads = {}
INVARIANT VersionNotAhead

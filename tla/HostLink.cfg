SPECIFICATION FairSpec
CONSTANTS
  Batches <- Singles
  MaxVersion = 2
  MaxEntries = 2
  MaxSockets = 2
  ShortReads <- Anywhere
INVARIANTS
  LostCardsKnown
  VersionNotAhead
PROPERTY ListArrives

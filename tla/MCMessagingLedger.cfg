SPECIFICATION LedgerSpec
CHECK_DEADLOCK FALSE
CONSTANTS
  ra = ra
  rb = rb
  s1 = s1
  s2 = s2
  x1 = x1
  Runs <- MCRuns
  SourceIds <- MCSourceIds
  ExternalIds <- MCExternalIds
  LeaseDuration = 1
  Retention = 1
  MaxMessages = 3
  PurgeBatch = 2
  MaxFence = 2
  MaxGeneration = 2
  MaxTime = 2
SYMMETRY MCSymmetry
INVARIANTS LedgerInvariant
PROPERTIES ChangeIsAnnounced CancellationHonoured JournalSpec

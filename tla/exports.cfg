SPECIFICATION FairSpec
CONSTANTS
  Exports = {selection}
  NoExport = NoExport
  Workers = {w1, w2}
  Publishers = {p1}
  Requesters = {r1, r2}
  MaxRequests = 3
  MaxRetries = 1
  Faults <- AllFaults
  FaultBudget = 3
INVARIANTS TypeOK ReadyHasArtifact NoExportStranded
PROPERTIES OnlyHolderEndsLease EndedUntilRequested EveryExportEnds
CHECK_DEADLOCK FALSE

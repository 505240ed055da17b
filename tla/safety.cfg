SPECIFICATION Spec
CONSTANTS
  video = video
  dataset = dataset
  NoJob = NoJob
  Jobs <- OneOfEach
  MaxJobs = 1
  Datasets <- OneDataset
  Workers = {w1, w2}
  Publishers = {p1}
  MaxRetries = 1
  PollLimit = 1
  MaxAttempts = 6
  Faults <- AllFaults
  FaultBudget = 3
INVARIANTS TypeOK PublishedResultComplete RetriesAreAttempts
PROPERTIES OnlyOwnerEndsLiveRun TerminalRowFrozen ImplementsLifecycle
SYMMETRY WorkerSymmetry
CHECK_DEADLOCK FALSE

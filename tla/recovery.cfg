SPECIFICATION FairSpec
CONSTANTS
  video = video
  dataset = dataset
  NoJob = NoJob
  Jobs <- OneOfEach
  MaxJobs = 1
  Datasets <- OneDataset
  Workers = {w1, w2}
  Publishers = {p1}
  MaxRetries = 2
  PollLimit = 1
  MaxAttempts = 7
  Faults <- ToleratedFaults
  FaultBudget = 3
INVARIANTS NoJobStranded
PROPERTIES EveryJobEnds
CHECK_DEADLOCK FALSE

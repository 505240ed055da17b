SPECIFICATION Spec
CONSTANTS
  video = video
  dataset = dataset
  NoJob = NoJob
  Jobs <- OneOfEach
  MaxJobs = 1
  Datasets <- OneDataset
  Workers = {w1, w2}
  Publishers = {p1}
  MaxRetries = 2
  PollLimit = 1
  MaxAttempts = 7
  Faults = {"worker_lost"}
  FaultBudget = 1
INVARIANT NoJobStranded
CHECK_DEADLOCK FALSE

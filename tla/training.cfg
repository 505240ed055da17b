SPECIFICATION FairSpec
CONSTANTS
  Runs = {r1, r2}
  NoRun = NoRun
  Workers = {w1, w2}
  Publishers = {p1}
  Requesters = {q1, q2}
  MaxStarts = 3
  MaxRetries = 1
  Faults <- AllFaults
  FaultBudget = 2
INVARIANTS TypeOK OneTrainer AttemptKeepsRun TrainerKeepsWorkspace LetGoIsFinalized ModelIsServed NoRunStranded
PROPERTIES NewerModels EveryRunEnds
CHECK_DEADLOCK FALSE

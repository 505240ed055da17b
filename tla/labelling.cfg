SPECIFICATION FairSpec
CONSTANTS
  Sources = {1, 2}
  FirstImages = {1}
  c1 = c1
  c2 = c2
  Classes = {c1}
  ModelClasses = {c1}
  FirstYolo <- First
  MaxBoxes = 2
  MaxEdits = 2
  MaxRuns = 1
  Workers = {w1, w2}
  MaxRetries = 1
  Faults <- AllFaults
  FaultBudget = 2
INVARIANTS TypeOK OneWriterPerImage NoLabellingStranded
PROPERTIES EndedRunsRest EveryLabellingEnds
CHECK_DEADLOCK FALSE

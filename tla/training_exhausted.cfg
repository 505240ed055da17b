SPECIFICATION Spec
CONSTANTS
  Runs = {r1}
  NoRun = NoRun
  Workers = {w1}
  Publishers = {p1}
  Requesters = {q1}
  MaxStarts = 1
  MaxRetries = 1
  Faults = {"transient"}
  FaultBudget = 2
INVARIANTS ExhaustedRunFails
CHECK_DEADLOCK FALSE

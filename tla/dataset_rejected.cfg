SPECIFICATION Spec
CONSTANTS
  Looks = {1, 2, 3}
  Similar <- Slowly
  Scores = {2, 5}
  Step = 4
  Window = 10
  MaxGap = 20
  ShortlistSize = 2
  MaxCandidates = 10
  c1 = c1
  c2 = c2
  unfit = unfit
  spoilt = spoilt
  Normal = {n1, n2, n3, n4}
  Challenging <- BestFirst
  Unusable = {unfit}
  Undecodable = {spoilt}
  MaxImages = 6
  Side = 8
  Unit = 2
  MinBox = 4
  Sizes <- SomeSizes
  MaxFrames = 2
  MaxSaves = 3
SYMMETRY Symmetric
INVARIANT DatasetIsReadable
CHECK_DEADLOCK FALSE

SPECIFICATION Spec
CONSTANTS
  Submissions = {s1, s2, s3}
  UrlKeys = {url}
  UploadKeys = {upload}
  DatasetKeys = {dataset}
  Payloads <- TwinsAndOther
  DatasetSize = 2
  None = None
  Faults <- AllFaults
  FaultBudget = 2
SYMMETRY SubmissionSymmetry
INVARIANTS TypeOK AnswersAgree SourceComplete LeftoversBounded
CHECK_DEADLOCK FALSE

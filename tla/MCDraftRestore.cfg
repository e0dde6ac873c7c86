SPECIFICATION ControlSpec
CONSTANTS
  Requests = {r1}
  LehtSize = 2
  LlrBits = 2
  MaxDraft = 2
  EnableTVC = TRUE
  EntropyBuckets <- MCOneBucket
PROPERTIES
  RejectionRestores

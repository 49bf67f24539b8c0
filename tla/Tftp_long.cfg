SPECIFICATION FairSpec
CONSTANTS
  SeqSize = 4
  BlockSize = 2
  MemBlocks = 16
  TIMEOUT_COUNT = 2
  WELL_KNOWN_PORT = port69
  FileBlocks = 9
  LastLen = 0
  Ports = {c1, c2}
  Tids = {s1, s2, s3, s4}
  CanDuplicate = FALSE
  CanError = TRUE
  Patient = TRUE
  MaxLoss = 2
  LosesWrapAck = FALSE
INVARIANTS
  CompleteOnSuccess
  RightPlace
PROPERTIES
  Downloads

SPECIFICATION Spec
CONSTANTS
  SeqSize = 4
  BlockSize = 2
  MemBlocks = 16
  TIMEOUT_COUNT = 1
  WELL_KNOWN_PORT = port69
  FileBlocks = 6
  LastLen = 1
  Ports = {c1}
  Tids = {s1, s2}
  CanDuplicate = FALSE
  CanError = FALSE
  Patient = TRUE
  MaxLoss = 1
  LosesWrapAck = TRUE
INVARIANTS
  RightPlace

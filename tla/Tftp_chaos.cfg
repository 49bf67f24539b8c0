SPECIFICATION Spec
CONSTANTS
  SeqSize = 8
  BlockSize = 2
  MemBlocks = 8
  TIMEOUT_COUNT = 1
  WELL_KNOWN_PORT = port69
  FileBlocks = 3
  LastLen = 1
  Ports = {c1, c2}
  Tids = {s1, s2}
  CanDuplicate = TRUE
  CanError = TRUE
  Patient = FALSE
  MaxLoss = 0
  LosesWrapAck = TRUE
INVARIANTS
  TypeOK
  CompleteOnSuccess
  TransferInv
PROPERTIES
  OneServer
SYMMETRY Symmetry

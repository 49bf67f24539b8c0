SPECIFICATION FairSpec
CONSTANTS
  MAX_RETRIES = 8
  MAX_RETRIES_WITH_CRC = 2
  SeqSize = 3
  BLOCK = 3
  BUFFER = 6
  FileLen = 10
  Eofs = {3, 5, 6}
  PadMin = 2
  Announced = {TRUE, FALSE}
  CanCancel = TRUE
  MaxNoise = 2
  MaxCross = 1
INVARIANTS TypeOK InSequence
PROPERTIES Loads Returns
CHECK_DEADLOCK FALSE

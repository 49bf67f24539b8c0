SPECIFICATION Spec
CONSTANTS
  MAX_RETRIES = 8
  MAX_RETRIES_WITH_CRC = 2
  SeqSize = 3
  BLOCK = 3
  BUFFER = 6
  FileLen = 10
  Eofs = {3, 5, 6}
  PadMin = 2
  Announced = {TRUE, FALSE}
  CanCancel = TRUE
  MaxNoise = 0
  MaxCross = 0
INVARIANT NoOverrun
CHECK_DEADLOCK FALSE

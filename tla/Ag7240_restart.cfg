SPECIFICATION RestartSpec
CONSTANTS
  NO_OF_RX_FIFOS = 3
  Macs = {eth0}
  MaxFrames = 4
INVARIANTS
  InOrder

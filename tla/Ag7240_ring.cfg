SPECIFICATION FairSpec
CONSTANTS
  NO_OF_RX_FIFOS = 3
  Macs = {eth0, eth1}
  MaxFrames = 7
INVARIANTS
  TypeOK
  InOrder
PROPERTIES
  ImplementsQueue
  Resumes
  Received

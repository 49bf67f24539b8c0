SPECIFICATION FairSpec
CONSTANTS
  PAGE = 4
  SECTOR = 8
  Sectors = 4
  FwStart = 8
  MaxRecovery = 16
  KernelLen = 3
  CalSector = 3
  Keys <- MCKeys
  Chars = {"a", "b"}
  BootDelays <- MCBootDelays
  UsbBoot = {"unset", "force", "never"}
  Sticks <- MCSticks
  MaxLosses = 2
  MaxCmds = 1
  CmdAddrs = {8, 9, 16}
  CmdLens = {3, 8}
INVARIANTS TypeOK DoneAsAsked Spared StopHeard
PROPERTY Recovers
CHECK_DEADLOCK FALSE

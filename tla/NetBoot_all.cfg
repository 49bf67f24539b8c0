SPECIFICATION FairSpec
CONSTANTS
  MaxFaults = 1
  Servers = {"s1", "s2"}
  Owner <- MCOwner
  BootpAddr = "b"
  TIMEOUT_COUNT = 2
  MaxID = 4
  Retries = {"unset", "no", "once"}
  FileLen <- MCFileLen
  LinkTo <- MCLinkTo
  Dirs <- MCDirs
  Goal <- MCGoal
  OtherNames <- MCOthers
  NFS_READ_SIZE = 2
  MaxName = 2
  MaxCommands = 2
  BootFiles <- MCBootFiles
INVARIANTS TypeOK BoundToLease NfsComplete
PROPERTIES Ends Binds
CHECK_DEADLOCK FALSE

SPECIFICATION FairSpec
CONSTANTS
  NDev = 2
  ARP_TIMEOUT = 2
  ARP_TIMEOUT_COUNT = 2
  TIMEOUT = 5
  TIMEOUT_COUNT = 1
  PING_TIMEOUT = 10
  RESTART_DELAY = 10
  Protocols = {"TFTP", "PING"}
  Retries = {"unset", "no", "once"}
  LinksMove = TRUE
  MaxRx = 3
  MaxCommands = 2
INVARIANTS
  TypeOK
  SilentNet
  OneAttempt
  AttemptsBounded
PROPERTIES
  Returns

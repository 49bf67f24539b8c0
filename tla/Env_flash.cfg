SPECIFICATION Spec
CONSTANTS
  ethaddr = ethaddr
  loadaddr = loadaddr
  bootfile = bootfile
  stdout = stdout
  short = short
  long = long
  Names <- MCNames
  Values = {short, long}
  DefaultEnv <- MCDefault
  Size <- MCSize
  ENV_SIZE = 5
  WriteOnce = {ethaddr}
  Console = {stdout}
  Drivers = {short}
  Copied = {ethaddr, loadaddr, bootfile}
  Macs = {ethaddr}
  Factory = Factory
  NotSet = NotSet
  Torn = Torn
INVARIANTS
  TypeOK
  SavedSurvives
  CopiesFresh
  NoOverrun
PROPERTIES
  ImplementsStore

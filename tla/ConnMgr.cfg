SPECIFICATION FairSpec
CONSTANTS
  s1 = s1
  s2 = s2
  NoFd = NoFd
  Sensors <- TwoSensors
  Fds <- FourToSix
  Server = 5
  Timeout = 1
  MaxReadings <- TwoAndNone
  MaxTime = 3
INVARIANTS
  IInv
  DownAfterSilence
PROPERTIES
  ClosedWereSilent
  SentIsReceived
CHECK_DEADLOCK FALSE

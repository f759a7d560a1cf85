SPECIFICATION FairSpec
CONSTANTS
  NoReading = NoReading
  Sensors <- TwoSensors
  MapFiles <- TwoFiles
  Timestamps <- ThreeAndOne
  MaxOldRows = 1
  MaxNoMemory = 1
  RunAvgLength = 2
  BufferShared = TRUE
PROPERTY GivingUpFinishesGateway
CHECK_DEADLOCK FALSE

SPECIFICATION Spec
CONSTANTS
  NoReading = NoReading
  Sensors <- TwoSensors
  MapFiles <- TwoFiles
  Timestamps <- ThreeAndOne
  MaxOldRows = 1
  MaxNoMemory = 1
  RunAvgLength = 2
  BufferShared = FALSE
INVARIANT ReceivedAreShared
CHECK_DEADLOCK FALSE

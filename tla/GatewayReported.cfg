SPECIFICATION Spec
CONSTANTS
  NoReading = NoReading
  Sensors <- TwoSensors
  MapFiles <- TwoFiles
  Timestamps <- ThreeAndOne
  MaxOldRows = 1
  MaxNoMemory = 1
  RunAvgLength = 2
  BufferShared = TRUE
INVARIANT ReportedAreMissing
CHECK_DEADLOCK FALSE

SPECIFICATION FairSpec
CONSTANTS
  w1 = w1
  w2 = w2
  w3 = w3
  NULL = NULL
  Garbage = Garbage
  Writers <- ThreeWriters
  MaxEvents = 2
INVARIANTS
  IInv
  EventsLostFromTheFront
  MessagesInLines
  FirstMessageIsSafe
PROPERTIES
  ReadIsLogged
  WritersReturn
CHECK_DEADLOCK FALSE

SPECIFICATION Spec
CONSTANTS
  k1 = k1
  k2 = k2
  k3 = k3
  b1 = b1
  b2 = b2
  NULL = NULL
  Socks <- ThreeSocks
  Blocks <- TwoBlocks
  Fds <- ThreeToFive
  Ports <- BoundaryPorts
  Ephemeral = 40000
  Backlog = 1
SYMMETRY Addresses
INVARIANTS
  TypeOK
  SocketsOwnDescriptors
  MemoryOwned
  LiveConnectionsAreHeld
  ClosedMeansGone
  BoundToItsPort

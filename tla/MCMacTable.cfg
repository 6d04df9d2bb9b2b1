CONSTANTS
  w1 = w1
  w2 = w2
  A = A
  B = B
  Worker <- TwoWorkers
  Crew <- OneOrTwo
  Key <- Addr
  Port <- Ports
  NoPort = NoPort
  TTL = 1
  MaxTime <- Times
  MaxCalls <- Calls
SPECIFICATION Spec
INVARIANTS TypeOK WalksEnd AnswersAreGiven SizeBoundsChain
PROPERTY ImplementsAddressTable
CHECK_DEADLOCK FALSE

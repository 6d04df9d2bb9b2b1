CONSTANTS
  w1 = w1
  w2 = w2
  A = A
  B = B
  Worker <- TwoWorkers
  Crew <- Only
  Key <- Addr
  Port <- Ports
  NoPort = NoPort
  TTL = 1
  MaxTime <- Times
  MaxCalls <- Calls
SPECIFICATION Spec
PROPERTY InsertResolves
CHECK_DEADLOCK FALSE

CONSTANTS
  f1 = f1
  f2 = f2
  w1 = w1
  w2 = w2
  A = A
  B = B
  Bcast = Bcast
  RuntFrame = RuntFrame
  Fd <- Sockets
  NoFd = NoFd
  Large <- HighSockets
  Ctl = Ctl
  Worker <- Threads
  FirstWorker = w1
  Header <- Frames
  Runt = RuntFrame
  Datagram <- Flows
  Garbage <- Heap
  Mac <- Stations
  Steer <- Steering
  RingCapacity = 1
  PipeCapacity = 1
  MaxArrivals = 2
SPECIFICATION Spec
INVARIANT FloodSparesOrigin
CHECK_DEADLOCK FALSE

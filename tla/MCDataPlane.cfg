CONSTANTS
  f1 = f1
  f2 = f2
  w1 = w1
  w2 = w2
  A = A
  B = B
  Bcast = Bcast
  RuntFrame = RuntFrame
  Fd <- Sockets
  NoFd = NoFd
  Large <- HighSockets
  Ctl = Ctl
  Worker <- Threads
  FirstWorker = w1
  Header <- Frames
  Runt = RuntFrame
  Datagram <- Sent
  Garbage <- Heap
  Mac <- Stations
  Steer <- Steering
  RingCapacity = 2
  PipeCapacity = 1
  MaxArrivals = 2
SPECIFICATION FairSpec
INVARIANTS DataPlaneInv NoLostWakeup CtlFramed WokenForKnownPort
PROPERTIES FlowOrder RingsDrain
CHECK_DEADLOCK FALSE

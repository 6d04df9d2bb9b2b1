CONSTANTS
  me = me
  other = other
  Me <- me
  Other <- other
  PathName <- Names
  Tree <- Trees
  Cwd <- AtB
  MAXSYMLINKS = 3
  PATH_MAX = 5
  Worker <- TwoWorkers
  InitialSize = 1
  Fd <- Sockets
  NoEp = NoEp
  Junk = Junk
  NoFile = NoFile
  Stale = Stale
  Numports <- NumportsSet
  Threads <- ThreadsSet
  MAX_THREADS = 2
  MaxStarts = 2
  MaxFrames = 2
SPECIFICATION FairSpec
INVARIANTS TypeOK ResolvesAsTheSystem ClaimsHold PoolBeforeFrames AccessInBounds LookupFinds
PROPERTY BootEnds
CHECK_DEADLOCK FALSE

CONSTANTS
  p1 = p1
  p2 = p2
  p3 = p3
  NoItem = NoItem
  Item <- Pointers
  RING_BUFFER_SIZE = 4
SPECIFICATION FairSpec
INVARIANTS TypeOK NoSlotRace RingInv
PROPERTIES ImplementsQueue PushedIsPopped PushGetsIn

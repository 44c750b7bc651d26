SPECIFICATION Spec
CONSTANTS
  Body = 2
  Big = 7
  Sizes = {1, 2, 4, 5, 7}
  QueueSize = 2
  MaxPkts = 3
  MaxLost = 2
  MaxRepeats = 2
  MaxResets = 2
INVARIANTS TypeOK WholePackets UndamagedIsDelivered FewestFragments AlwaysRoom
CHECK_DEADLOCK FALSE

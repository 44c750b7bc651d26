SPECIFICATION FairSpec
CONSTANTS
  PoolSize = 8
  Reserve = 1
  RxCap = 1
  QSize = 2
  Sizes = {1, 2}
  DelayedSizes = {1}
INVARIANTS TypeOK PoolAccounts HalvesAreIndependent WaitedFor
PROPERTY WaitersServed

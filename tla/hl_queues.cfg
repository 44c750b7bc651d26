SPECIFICATION FairSpec
CHECK_DEADLOCK FALSE  \* the number of requests is bounded
CONSTANTS
  POOL_SIZE = 3
  TSN_RESERVED = 3
  MaxReq = 6
  MaxLost = 1
INVARIANTS
  TypeOK
  NeverBusy
  BuffersAccounted
  NoIdleWait
  OneOutstanding
  BlockingInOrder
PROPERTY AllServed

SPECIFICATION Spec
CHECK_DEADLOCK FALSE  \* the users have a bounded number of packets
CONSTANTS
  Host = Host
  Soc = Soc
  TX_FIFO_SIZE = 2
  WAIT_ACK_RETRY = 2
  TX_ATTEMPTS = 1
  MaxPkts <- MCOneWay
  Faults = {"LOSS", "SHORT_READ", "BAD_CRC"}
  MaxFaults = 3
  MaxEarly = 1
INVARIANTS
  TypeOK
  AckedUnlessWrapped
  NothingTwice

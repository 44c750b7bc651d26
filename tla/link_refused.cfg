\* The transport refuses or fails one transmission.
SPECIFICATION FairSpec
CHECK_DEADLOCK FALSE  \* the users have a bounded number of packets
CONSTANTS
  Host = Host
  Soc = Soc
  TX_FIFO_SIZE = 2
  WAIT_ACK_RETRY = 3
  TX_ATTEMPTS = 1
  MaxPkts <- MCTwo
  Faults = {"BUSY", "ERROR"}
  MaxFaults = 1
  MaxEarly = 0
PROPERTY FailedSendIsRecovered

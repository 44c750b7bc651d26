\* A fault and an early time-out, so that a packet may be given up.
SPECIFICATION FairSpec
CHECK_DEADLOCK FALSE  \* the users have a bounded number of packets
CONSTANTS
  Host = Host
  Soc = Soc
  TX_FIFO_SIZE = 2
  WAIT_ACK_RETRY = 2
  TX_ATTEMPTS = 1
  MaxPkts <- MCBothWays
  Faults = {"LOSS", "BAD_LEN", "NO_PLACE"}
  MaxFaults = 1
  MaxEarly = 1
INVARIANTS
  OnlyHeadIsSent
  AlarmIsForHead
  SentHasAlarm
  NoLostWakeup
PROPERTIES
  ImplementsTransfer
  AllDelivered

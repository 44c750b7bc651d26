\* The Reset Request is lost, or its answer takes longer than MAX_STARTUP_TIME, or
\* the port cannot be opened for so long that the timer goes off three times.
SPECIFICATION FairSpec
CHECK_DEADLOCK FALSE  \* an assertion stops the host
CONSTANTS
  POOL_SIZE = 4
  TSN_RESERVED = 2
  STEPS = 5
  SKIPPED = {2}
  STRICT = {4}
  MaxLost = 1
  MaxLate = 1
  MaxExtra = 0
  MaxErrors = 1
  MaxAway = 3
PROPERTY RecallCompletes

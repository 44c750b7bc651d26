\* A start-up with one step left out and one strict step, and prompt time-outs.
SPECIFICATION FairSpec
CHECK_DEADLOCK FALSE  \* the start-up ends
CONSTANTS
  POOL_SIZE = 4
  TSN_RESERVED = 2
  STEPS = 5
  SKIPPED = {2}
  STRICT = {4}
  MaxLost = 1
  MaxLate = 0
  MaxExtra = 2
  MaxErrors = 1
  MaxAway = 2
INVARIANTS
  TypeOK
  SingleChain
  AssertsHold
  AnswerMatches
  NoStepSkipped
PROPERTY Completes

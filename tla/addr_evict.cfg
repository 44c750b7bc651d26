\* A long address alone replaces an expired entry that had a short one.
SPECIFICATION Spec
CHECK_DEADLOCK FALSE  \* an assertion may stop the program
SYMMETRY Perms
CONSTRAINT Untangled
CONSTANTS
  Size = 3
  Ieee = {a1, a2}
  MaxShort = 2
  Unknown = Unknown
  EvictsByIeee = TRUE
  MaxLock = 3
INVARIANT FoundByShort

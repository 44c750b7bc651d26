\* One behaviour that breaks all that is said of redirections.
SPECIFICATION Spec
CHECK_DEADLOCK FALSE  \* an assertion may stop the program
SYMMETRY Perms
CONSTANTS
  Size = 3
  Ieee = {a1, a2}
  MaxShort = 2
  Unknown = Unknown
  EvictsByIeee = FALSE
  MaxLock = 3
INVARIANT RedirectionsKept

\* Two devices, three entries; three short addresses, or three locks over two of them.
SPECIFICATION Spec
CHECK_DEADLOCK FALSE  \* an assertion may stop the program
SYMMETRY Perms
CONSTRAINT Bounded
CONSTANTS
  Size = 3
  Ieee = {a1, a2}
  MaxShort = 2
  Unknown = Unknown
  EvictsByIeee = FALSE
  MaxLock = 3
INVARIANTS
  TypeOK
  SortedIndex
  FoundByShort
  LocksAddUp
  RedirectsOnce
  UniqueIeee
  UnlockFindsLock
PROPERTY HeldKeepsPair

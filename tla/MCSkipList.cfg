SPECIFICATION Spec
CONSTANTS
  Threads = {t1, t2}
  Keys = {1, 2, 3}
  Nil = 4
  MaxHeight = 3
  Typed = {1, 3}
SYMMETRY Perms
INVARIANTS
  LevelsSorted
  NoFreedAccess
PROPERTY Refines
CHECK_DEADLOCK FALSE

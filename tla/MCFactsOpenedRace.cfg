SPECIFICATION Spec
CONSTANTS
  Threads = {t1, t2}
  Slots = {s1}
  Cells = {c1, c2}
  Objects = {o1, o2}
  Paths = {p1}
  Facts = {f1}
  Null = Null
SYMMETRY Perms
INVARIANTS
  OpenKeepsAcknowledged
CHECK_DEADLOCK FALSE

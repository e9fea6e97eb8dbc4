SPECIFICATION Spec
CONSTANTS
  Threads = {t1, t2}
  Slots = {s1, s2}
  Cells = {c1, c2}
  Objects = {o1, o2}
  Paths = {p1, p2}
  Facts = {f1}
  Null = Null
SYMMETRY Perms
INVARIANTS
  RefsCounted
  PointersLive
  NothingLeaks
  OneWriter
CHECK_DEADLOCK FALSE

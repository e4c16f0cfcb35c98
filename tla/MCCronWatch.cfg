CONSTANTS
  Watchers = {w1, w2}
  Servers = {s1, s2}
  Commands = {c1}
  w1 = w1
  w2 = w2
  s1 = s1
  s2 = s2
  c1 = c1
  None = None
  MaxCrashes = 1
SPECIFICATION MCSpec
CHECK_DEADLOCK FALSE
INVARIANTS TypeOK LockExclusive NoDuplicate RecordKept
PROPERTY Recovery

CONSTANTS
  Watchers = {w1}
  Servers = {s1, s2}
  Commands = {}
  w1 = w1
  w2 = w2
  s1 = s1
  s2 = s2
  c1 = c1
  None = None
  MaxCrashes = 1
SPECIFICATION Spec
CHECK_DEADLOCK FALSE
PROPERTY DocumentedCron

\* A crash in the middle of do_work leaves the tree of its worker occupied.
SPECIFICATION Spec
CONSTANTS
  s1 = s1  s2 = s2
  w1 = w1  w2 = w2
  r1 = r1  r2 = r2
  Series = {s1, s2}
  Workers = {w1, w2}
  Remotes = {r1}
  NoSeries = NoSeries
  MaxCrashes = 1
INVARIANT WaitLoopNeverEntered
CHECK_DEADLOCK FALSE

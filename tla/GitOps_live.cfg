\* Progress of the git stage, before and after one crash.
SPECIFICATION FairSpec
CONSTANTS
  s1 = s1  s2 = s2
  w1 = w1  w2 = w2
  r1 = r1  r2 = r2
  Series = {s1, s2}
  Workers = {w1, w2}
  Remotes = {r1}
  NoSeries = NoSeries
  MaxCrashes = 1
PROPERTIES SeenIsHandled RestartHandlesQueue
CHECK_DEADLOCK FALSE

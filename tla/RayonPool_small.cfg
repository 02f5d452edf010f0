\* Three threads for three loops: nothing is left for the first scan.
SPECIFICATION FairSpec
CONSTANTS
  Threads = {t1, t2, t3}
  Runners = 1
  Polls = {p1}
  Depth = 1
PROPERTY ScanEnds
CHECK_DEADLOCK FALSE

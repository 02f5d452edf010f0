\* Four threads for three loops, with two polls: scans and polls come to an end.
SPECIFICATION FairSpec
CONSTANTS
  Threads = {t1, t2, t3, t4}
  Runners = 1
  Polls = {p1, p2}
  Depth = 1
INVARIANTS TypeOK ScanNotBuried ThreadIsLeft
PROPERTIES ScanEnds PollEnds

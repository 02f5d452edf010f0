\* Two runners that take the same series.
SPECIFICATION FairSpec
CONSTANTS
  s1 = s1
  t1 = t1
  None = None
  Series = {s1}
  Repos = {"linux-ci", "no-ci"}
  Workflows = {"build"}
  WorkflowsOf <- MCWorkflowsOf
  Endings <- MCEndings
  Threads = {t1}
  MaxReruns = 0
  MaxCrashes = 0
PROPERTY WatcherMovesOn
CHECK_DEADLOCK FALSE

\* The runner with two workflows, a re-run and a crash: safety and progress.
SPECIFICATION FairSpec
CONSTANTS
  s1 = s1
  t1 = t1
  None = None
  Series = {s1}
  Repos = {"linux-ci"}
  Workflows = {"build", "boot"}
  WorkflowsOf <- MCWorkflowsOf
  Endings <- MCEndings
  Threads = {t1}
  MaxReruns = 1
  MaxCrashes = 1
INVARIANTS TypeOK NoFalseVerdict DoneIsReported
PROPERTIES OnlyDeathOrphans QueueDrains PollsEnd
CHECK_DEADLOCK FALSE

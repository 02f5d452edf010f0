\* A run that fails at "Set up job" and at nothing else.
SPECIFICATION Spec
CONSTANTS
  s1 = s1
  t1 = t1
  None = None
  Series = {s1}
  Repos = {"linux-ci"}
  Workflows = {"build"}
  WorkflowsOf <- MCWorkflowsOf
  Endings <- MCSetupEndings
  Threads = {t1}
  MaxReruns = 0
  MaxCrashes = 0
INVARIANT SetupFailureIsNoFail
CHECK_DEADLOCK FALSE

\* One series through the git stage, a runner and dispatch, with a re-run and a crash.
SPECIFICATION FairSpec
CONSTANTS
  s1 = s1  w1 = w1  t1 = t1
  NoSeries = NoSeries
  None = None
  Series = {s1}
  Workers = {w1}
  Remotes = {"linux-ci"}
  Workflows = {"build"}
  WorkflowsOf <- MCWorkflowsOf
  Endings <- MCEndings
  Threads = {t1}
  KeyOf <- MCKeyOf
  Contexts = {1}
  ContextOf <- MCContextOf
  MaxReruns = 1
  MaxCrashes = 1
INVARIANTS CheckIsTrue NoResultLost
PROPERTIES ImplementsComponents QueuedIsPolled ListedIsChecked
CHECK_DEADLOCK FALSE

\* Safety of the git stage with two remotes and one crash.
SPECIFICATION Spec
CONSTANTS
  s1 = s1  s2 = s2
  w1 = w1  w2 = w2
  r1 = r1  r2 = r2
  Series = {s1, s2}
  Workers = {w1, w2}
  Remotes = {r1, r2}
  NoSeries = NoSeries
  MaxCrashes = 1
SYMMETRY Symmetry
INVARIANTS TypeOK OneGitTree JobsHaveEntries BranchHoldsItsSeries QueuedIsPushed
PROPERTIES NeverDropped ImplementsSource
CHECK_DEADLOCK FALSE

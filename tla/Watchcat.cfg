\* Scans of a page of two with three series, one failing request and one crash.
SPECIFICATION FairSpec
CONSTANTS
  N = 3
  PageSize = 2
  MaxFailures = 1
  MaxCrashes = 1
INVARIANT TypeOK
PROPERTIES OnlyDeathLoses OnPageIsQueued ImplementsSource

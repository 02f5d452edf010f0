\* Dispatch across two crashes: safety, and progress once the process stays up.
SPECIFICATION FairSpec
CONSTANTS
  Keys <- MCKeys
  Contexts <- MCContexts
  ContextOf <- MCContextOf
  Rejectable = {2}
  MaxCrashes = 2
INVARIANTS TypeOK OneCheckPerContext SpareChecksCostACrash DurableUntilReported
PROPERTIES DroppedIsReported EntriesReported AheadIsReported

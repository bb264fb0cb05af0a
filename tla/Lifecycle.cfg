SPECIFICATION FairSpec
CONSTANTS
  Threshold = 2
INVARIANTS DatabaseOutlivesTasks ExitTellsTruth
PROPERTIES NeverReadyAgain EverythingStops
\* Each of these is violated: one at a time.
\* PROPERTY StopAlwaysEnds
\* INVARIANT NothingOutlivesDatabase
CHECK_DEADLOCK FALSE

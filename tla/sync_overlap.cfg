\* A background run and operator runs together, while upstream goes back
\* and forth.
SPECIFICATION FairSync
CONSTANTS
  Runs = {1, 2, 3}
  LastVersion = 2
  Rejected = {}
  Environment <- Overlapping
  NoVersion = NoVersion
  Torn = Torn
INVARIANTS SyncTypeOK SelfHeals OneBackgroundRun
PROPERTIES OneAttemptPerWindow InFlightClears

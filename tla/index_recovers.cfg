\* Stores that fail part way and Redis going back to a snapshot, or ids in
\* two places and archives that land.
SPECIFICATION IndexSpec
CONSTANTS
  Places = {1, 2}
  SyncPlaces = {2}
  HiddenPlaces = {}
  Ids = {i1, i2}
  Texts = {t1, t2}
  Models = {m1}
  Worlds <- FailingOrCrowded
  Nothing = Nothing
SYMMETRY IdSymmetry
INVARIANTS IndexTypeOK RedisRebuildable MixingIsConfined IndexedIsCurrent
PROPERTIES LandingStaysApart

\* A file is deleted and the server restarts.
SPECIFICATION IndexSpec
CONSTANTS
  Places = {1}
  SyncPlaces = {}
  HiddenPlaces = {}
  Ids = {i1}
  Texts = {t1, t2}
  Models = {m1}
  Worlds <- Deleting
  Nothing = Nothing
INVARIANTS NoOrphans

\* One run at a time, with failures and crashes anywhere.
SPECIFICATION LuckySync
CONSTANTS
  Runs = {1}
  LastVersion = 3
  Rejected = {2}
  Environment <- Failing
  NoVersion = NoVersion
  Torn = Torn
INVARIANTS SelfHeals
PROPERTIES SyncConverges

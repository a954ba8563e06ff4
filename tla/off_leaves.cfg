SPECIFICATION InstallerSpec
CONSTANTS
    UserLines = {"mine"}
    Missing = Missing
    Wrong = Wrong
    Failed = Failed
    Providers = {"none", "cognee"}
    Requests <- SomeRequests
    ClientLists <- Wirings
    UserEdits = {"settings"}
    MaxActs = 5
INVARIANT OffReverts
CHECK_DEADLOCK FALSE

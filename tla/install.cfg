\* An installation nobody touches stays as it is, hence no deadlock check.
SPECIFICATION InstallerSpec
CONSTANTS
    UserLines = {"mine"}
    Missing = Missing
    Wrong = Wrong
    Failed = Failed
    Providers = {"none", "cognee"}
    Requests <- SomeRequests
    ClientLists <- Wirings
    UserEdits = {"line", "copy", "delete", "sentinel", "settings", "group", "token"}
    MaxActs = 5
INVARIANTS ToggleIsComplete UserWorkKept ReadyBoots
PROPERTY StartServesInstall
CHECK_DEADLOCK FALSE

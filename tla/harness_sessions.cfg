\* A hook session, an MCP session and one that hooks and MCP tools share, in
\* a store that holds one of them.
SPECIFICATION HarnessSpec
CONSTANTS
  h1 = h1  h2 = h2  m1 = m1  f1 = f1  k1 = k1
  HookSessions = {h1, h2}
  McpSessions = {h2, m1}
  Sessions <- AllSessions
  MaxSessions = 1
  Skills = {k1}
  SourcePaths = {f1}
  PlanPaths = {}
  NoPlan = NoPlan
  MaxPlans = 1
  Bodies = {}
  NoBody = NoBody
  Calls = {1}
  Queries = {1}
  TouchSets <- OnePath
  ForcedSkills = {}
  EditIncrementally = EditIncrementally
  RequiredReadsMax = 1
  ReadGate = TRUE
  ReceiptGate = TRUE
  Granularities = {"function"}
  FilesToTouch <- NoManifests
  Hits <- NoHits
  EditBound = 1
  Environment <- WithRestart
  NoSession = NoSession
INVARIANTS StoreSound StopBlockedOncePerTurn NoLockoutWithoutDelivery
PROPERTIES OnlyQueriesLeaveUnread KeepsPromise

\* One session, one plan and calls in parallel, in a world of every freedom.
SPECIFICATION GateSpec
CONSTANTS
  f1 = f1  f2 = f2  plan = plan  plan2 = plan2  k1 = k1  k2 = k2
  draft = draft  first = first  grown = grown
  Sessions = {s1}
  MaxSessions = 1
  Skills = {k1, k2}
  SourcePaths = {f1, f2}
  PlanPaths = {plan}
  NoPlan = NoPlan
  MaxPlans = 1
  Bodies = {draft, first, grown}
  NoBody = NoBody
  Calls = {c1, c2}
  TouchSets <- EachPathOrBothSources
  ForcedSkills = {k1}
  EditIncrementally = EditIncrementally
  RequiredReadsMax = 1
  ReadGate = TRUE
  ReceiptGate = TRUE
  Granularities = {"none"}
  FilesToTouch <- MCFilesToTouch
  Hits <- MCHits
  EditBound = 1
  Environment <- Anything
  NoSession = NoSession
SYMMETRY CallSymmetry
INVARIANTS TypeOK NothingUnread ReceiptIsOfThisTurn ManifestArmed
PROPERTIES KeepsPromise

\* Two calls of one turn in flight together.
SPECIFICATION GateSpec
CONSTANTS
  f1 = f1  f2 = f2  plan = plan  plan2 = plan2  k1 = k1  k2 = k2
  draft = draft  first = first  grown = grown
  Sessions = {s1}
  MaxSessions = 1
  Skills = {k1, k2}
  SourcePaths = {f1, f2}
  PlanPaths = {}
  NoPlan = NoPlan
  MaxPlans = 1
  Bodies = {}
  NoBody = NoBody
  Calls = {1, 2}
  TouchSets <- EachPath
  ForcedSkills = {k1}
  EditIncrementally = EditIncrementally
  RequiredReadsMax = 1
  ReadGate = TRUE
  ReceiptGate = TRUE
  Granularities = {"function"}
  FilesToTouch <- MCFilesToTouch
  Hits <- MCHits
  EditBound = 3
  Environment <- Parallel
  NoSession = NoSession
INVARIANTS OneEditPerTurn

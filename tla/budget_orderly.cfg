\* One agent that runs one call at a time and never prompts during one.
SPECIFICATION GateSpec
CONSTANTS
  f1 = f1  f2 = f2  plan = plan  plan2 = plan2  k1 = k1  k2 = k2
  draft = draft  first = first  grown = grown
  Sessions = {s1}
  MaxSessions = 1
  Skills = {k1, k2}
  SourcePaths = {f1, f2}
  PlanPaths = {plan}
  NoPlan = NoPlan
  MaxPlans = 1
  Bodies = {first}
  NoBody = NoBody
  Calls = {1}
  TouchSets <- EachPath
  ForcedSkills = {k1}
  EditIncrementally = EditIncrementally
  RequiredReadsMax = 1
  ReadGate = TRUE
  ReceiptGate = TRUE
  Granularities = {"function", "file"}
  FilesToTouch <- MCFilesToTouch
  Hits <- MCHits
  EditBound = 3
  Environment <- Orderly
  NoSession = NoSession
INVARIANTS OneEditPerTurn OneFilePerTurn BudgetIsOfThisTurn

SPECIFICATION RulesSpec
CONSTANTS
    Text1 = Text1
    Text2 = Text2
    Text3 = Text3
    Near = Near
    Far = Far
    Artifacts = {Near, Far}
    QueryWords = {Text1, Text2, Text3}
    Blank = Blank
    Threshold = 1
    Unscored = Unscored
    Failed = Failed
    Prompts = {Text1}
    AspectLists <- SomeAspects
    MostAspects = 3
    Indexes <- SomeIndexes
    ForcedLists <- SomeForced
    MostReads = 3
    TopKs = {1, 2}
    BatchSizes = {1, 2}
    Up = ".."
    Segments = {"a", "b", ".."}
    Facets = {"id", "domain"}
    Demanded = {"id"}
    Absent = Absent
    Plans <- ShortPlans
    Paths <- ShortPaths
    Skills <- SomeSkills
    ClassifierAnswers <- SomeAnswers
INVARIANTS SearchIsBest PromptFitsGate BatchingOnlyReorders AuditIsInvisible MatchIsSameFile
INVARIANTS CorpusStaysReadable AuthorsFacetsKept ConfiguredLevelIsFollowed

-------------------------------- MODULE Rules --------------------------------
(***************************************************************************)
(* Rules: the pure functions of the harness on every input of small sets.  *)
(* A state is one input of one of them; the properties compare what the    *)
(* code computes from it with a reference definition.                      *)
(***************************************************************************)
EXTENDS Selection, PlanText, SkillFile

CONSTANTS
    Indexes,        \* what the index answers to every text
    Prompts,        \* prompts, and intents of plans
    AspectLists,    \* what a prompt may be expanded to, or a plan cut into
    MostAspects,    \* MAX_ASPECTS
    ForcedLists,    \* hits of the forced artifacts
    MostReads,      \* BETTERAI_REQUIRED_READS_MAX is in 1..MostReads
    TopKs,          \* bounds on a search's results
    BatchSizes,     \* PLAN_ASPECT_BATCH is one of them
    Plans, Paths, Skills,
    ClassifierAnswers

ASSUME RulesAssumption ==
    /\ Indexes \subseteq [QueryWords -> Seq(Hit)]
    /\ Prompts \subseteq QueryWords /\ AspectLists \subseteq Seq(QueryWords \cup {Blank})
    /\ MostAspects \in Nat /\ MostReads \in Nat
    /\ ForcedLists \subseteq Seq(Hit) /\ Failed \notin Seq(Hit)
    /\ TopKs \subseteq Nat \ {0} /\ BatchSizes \subseteq Nat \ {0}
    /\ Plans \subseteq Seq(Lines) /\ Paths \subseteq Path /\ Skills \subseteq Markdown

VARIABLE probe

None == [kind |-> "none"]
Is(kind) == probe.kind = kind

ProbeSearch == Is("none") /\ \E i \in Indexes : probe' = [kind |-> "search", index |-> i]
ProbePlan == Is("none") /\ \E p \in Plans : probe' = [kind |-> "plan", plan |-> p]
ProbePaths == Is("none") /\ \E p, q \in Paths : probe' = [kind |-> "paths", entry |-> p, path |-> q]
ProbeSkill == Is("none") /\ \E f \in Skills : probe' = [kind |-> "skill", file |-> f]
\* The next input.
Forget == ~Is("none") /\ probe' = None

RulesInit == probe = None
RulesNext == ProbeSearch \/ ProbePlan \/ ProbePaths \/ ProbeSkill \/ Forget
RulesSpec == RulesInit /\ [][RulesNext]_probe
-----------------------------------------------------------------------------
(* Search *)

Improvers == {"off", "answers", "fails"}
Improved(improver, aspects) == Expansion(improver, aspects, MostAspects)

\* A search returns every artifact that some query text qualifies, once, with
\* its best score, best first, and a bound keeps a prefix of that.  It fails
\* only for want of a text or of similarities (search.py: the union over the
\* aspects, _keep_best, the sort and top_k).
SearchIsBest == Is("search") =>
    \A prompt \in Prompts \cup {Blank}, aspects \in AspectLists :
        LET texts == ({prompt} \cup ToSet(aspects)) \ {Blank}
            all == Search(probe.index, prompt, aspects, 0)
        IN  IF texts = {} \/ \E t \in texts : Blind(probe.index[t]) THEN all = Failed
            ELSE /\ OncePerId(all) /\ Falling(all)
                 /\ ScoresOf(all) = BestScores(probe.index, texts)
                 /\ \A topK \in TopKs : Search(probe.index, prompt, aspects, topK)
                                       = Cut(all, topK)

\* Whatever a prompt requires is one of the choices HookGates leaves open: as
\* many artifacts as the cap allows, the forced ones first, no id twice, and
\* nothing left out that beats a retrieved one that is in (routes.py:
\* _retrieve_required and _cap_required).
PromptFitsGate == Is("search") =>
    \A prompt \in Prompts, forced \in ForcedLists, limit \in 1..MostReads,
       aspects \in AspectLists, improver \in Improvers :
        LET expansion == Improved(improver, aspects)
            found == Search(probe.index, prompt, expansion.aspects, 0)
            scored == IF found = Failed THEN <<>> ELSE found
            all == Ids(forced) \cup Ids(scored)
            required == RetrieveRequired(probe.index, prompt, expansion, forced, limit).required
        IN  /\ OncePerId(required) /\ Ids(required) \subseteq all
            /\ Len(required) = IF limit < Cardinality(all) THEN limit ELSE Cardinality(all)
            /\ IsPrefix(required, forced) \/ IsPrefix(forced, required)
            /\ \A i \in Ids(required) \ Ids(forced), j \in all \ Ids(required) :
                    Score(scored, i) >= Score(scored, j)

\* Cutting a plan's aspects into batches loses no match and no score, and what
\* later prompts of the plan are served is sorted though the batches are not
\* (routes.py: _query_plan_aspects and _plan_cache_serve).
BatchingOnlyReorders == Is("search") =>
    \A prompt \in Prompts, aspects \in AspectLists, n \in BatchSizes :
        LET whole == Search(probe.index, prompt, aspects, 0)
            matches == PlanMatches(probe.index, prompt, aspects, n)
        IN  IF whole = Failed THEN matches = Failed
            ELSE /\ OncePerId(matches) /\ ScoresOf(matches) = ScoresOf(whole)
                 /\ Len(aspects) <= n => matches = whole
                 /\ \A limit \in 1..MostReads :
                        Falling(PlanCacheServe(<<>>, matches, limit))

\* expand.py calls expansion an enhancer, not a gate: when it fails a prompt is
\* served as if it were off.  In the code its warning withholds everything.
ExpansionNeverGates == Is("search") =>
    \A prompt \in Prompts, forced \in ForcedLists, limit \in 1..MostReads :
        LET Served(improver) ==
                ServedTo(RetrieveRequired(probe.index, prompt, Improved(improver, <<>>),
                                          forced, limit))
        IN  Served("fails") = Served("off")
-----------------------------------------------------------------------------
(* Plans and paths *)

\* The audit a planner pastes into the plan, last or before any section, is
\* invisible: retrieval sees the same plan, so the same hash, and the manifest
\* is the same; and no audit a plan has anywhere becomes an aspect
\* (plan_cache.py: strip_skill_audit, plan_sections; parser.py: _section_lines).
AuditIsInvisible == Is("plan") =>
    /\ \A s \in ToSet(PlanSections(StripSkillAudit(probe.plan))) : s.heading # "audit"
    /\ \A k \in 0..Len(probe.plan), matches \in 0..1 :
        LET after == SubSeq(probe.plan, k + 1, Len(probe.plan))
            pasted == SubSeq(probe.plan, 1, k) \o SkillAudit(matches) \o after
        IN  after = <<>> \/ Head(after) \in Headings =>
                /\ StripSkillAudit(pasted) = StripSkillAudit(probe.plan)
                /\ ParseFilesToTouch(pasted) = ParseFilesToTouch(probe.plan)

\* A manifest entry and the path of a tool call match exactly when there are
\* directories they may be relative to that make them one file, and a directory
\* entry covers an absolute path exactly when the same holds for a directory
\* the path lies in (store.py: _entry_matches and _under_dir).
MatchIsSameFile == Is("paths") =>
    LET entry == Normalized(probe.entry)
        path == Normalized(probe.path)
        Above(k) == [path EXCEPT !.segs = SubSeq(@, 1, k)]
    IN  entry.segs # <<>> /\ path.segs # <<>> /\ ~Climbs(entry) /\ ~Climbs(path) =>
            /\ EntryMatches(probe.entry, probe.path) <=> MayBeSame(entry, path)
            /\ path.abs =>
                (DirectoryMatches(probe.entry, probe.path)
                 <=> entry = path \/ \E k \in 1..Len(path.segs) - 1 : MayBeSame(entry, Above(k)))
-----------------------------------------------------------------------------
(* Skills *)

\* What the tools do with a file, or with a spec of that shape.
Outcomes(file) == (UNION {Added(file, a) : a \in ClassifierAnswers})
                  \cup Edited(file) \cup Distilled(file)

\* No tool leaves a file behind that makes the corpus unreadable, and none but
\* configure_skill writes a rule without its sections (writer.py: what this
\* module writes must be exactly what CorpusReader accepts back).
CorpusStaysReadable == Is("skill") =>
    /\ \A g \in Outcomes(probe.file) : Accepts(g) /\ HasSections(g)
    /\ Accepts(probe.file) =>
            \A level \in Level : \A g \in Configured(probe.file, level) : Accepts(g)

\* add_skill keeps everything the author wrote, leaves no facet empty, and does
\* not depend on the classifier when nothing was missing (classify.py: fills
\* only missing facets).
AuthorsFacetsKept == Is("skill") =>
    \A answer \in ClassifierAnswers : \A g \in Added(probe.file, answer) :
        /\ \A f \in Facets : g.facet[f] = IF probe.file.facet[f] # Absent
                                          THEN probe.file.facet[f] ELSE answer[f]
        /\ Absent \notin {g.type, g.hints} \cup {g.facet[f] : f \in Facets}
        /\ probe.file.type # Absent => g.type = probe.file.type
        /\ [probe.file EXCEPT !.facet = g.facet, !.type = g.type, !.hints = g.hints,
                              !.severity = g.severity] = g
        /\ MissingFacets(probe.file) = {} => g = probe.file

\* configure_skill takes exactly the levels the shipped skill declares, and the
\* prompt hook follows each of them whatever the environment says, as long as it
\* can read the corpus (routes.py: _resolve_comment_policy; settings.py:
\* parse_comment_policy).
ConfiguredLevelIsFollowed == Is("skill") =>
    (probe.file.schema = ShippedSchema /\ Accepts(probe.file) =>
        \A level \in Level :
            /\ Configured(probe.file, level) # Refused <=> level \in ShippedSchema
            /\ \A g \in Configured(probe.file, level) :
                    \A readable \in BOOLEAN, seed \in ShippedSchema :
                        CommentPolicy(readable, g, seed) = IF readable THEN level ELSE seed)
=============================================================================

------------------------------ MODULE Selection ------------------------------
(***************************************************************************)
(* Selection: which artifacts a prompt, or a plan, is served, and in which *)
(* order.  HookGates leaves this open: there a retrieval may find any set  *)
(* and the cap may keep any part of it that respects the forced ones.      *)
(*                                                                         *)
(* A query text is a model value and the index maps it to its hits.  A hit *)
(* is the id of its artifact, the cosine similarity (or none, when only    *)
(* the text leg found it), whether a keyword matched, and the fused score. *)
(* An artifact in a result is the hit that earned it its place.            *)
(***************************************************************************)
EXTENDS Integers, FiniteSets, Lists

CONSTANTS
    Artifacts,      \* ids
    QueryWords,     \* texts a query may be made of
    Blank,          \* a text of white space only
    Threshold,      \* BETTERAI_SIMILARITY_THRESHOLD
    Unscored,       \* a hit without a vector similarity
    Failed          \* a typed error in place of a result

ASSUME SelectionAssumption ==
    /\ Threshold \in Nat
    /\ Unscored \notin Nat
    /\ Blank \notin QueryWords

Hit == [id : Artifacts, sim : Nat \cup {Unscored}, word : BOOLEAN, score : Nat]
Ids(hits) == {hits[k].id : k \in DOMAIN hits}
Score(hits, i) == hits[SelectInSeq(hits, LAMBDA h : h.id = i)].score

\* sorted(..., reverse=True) by score keeps equals in their order: a hit goes
\* before the first that scores less.
Ranked(ranking, hit) ==
    LET k == SelectInSeq(ranking, LAMBDA h : h.score < hit.score)
    IN  IF k = 0 THEN Append(ranking, hit) ELSE InsertAt(ranking, k, hit)
BestFirst(hits) == FoldLeft(Ranked, <<>>, hits)

Cut(s, n) == SubSeq(s, 1, IF n < Len(s) THEN n ELSE Len(s))

\* _query_texts: the prompt and its aspects, without blanks and repeats.
WithText(texts, t) == IF t = Blank \/ Contains(texts, t) THEN texts ELSE Append(texts, t)
QueryTexts(prompt, aspects) == FoldLeft(WithText, <<>>, <<prompt>> \o aspects)
-----------------------------------------------------------------------------
(* search() *)

Qualifies(hit) == hit.sim # Unscored /\ hit.sim >= Threshold /\ hit.word

\* Mutant: the last hit of an artifact counts.
KeepLast(kept, hit) ==
    LET k == SelectInSeq(kept, LAMBDA h : h.id = hit.id)
    IN  IF k = 0 THEN Append(kept, hit) ELSE [kept EXCEPT ![k] = hit]

\* _keep_best, over a dictionary, which keeps the place of a replaced hit.
KeepBest(kept, hit) ==
    LET k == SelectInSeq(kept, LAMBDA h : h.id = hit.id)
    IN  CASE k = 0                      -> Append(kept, hit)
          [] k # 0 /\ hit.score > kept[k].score -> [kept EXCEPT ![k] = hit]
          [] OTHER                      -> kept

Blind(hits) == hits # <<>> /\ \A k \in DOMAIN hits : hits[k].sim = Unscored

\* An answer without any similarity cannot be judged and fails the search, as
\* does a search for nothing.  A top_k of 0 is no bound.
Search(index, prompt, aspects, topK) ==
    LET texts == QueryTexts(prompt, aspects)
        answers == [k \in DOMAIN texts |-> index[texts[k]]]
        hits == FlattenSeq(answers)
        kept == FoldLeft(KeepBest, <<>>, Only(hits, {h \in ToSet(hits) : Qualifies(h)}))
    IN  IF texts = <<>> \/ \E k \in DOMAIN answers : Blind(answers[k]) THEN Failed
        ELSE IF topK = 0 THEN BestFirst(kept) ELSE Cut(BestFirst(kept), topK)
-----------------------------------------------------------------------------
(* The prompt hook *)

\* Mutant: a forced artifact that was also retrieved comes twice.
CapUnion(forced, scored, limit) == Cut(forced \o scored, limit)

\* _cap_required; the forced artifacts are hits without a query.
CapRequired(forced, scored, limit) ==
    Cut(forced \o Only(scored, {h \in ToSet(scored) : h.id \notin Ids(forced)}), limit)

\* expand_prompt and _parse: at most most aspects, none when the improver is
\* off or the prompt empty, a warning when the call or its answer is no good.
Expansion(improver, aspects, most) ==
    CASE improver = "off"    -> [aspects |-> <<>>, warned |-> FALSE]
      [] improver = "answers" ->
            [aspects |-> Cut(Only(aspects, QueryWords), most), warned |-> FALSE]
      [] improver = "fails"  -> [aspects |-> <<>>, warned |-> TRUE]

\* _retrieve_required: what is required and whether something went wrong.  A
\* corpus that cannot be read (Failed) has no forced artifacts.
RetrieveRequired(index, prompt, expansion, forced, limit) ==
    LET found == Search(index, prompt, expansion.aspects, 0)
        scored == IF found = Failed THEN <<>> ELSE found
        lead == IF forced = Failed THEN <<>> ELSE forced
    IN  [required |-> CapRequired(lead, scored, limit),
         warned |-> Failed \in {found, forced} \/ expansion.warned]

\* user_prompt_submit: a warning of any kind withholds everything.
ServedTo(outcome) == IF outcome.warned THEN <<>> ELSE outcome.required
-----------------------------------------------------------------------------
(* Plans *)

\* Mutant: the aspects after the last full batch are lost.
FullBatches(aspects, n) ==
    IF Len(aspects) < n THEN << <<>> >>
    ELSE [b \in 1..(Len(aspects) \div n) |-> SubSeq(aspects, (b - 1) * n + 1, b * n)]

\* Aspects in batches of n, and one empty batch when there are none.
Batches(aspects, n) ==
    IF aspects = <<>> THEN << <<>> >>
    ELSE [b \in 1..((Len(aspects) + n - 1) \div n) |->
            Cut(SubSeq(aspects, (b - 1) * n + 1, Len(aspects)), n)]

\* _query_plan_aspects: one query per batch, the results united by id.  The
\* union is not sorted again.
PlanMatches(index, intent, aspects, n) ==
    LET parts == [b \in DOMAIN Batches(aspects, n) |->
                    Search(index, intent, Batches(aspects, n)[b], 0)]
    IN  IF \E b \in DOMAIN parts : parts[b] = Failed THEN Failed
        ELSE FoldLeft(KeepBest, <<>>, FlattenSeq(parts))

\* What later prompts of the plan are served.
PlanCacheServe(forced, matches, limit) == CapRequired(forced, BestFirst(matches), limit)
-----------------------------------------------------------------------------
(* Reference definitions *)

\* The artifacts some query of the texts qualifies, with their best score.
Found(index, texts) ==
    {h \in UNION {ToSet(index[t]) : t \in texts} : Qualifies(h)}
BestScores(index, texts) ==
    [i \in {h.id : h \in Found(index, texts)} |->
        LET scores == {h.score : h \in {g \in Found(index, texts) : g.id = i}}
        IN  CHOOSE n \in scores : \A o \in scores : o <= n]

ScoresOf(hits) == [i \in Ids(hits) |-> Score(hits, i)]
OncePerId(hits) == \A j, k \in DOMAIN hits : hits[j].id = hits[k].id => j = k
Falling(hits) == \A j, k \in DOMAIN hits : j < k => hits[j].score >= hits[k].score
=============================================================================

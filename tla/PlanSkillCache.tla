--------------------------- MODULE PlanSkillCache ---------------------------
(***************************************************************************)
(* PlanSkillCache: the skills matched to each captured plan, keyed by plan *)
(* path and shared by all sessions of the process.  An entry holds the     *)
(* body whose hash it was filled from and the ids matched so far.  Reading *)
(* an entry (get, latest) does not refresh its recency; only upsert does.  *)
(***************************************************************************)
EXTENDS SessionStore

CONSTANTS
    MaxPlans,       \* MAX_PLANS, the bound of the cache
    Bodies,         \* plan texts with the Skill Audit section stripped
    NoBody          \* "no entry for this plan"

ASSUME CacheAssumption ==
    /\ MaxPlans \in Nat \ {0}
    /\ NoBody \notin Bodies

VARIABLES
    planOrder,      \* plans with an entry, least recently upserted first
    planEntry       \* plan -> its entry

cacheVars == <<planOrder, planEntry>>

PlanEntry == [body : Bodies \cup {NoBody}, matches : SUBSET Skills]
EmptyEntry == [body |-> NoBody, matches |-> {}]

CacheInit ==
    /\ planOrder = <<>>
    /\ planEntry = [p \in PlanPaths |-> EmptyEntry]

\* Mutant: a known plan takes the new hash but keeps its old matches.
UpsertHashOnly(p, body, hits) ==
    /\ planOrder' = Touched(planOrder, p, MaxPlans)
    /\ planEntry' = [q \in PlanPaths |->
            IF q = p
            THEN [body |-> body, matches |->
                    IF planEntry[p] = EmptyEntry THEN hits ELSE planEntry[p].matches]
            ELSE IF q \in Listed(planOrder') THEN planEntry[q]
            ELSE EmptyEntry]

\* upsert(): the new hash replaces the old one, the matches are merged.
Upsert(p, body, hits) ==
    /\ planOrder' = Touched(planOrder, p, MaxPlans)
    /\ planEntry' = [q \in PlanPaths |->
            IF q = p THEN [body |-> body, matches |-> planEntry[p].matches \cup hits]
            ELSE IF q \in Listed(planOrder') THEN planEntry[q]
            ELSE EmptyEntry]

\* The matches upsert() returns: those new to the plan.
NewMatches(p, hits) == hits \ planEntry[p].matches

CacheForget ==
    /\ planOrder' = <<>>
    /\ planEntry' = [p \in PlanPaths |-> EmptyEntry]

CacheTypeOK ==
    /\ planOrder \in Seq(PlanPaths)
    /\ planEntry \in [PlanPaths -> PlanEntry]

\* The cache is within its bound and an evicted plan leaves no entry.
CacheSound ==
    /\ RecencyList(planOrder, MaxPlans)
    /\ \A p \in PlanPaths : p \notin Listed(planOrder) => planEntry[p] = EmptyEntry
=============================================================================

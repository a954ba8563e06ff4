---------------------------- MODULE SessionStore ----------------------------
(***************************************************************************)
(* InMemorySessionStore: the per-session state of every gate.  A session's *)
(* bucket is one record whose fields are the namespace/key pairs the gates *)
(* and the plan cache own.  A read of a session that is not stored gives   *)
(* the defaults and creates nothing, so the bucket of an absent session is *)
(* EmptyBucket.  A handler runs without suspension on the event loop and   *)
(* all its writes are for one session: together they touch that session    *)
(* once, which is what Write does.                                         *)
(***************************************************************************)
EXTENDS Recency, FiniteSets

CONSTANTS
    Sessions,       \* session ids: hook sessions and MCP transport sessions
    MaxSessions,    \* MAX_SESSIONS, the bound of the store
    Skills,         \* artifact ids of the corpus
    SourcePaths,    \* files a mutating tool may touch
    PlanPaths,      \* files that match BETTERAI_PLAN_GLOB
    NoPlan          \* "no active plan"

ASSUME StoreAssumption ==
    /\ MaxSessions \in Nat \ {0}
    /\ SourcePaths \cap PlanPaths = {}
    /\ NoPlan \notin PlanPaths

VARIABLES
    order,          \* stored sessions, least recently written first
    bucket          \* session -> its namespaces

storeVars == <<order, bucket>>

Paths == SourcePaths \cup PlanPaths
ManifestEntry == [path : Paths, justified : BOOLEAN]

Bucket ==
    [required  : SUBSET Skills,          \* read_gate.required      (turn)
     read      : SUBSET Skills,          \* read_gate.read          (turn)
     retrieved : BOOLEAN,                \* retrieval_receipt       (turn)
     mutations : Nat,                    \* edit_budget.mutations   (turn)
     files     : SUBSET Paths,           \* edit_budget.files       (turn)
     blocked   : BOOLEAN,                \* stop_state.blocked_once (turn)
     seen      : BOOLEAN,                \* prompt_evidence.seen    (session)
     entries   : SUBSET ManifestEntry,   \* plan_manifest.entries   (session)
     active    : BOOLEAN,                \* plan_manifest.active    (session)
     plan      : PlanPaths \cup {NoPlan}]\* plan_skills.active_plan (session)

EmptyBucket ==
    [required |-> {}, read |-> {}, retrieved |-> FALSE, mutations |-> 0,
     files |-> {}, blocked |-> FALSE, seen |-> FALSE, entries |-> {},
     active |-> FALSE, plan |-> NoPlan]

\* Mutants: a turn that gives one edit back instead of resetting the budget, one
\* that keeps the retrieval receipt of the previous one, and one that keeps its
\* requirements.
BeginTurnRefunds(b) ==
    [b EXCEPT !.required = {}, !.read = {}, !.retrieved = FALSE,
              !.mutations = @ - 1, !.blocked = FALSE]
BeginTurnKeepsReceipt(b) ==
    [b EXCEPT !.required = {}, !.read = {}, !.mutations = 0,
              !.files = {}, !.blocked = FALSE]

BeginTurnKeepsRequired(b) ==
    [b EXCEPT !.read = {}, !.retrieved = FALSE,
              !.mutations = 0, !.files = {}, !.blocked = FALSE]

\* Pop the namespaces of registry.TURN_NAMESPACES.
BeginTurn(b) ==
    [b EXCEPT !.required = {}, !.read = {}, !.retrieved = FALSE,
              !.mutations = 0, !.files = {}, !.blocked = FALSE]

StoreInit ==
    /\ order = <<>>
    /\ bucket = [s \in Sessions |-> EmptyBucket]

Stored(s) == s \in Listed(order)

\* set(): session s ends with bucket b, most recent; eviction drops the
\* buckets that fall off the front.
Write(s, b) ==
    /\ order' = Touched(order, s, MaxSessions)
    /\ bucket' = [t \in Sessions |->
                    IF t = s THEN b
                    ELSE IF t \in Listed(order') THEN bucket[t]
                    ELSE EmptyBucket]

\* clear_session()
Clear(s) ==
    /\ order' = Without(order, s)
    /\ bucket' = [bucket EXCEPT ![s] = EmptyBucket]

\* The store lives in the server's memory only.
Forget ==
    /\ order' = <<>>
    /\ bucket' = [s \in Sessions |-> EmptyBucket]

StoreTypeOK ==
    /\ order \in Seq(Sessions)
    /\ bucket \in [Sessions -> Bucket]

\* The store is within its bound, and a session that is not stored has left
\* nothing behind: what eviction and SessionEnd drop cannot be read again.
StoreSound ==
    /\ RecencyList(order, MaxSessions)
    /\ \A s \in Sessions : ~Stored(s) => bucket[s] = EmptyBucket
=============================================================================

----------------------------- MODULE HookGates -----------------------------
(***************************************************************************)
(* The hook endpoints of the server and the four gates behind them, with   *)
(* the coding agent that calls them.                                       *)
(*                                                                         *)
(* Each handler of hooks/routes.py suspends only to read the request body; *)
(* from there to its response it runs on the event loop without yielding   *)
(* (the pipeline's query awaits nothing unless it is given a progress      *)
(* callback, which no hook does).  So one handler is one action, and the   *)
(* interleavings are between handlers: tool calls the agent runs in        *)
(* parallel, prompts that arrive while a tool is running, sessions that    *)
(* push each other out of the store, restarts, lost and failing requests.  *)
(*                                                                         *)
(* A null session id and a tool outside MUTATING_TOOL_NAMES reach no state *)
(* in any handler, so calls here are mutating calls of named sessions.     *)
(***************************************************************************)
EXTENDS PlanSkillCache

CONSTANTS
    Calls,              \* slots for tool calls in flight
    TouchSets,          \* sets of paths one call may touch (mutated_paths)
    ForcedSkills,       \* corpus artifacts with forced: true
    EditIncrementally,  \* EDIT_INCREMENTALLY_SKILL_ID, or another value
    RequiredReadsMax,   \* BETTERAI_REQUIRED_READS_MAX
    ReceiptGate,        \* BETTERAI_RECEIPT_GATE # "off"
    ReadGate,           \* BETTERAI_READ_GATE # "off"
    Granularities,      \* the values BETTERAI_EDIT_GRANULARITY may have at a boot
    FilesToTouch,       \* body -> manifest entries it lists, {} if unparsable
    Hits,               \* body -> skills its retrieval matches
    EditBound,          \* bound of the model: edits counted in one turn
    Environment,        \* what the world around the server may do
    NoSession           \* "the call slot is free"

EnvironmentFreedoms ==
    {"parallel",      \* the agent has several calls of a session in flight
     "overlap",       \* a prompt or SessionEnd arrives during a call
     "post_lost",     \* a PostToolUse request never reaches the server
     "hook_down",     \* PreToolUse gets no decision: the shim fails open
     "prompt_error",  \* the prompt handler raises an untyped exception
     "audit_error",   \* the audit log cannot be appended to
     "restart"}       \* the server process restarts

ASSUME GateAssumption ==
    /\ RequiredReadsMax \in Nat /\ EditBound \in Nat
    /\ TouchSets \subseteq SUBSET Paths
    /\ ForcedSkills \subseteq Skills
    /\ ReadGate \in BOOLEAN /\ ReceiptGate \in BOOLEAN
    /\ Granularities \subseteq {"none", "function", "file"}
    /\ FilesToTouch \in [Bodies -> SUBSET ManifestEntry]
    /\ Hits \in [Bodies -> SUBSET Skills]
    /\ Environment \subseteq EnvironmentFreedoms
    /\ NoSession \notin Sessions

VARIABLES
    granularity,    \* settings.edit_granularity, read once at boot
    call,           \* slot -> the tool call in it (the agent's side)
    turn            \* session -> what became of its current turn (history)

gateVars == <<order, bucket, planOrder, planEntry, granularity, call, turn>>

CallPhases == {"running", "applied", "failed"}
Call == [session : Sessions \cup {NoSession}, paths : TouchSets \cup {{}},
         phase : CallPhases, gated : BOOLEAN]
NoCall == [session |-> NoSession, paths |-> {}, phase |-> "failed", gated |-> FALSE]

\* outcome: what the handler of the last prompt recorded ("new" before any),
\* whether or not the agent ever saw the response;
\* edits, touched: the calls of this turn that changed files, and which;
\* stops: how often Stop was blocked, 2 standing for more than once.
Turn == [outcome : {"new", "served", "released", "broken"},
         edits : Nat, touched : SUBSET Paths, stops : 0..2]
NewTurn(how) == [outcome |-> how, edits |-> 0, touched |-> {}, stops |-> 0]

InFlight(s) == {c \in Calls : call[c].session = s}

GateInit ==
    /\ StoreInit
    /\ CacheInit
    /\ granularity \in Granularities
    /\ call = [c \in Calls |-> NoCall]
    /\ turn = [s \in Sessions |-> NewTurn("new")]
-----------------------------------------------------------------------------
(* The four gates, as decisions on one session's bucket. *)

Missing(b) == b.required \ b.read

PathAllowed(b, p) ==
    \/ b.entries = {}
    \/ p \in PlanPaths
    \/ \E e \in b.entries : e.path = p

ReadGateDenies(b) == ReadGate /\ Missing(b) # {}

\* Mutant: the gate does not ask whether a prompt was ever delivered.
ReceiptGateDeniesUnseen(b) == ReceiptGate /\ ~b.retrieved

ReceiptGateDenies(b) == ReceiptGate /\ ~b.retrieved /\ b.seen

ManifestGateDenies(b, ps) == b.active /\ \E p \in ps : ~PathAllowed(b, p)

\* Mutant: one edit, or one file, too many.
BudgetGateOffByOne(b, ps) ==
    \/ granularity = "function" /\ b.mutations > 1
    \/ granularity = "file" /\ Cardinality(b.files) > 1 /\ ~(ps \subseteq b.files)

BudgetGateDenies(b, ps) ==
    \/ granularity = "function" /\ b.mutations >= 1
    \/ granularity = "file" /\ b.files # {} /\ ~(ps \subseteq b.files)

\* Mutants: a chain without the manifest gate, and one without the receipt gate.
DeniedWithoutManifest(b, ps) ==
    ReadGateDenies(b) \/ ReceiptGateDenies(b) \/ BudgetGateDenies(b, ps)
DeniedWithoutReceipt(b, ps) ==
    ReadGateDenies(b) \/ ManifestGateDenies(b, ps) \/ BudgetGateDenies(b, ps)

\* The first deny wins; which one only chooses the reason text.
Denied(b, ps) ==
    \/ ReadGateDenies(b)
    \/ ReceiptGateDenies(b)
    \/ ManifestGateDenies(b, ps)
    \/ BudgetGateDenies(b, ps)
-----------------------------------------------------------------------------
(* UserPromptSubmit *)

Forced == IF granularity = "none" THEN ForcedSkills \ {EditIncrementally}
          ELSE ForcedSkills

Smaller(m, n) == IF m <= n THEN m ELSE n

\* The lists _cap_required may return: forced artifacts lead, scored ones
\* follow, cut at required_reads_max.
CapRequired(forced, scored) ==
    {req \in SUBSET (forced \cup scored) :
        /\ Cardinality(req) = Smaller(RequiredReadsMax, Cardinality(forced \cup scored))
        /\ req \subseteq forced \/ forced \subseteq req}

\* The plan whose cached matches serve this session's prompts, if any.
CachedMatches(s) ==
    IF bucket[s].plan = NoPlan THEN {} ELSE planEntry[bucket[s].plan].matches

\* The scored artifacts of a prompt: the plan's cached matches, or else a
\* fresh retrieval, which may find anything.
Scored(s) == IF CachedMatches(s) # {} THEN {CachedMatches(s)} ELSE SUBSET Skills

\* Mutant: what is served is required but not marked read.
DeliveredUnread(b, req) ==
    [BeginTurn(b) EXCEPT !.required = req, !.retrieved = TRUE, !.seen = TRUE]

\* begin_turn, then the receipts of a delivery: what is served is required
\* and read in the same breath.
Delivered(b, req) ==
    [BeginTurn(b) EXCEPT !.required = req, !.read = req,
                         !.retrieved = TRUE, !.seen = TRUE]

TurnMayChange(s) == "overlap" \in Environment \/ InFlight(s) = {}

PromptServed(s) ==
    /\ TurnMayChange(s)
    /\ \E scored \in Scored(s) : \E req \in CapRequired(Forced, scored) :
            Write(s, Delivered(bucket[s], req))
    /\ turn' = [turn EXCEPT ![s] = NewTurn("served")]
    /\ UNCHANGED <<call, cacheVars>>

\* A typed failure (retrieval, prompt expansion or corpus): the warning is
\* shown, nothing is served or required, and the turn still gets a receipt.
PromptReleased(s) ==
    /\ TurnMayChange(s)
    /\ Write(s, Delivered(bucket[s], {}))
    /\ turn' = [turn EXCEPT ![s] = NewTurn("released")]
    /\ UNCHANGED <<call, cacheVars>>

\* An exception no handler catches, after begin_turn and before the receipts.
PromptBroken(s) ==
    /\ "prompt_error" \in Environment
    /\ TurnMayChange(s)
    /\ IF Stored(s) THEN Write(s, BeginTurn(bucket[s])) ELSE UNCHANGED storeVars
    /\ turn' = [turn EXCEPT ![s] = NewTurn("broken")]
    /\ UNCHANGED <<call, cacheVars>>
-----------------------------------------------------------------------------
(* PreToolUse and the tool itself.  A denial changes nothing but the audit *)
(* log, so only the calls that go on to run are steps.                     *)

Start(c, s, ps, gated) ==
    /\ call[c] = NoCall
    /\ "parallel" \in Environment \/ InFlight(s) = {}
    /\ call' = [call EXCEPT ![c] = [session |-> s, paths |-> ps,
                                    phase |-> "running", gated |-> gated]]
    /\ UNCHANGED <<storeVars, cacheVars, turn>>

PreToolUse(c, s, ps) ==
    /\ ~Denied(bucket[s], ps)
    /\ Start(c, s, ps, TRUE)

\* No decision came back (server down, timeout, or a 500 because the denial
\* could not be audited): the shim exits 0 and the agent runs the tool.
PreToolUseUnanswered(c, s, ps) ==
    /\ "hook_down" \in Environment
    /\ Start(c, s, ps, FALSE)

ToolApplies(c) ==
    LET s == call[c].session
    IN  /\ call[c].session # NoSession /\ call[c].phase = "running"
        /\ turn[s].edits < EditBound
        /\ call' = [call EXCEPT ![c].phase = "applied"]
        /\ turn' = [turn EXCEPT ![s].edits = @ + 1,
                                ![s].touched = @ \cup call[c].paths]
        /\ UNCHANGED <<storeVars, cacheVars>>

ToolFails(c) ==
    /\ call[c].session # NoSession /\ call[c].phase = "running"
    /\ call' = [call EXCEPT ![c].phase = "failed"]
    /\ UNCHANGED <<storeVars, cacheVars, turn>>
-----------------------------------------------------------------------------
(* PostToolUse *)

\* RecordMutationHandler: a failed call does not consume budget.
Counts(c) == granularity # "none" /\ call[c].phase = "applied"
Recorded(b, c) ==
    IF Counts(c) THEN [b EXCEPT !.mutations = @ + 1, !.files = @ \cup call[c].paths]
    ELSE b

\* The entries a later parse adds: only justified paths not yet known.
Extension(b, body) ==
    {e \in FilesToTouch[body] : e.justified /\ \A k \in b.entries : k.path # e.path}

\* Mutants: a plan that does not parse arms the gate with what there is, and a
\* later parse replaces the entries.
CapturedEmpty(b, body, full) ==
    IF FilesToTouch[body] = {} THEN [b EXCEPT !.active = TRUE]
    ELSE [b EXCEPT !.entries = FilesToTouch[body], !.active = TRUE]
CapturedAnew(b, body, full) ==
    IF FilesToTouch[body] = {} THEN [b EXCEPT !.active = FALSE]
    ELSE [b EXCEPT !.entries = FilesToTouch[body], !.active = TRUE]

\* CaptureManifestHandler.  A parse failure of the full text deactivates the
\* gate but keeps the entries; a fragment that does not parse is ignored once
\* there are entries.
Captured(b, body, full) ==
    IF FilesToTouch[body] = {}
    THEN IF ~full /\ b.entries # {} THEN b ELSE [b EXCEPT !.active = FALSE]
    ELSE IF b.entries = {}
    THEN [b EXCEPT !.entries = FilesToTouch[body], !.active = TRUE]
    ELSE [b EXCEPT !.entries = @ \cup Extension(b, body), !.active = TRUE]

Reported(c) == call[c].session # NoSession /\ call[c].phase \in {"applied", "failed"}
Retire(c) == call' = [call EXCEPT ![c] = NoCall] /\ UNCHANGED turn

\* A call that wrote no plan file.
PostToolUse(c) ==
    LET s == call[c].session
    IN  /\ Reported(c)
        /\ call[c].paths \cap PlanPaths = {}
        /\ Counts(c) => bucket[s].mutations < EditBound
        /\ IF Counts(c) THEN Write(s, Recorded(bucket[s], c)) ELSE UNCHANGED storeVars
        /\ Retire(c)
        /\ UNCHANGED cacheVars

\* The subsets of the new matches that _surface_plan_skills may serve.
Surfaced(p, body) ==
    LET new == NewMatches(p, Hits[body])
    IN  {ids \in SUBSET new : Cardinality(ids) = Smaller(RequiredReadsMax, Cardinality(new))}

\* A call that wrote plan file p, whose text is body.  It is the full text
\* when the shim attached it or the tool was Write, else a fragment.  The
\* chain captures the manifest and counts the edit, then the plan becomes the
\* session's active plan.
AfterPlanChain(c, p, body, full) ==
    [Recorded(Captured(bucket[call[c].session], body, full), c) EXCEPT !.plan = p]

PlanReport(c, p) ==
    /\ Reported(c)
    /\ p \in call[c].paths \cap PlanPaths
    /\ Counts(c) => bucket[call[c].session].mutations < EditBound
    /\ Retire(c)

\* A fragment, an unchanged text and a failed retrieval end there.
PostPlanQuiet(c, p, body, full) ==
    /\ PlanReport(c, p)
    /\ Write(call[c].session, AfterPlanChain(c, p, body, full))
    /\ UNCHANGED cacheVars

\* A new full text is retrieved for; what it newly matches is served, and
\* so required and read.
PostPlanSurfaced(c, p, body) ==
    /\ PlanReport(c, p)
    /\ planEntry[p].body # body
    /\ \E ids \in Surfaced(p, body) :
            LET b == AfterPlanChain(c, p, body, TRUE)
            IN  Write(call[c].session,
                      [b EXCEPT !.required = @ \cup ids, !.read = @ \cup ids])
    /\ Upsert(p, body, Hits[body])

\* Auditing a justified extension fails before the manifest is registered:
\* the request answers 500 and none of the rest happens.
PostPlanAborted(c, p, body) ==
    /\ "audit_error" \in Environment
    /\ PlanReport(c, p)
    /\ bucket[call[c].session].entries # {}
    /\ Extension(bucket[call[c].session], body) # {}
    /\ UNCHANGED <<storeVars, cacheVars>>

PostToolUseLost(c) ==
    /\ "post_lost" \in Environment
    /\ Reported(c)
    /\ Retire(c)
    /\ UNCHANGED <<storeVars, cacheVars>>
-----------------------------------------------------------------------------
(* Stop, SessionEnd and the process *)

\* Mutant: the latch is not consulted.
StopBlocksAlways(b) == Missing(b) # {}

\* should_block_stop_once: the latch is set by the block itself.
StopBlocks(b) == Missing(b) # {} /\ ~b.blocked

Stop(s) ==
    /\ StopBlocks(bucket[s])
    /\ Write(s, [bucket[s] EXCEPT !.blocked = TRUE])
    /\ turn' = [turn EXCEPT ![s].stops = Smaller(2, @ + 1)]
    /\ UNCHANGED <<cacheVars, call>>

\* ClearSessionHandler, then ClearManifestHandler on what is left: nothing.
SessionEnd(s) ==
    /\ TurnMayChange(s)
    /\ Clear(s)
    /\ turn' = [turn EXCEPT ![s] = NewTurn("new")]
    /\ UNCHANGED <<cacheVars, call>>

Restart ==
    /\ "restart" \in Environment
    /\ Forget
    /\ CacheForget
    /\ granularity' \in Granularities
    /\ UNCHANGED <<call, turn>>

HookStep(s) ==
    \/ PromptServed(s) \/ PromptReleased(s) \/ PromptBroken(s)
    \/ SessionEnd(s)
    \/ \E c \in Calls, ps \in TouchSets :
            PreToolUse(c, s, ps) \/ PreToolUseUnanswered(c, s, ps)

CallStep(c) ==
    \/ ToolApplies(c) \/ ToolFails(c)
    \/ PostToolUse(c) \/ PostToolUseLost(c)
    \/ \E p \in PlanPaths, body \in Bodies :
            \/ \E full \in BOOLEAN : PostPlanQuiet(c, p, body, full)
            \/ PostPlanSurfaced(c, p, body)
            \/ PostPlanAborted(c, p, body)

GateNext ==
    \/ /\ \/ \E s \in Sessions : HookStep(s) \/ Stop(s)
          \/ \E c \in Calls : CallStep(c)
       /\ UNCHANGED granularity
    \/ Restart

GateSpec == GateInit /\ [][GateNext]_gateVars
-----------------------------------------------------------------------------
(* Properties *)

\* The variables keep their types.
TypeOK ==
    /\ StoreTypeOK
    /\ CacheTypeOK
    /\ granularity \in Granularities
    /\ call \in [Calls -> Call]
    /\ turn \in [Sessions -> Turn]

\* Delivery is the read event: whatever a prompt or a plan write requires of
\* a session was served to it by the same handler, so the read gate and the
\* stop block never trip on a session only hooks write to (read_gate/gate.py:
\* "the normal path never trips this gate").
NothingUnread == \A s \in Sessions : Missing(bucket[s]) = {}

\* A stored receipt speaks of the current turn: a session with delivery
\* evidence has a receipt exactly when its last prompt was answered.  So the
\* receipt gate denies a genuinely broken turn, and nothing else.
ReceiptIsOfThisTurn ==
    \A s \in Sessions :
        bucket[s].seen =>
            (bucket[s].retrieved <=> turn[s].outcome \in {"served", "released"})

\* An active manifest lists something and belongs to a plan the session
\* wrote: with no entries path_allowed lets every path through, so an active
\* gate with an empty list would be open while it claims to be armed.
ManifestArmed ==
    \A s \in Sessions :
        bucket[s].active => bucket[s].entries # {} /\ bucket[s].plan # NoPlan

ManifestKept ==
    \A s \in Sessions :
        LET old == bucket[s].entries
            new == bucket'[s].entries
        IN  old # {} /\ s \in Listed(order') =>
                /\ old \subseteq new
                /\ \A e \in new \ old : e.justified

\* The touch set survives turns, parse failures and later saves: while the
\* session is stored no entry is lost, and once there are entries only
\* justified ones are added.
ManifestOnlyGrowsByJustification == [][ManifestKept]_gateVars

\* A cached plan is never ahead of its matches: the body an entry carries was
\* retrieved for, and all its matches are there.  (The unchanged-text check
\* would otherwise skip the retrieval for good.)
CacheNotAhead ==
    \A p \in PlanPaths :
        planEntry[p].body # NoBody => Hits[planEntry[p].body] \subseteq planEntry[p].matches

\* "function: the second mutating call in a turn is denied"
\* (edit_budget_gate/gate.py): at most one edit of a turn is applied.
OneEditPerTurn == granularity = "function" => \A s \in Sessions : turn[s].edits <= 1

\* "file: ... a second distinct file is denied" (edit_budget_gate/gate.py).
OneFilePerTurn ==
    granularity = "file" => \A s \in Sessions : Cardinality(turn[s].touched) <= 1

\* "every prompt grants a fresh budget" (edit_budget_gate/store.py): what the
\* budget has counted this turn was done in this turn.
BudgetIsOfThisTurn ==
    \A s \in Sessions :
        /\ bucket[s].mutations <= turn[s].edits
        /\ bucket[s].files \subseteq turn[s].touched

\* What the gates promise, as the abstract specification GatePromise.
Promise == INSTANCE GatePromise WITH
    Anywhere <- NoPlan,
    NoGrant <- NoSession,
    trust <- [s \in Sessions |->
                IF ~bucket[s].seen THEN "unknown"
                ELSE IF ReceiptGateDenies(bucket[s]) THEN "lost" ELSE "served"],
    scope <- [s \in Sessions |->
                IF bucket[s].active THEN {e.path : e \in bucket[s].entries} ELSE NoPlan],
    granted <- [c \in Calls |->
                IF call[c].gated THEN <<call[c].session, call[c].paths>> ELSE NoSession]

KeepsPromise == Promise!Spec
=============================================================================

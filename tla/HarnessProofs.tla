---------------------------- MODULE HarnessProofs ----------------------------
(***************************************************************************)
(* Theorems about the hooks together with the MCP tools, for every number  *)
(* of sessions of either kind, whether or not they share their ids.  Of a  *)
(* step only a few facts matter here: whether it begins a turn or blocks a *)
(* stop, and that every session it is not about keeps its latch and its    *)
(* receipts or is lost from the store.                                     *)
(***************************************************************************)
EXTENDS HarnessSessions, HookGatesProofs
-----------------------------------------------------------------------------
(* The hooks implement GatePromise: every behaviour of GateSpec, seen      *)
(* through the mapping at the end of HookGates, is one of the abstract     *)
(* specification, whatever the agent and the world around it do.  The      *)
(* mapping of a session is a function of its bucket, and that of a call a  *)
(* function of the call, so a handler is known by what it does to the      *)
(* trust and the scope of the one bucket it writes.                        *)

TrustOf(b) ==
    IF ~b.seen THEN "unknown" ELSE IF ReceiptGateDenies(b) THEN "lost" ELSE "served"
ScopeOf(b) == IF b.active THEN {e.path : e \in b.entries} ELSE NoPlan
GrantOf(k) == IF k.gated THEN <<k.session, k.paths>> ELSE NoSession

Looks(b, old) == TrustOf(b) = TrustOf(old) /\ ScopeOf(b) = ScopeOf(old)
-----------------------------------------------------------------------------
(* Buckets *)

\* A session the store does not hold is unknown and unscoped.
LEMMA EmptyLooks == TrustOf(EmptyBucket) = "unknown" /\ ScopeOf(EmptyBucket) = NoPlan
BY DEF EmptyBucket, TrustOf, ScopeOf

\* A delivery makes the session served and leaves its scope.
LEMMA DeliveredLooks ==
    ASSUME NEW old \in Bucket, NEW req \in SUBSET Skills
    PROVE  /\ TrustOf(Delivered(old, req)) = "served"
           /\ ScopeOf(Delivered(old, req)) = ScopeOf(old)
<1> DEFINE b == Delivered(old, req)
<1>1. b.seen /\ b.retrieved /\ b.active = old.active /\ b.entries = old.entries
  BY DEF Delivered, BeginTurn, Bucket
<1> HIDE DEF b
<1>2. QED BY <1>1 DEF TrustOf, ScopeOf, ReceiptGateDenies, b

\* A turn that only begins can lose a session that was served, never one
\* that is unknown.
LEMMA BeginTurnLooks ==
    ASSUME NEW old \in Bucket
    PROVE  /\ ScopeOf(BeginTurn(old)) = ScopeOf(old)
           /\ \/ TrustOf(BeginTurn(old)) = TrustOf(old)
              \/ TrustOf(BeginTurn(old)) = "lost" /\ TrustOf(old) # "unknown"
<1> DEFINE b == BeginTurn(old)
<1>1. /\ b.seen = old.seen /\ ~b.retrieved
      /\ b.active = old.active /\ b.entries = old.entries
  BY DEF BeginTurn, Bucket
<1> HIDE DEF b
<1>2. QED BY <1>1 DEF TrustOf, ScopeOf, ReceiptGateDenies, b

\* The same receipts are the same trust.
LEMMA SameTrust ==
    ASSUME NEW b, NEW old, b.seen = old.seen, b.retrieved = old.retrieved
    PROVE  TrustOf(b) = TrustOf(old)
BY DEF TrustOf, ReceiptGateDenies

\* A manifest that loses no entry is a scope that grows or is given up.
LEMMA GrowingScope ==
    ASSUME NEW old \in Bucket, NEW b, Rewrites(old, b)
    PROVE  \/ ScopeOf(old) = NoPlan
           \/ ScopeOf(b) = NoPlan
           \/ ScopeOf(old) \subseteq ScopeOf(b)
<1>1. old.entries \subseteq b.entries
  BY DEF Rewrites, Grows
<1>2. QED BY <1>1 DEF ScopeOf
-----------------------------------------------------------------------------
(* What the writes are in the abstract specification *)

\* A write empties other buckets or leaves them alone.
LEMMA OthersForgotten ==
    ASSUME StoreTypeOK, NEW s \in Sessions, NEW b \in Bucket, Write(s, b)
    PROVE  Promise!OthersMayBeForgotten(s)
<1>1. \A t \in Sessions \ {s} : bucket'[t] = bucket[t] \/ bucket'[t] = EmptyBucket
  BY WriteFacts
<1>2. QED
  BY <1>1, EmptyLooks DEF Promise!OthersMayBeForgotten, TrustOf, ScopeOf

\* A write that looks the same is an activity of its session.
LEMMA ActivityImplements ==
    ASSUME StoreTypeOK, NEW s \in Sessions, NEW b \in Bucket, Write(s, b),
           Looks(b, bucket[s]), UNCHANGED call
    PROVE  Promise!Activity(s)
<1>1. bucket'[s] = b /\ Promise!OthersMayBeForgotten(s)
  BY WriteFacts, OthersForgotten
<1>2. QED BY <1>1 DEF Promise!Activity, Looks, TrustOf, ScopeOf

\* A write that serves its session and keeps its scope is a delivery.
LEMMA DeliverImplements ==
    ASSUME StoreTypeOK, NEW s \in Sessions, NEW req \in SUBSET Skills,
           Write(s, Delivered(bucket[s], req)), UNCHANGED call
    PROVE  Promise!Deliver(s)
<1>1. bucket[s] \in Bucket
  BY DEF StoreTypeOK
<1>2. Delivered(bucket[s], req) \in Bucket
  BY <1>1, DeliveredRewrites DEF Rewrites
<1>3. /\ bucket'[s] = Delivered(bucket[s], req)
      /\ Promise!OthersMayBeForgotten(s)
  BY <1>2, WriteFacts, OthersForgotten
<1>4. /\ TrustOf(bucket'[s]) = "served"
      /\ ScopeOf(bucket'[s]) = ScopeOf(bucket[s])
  BY <1>1, <1>3, DeliveredLooks
<1>5. QED BY <1>3, <1>4 DEF Promise!Deliver, TrustOf, ScopeOf

\* A turn that only begins forgets no other session, since its own is stored:
\* it loses the session if it was served.
LEMMA BrokenImplements ==
    ASSUME TypeOK, StoreSound, NEW s \in Sessions, Stored(s),
           Write(s, BeginTurn(bucket[s])), UNCHANGED call
    PROVE  Promise!Lose(s) \/ Promise!Activity(s)
<1> DEFINE b == BeginTurn(bucket[s])
<1>1. bucket \in [Sessions -> Bucket] /\ order \in Seq(Sessions)
  BY DEF TypeOK, StoreTypeOK
<1>2. b \in Bucket
  BY <1>1, BeginTurnRewrites DEF Rewrites
<1>3. Listed(order') = Listed(order)
  <2>1. order' = Touched(order, s, MaxSessions) /\ s \in Listed(order)
        /\ RecencyList(order, MaxSessions)
    BY DEF Write, StoreSound, Stored
  <2>2. Listed(Touched(order, s, MaxSessions)) = Listed(order) \cup {s}
    BY <1>1, <2>1, TouchingLosesNone, StoreAssumption
  <2>3. QED BY <2>1, <2>2
<1>4. bucket' = [bucket EXCEPT ![s] = b]
  BY <1>1, <1>3 DEF Write, StoreSound, Stored
<1>5. CASE TrustOf(b) = TrustOf(bucket[s])
  BY <1>1, <1>2, <1>5, BeginTurnLooks, ActivityImplements DEF Looks, TypeOK
<1>6. CASE TrustOf(b) = "lost" /\ TrustOf(bucket[s]) # "unknown"
  <2>1. ScopeOf(b) = ScopeOf(bucket[s])
    BY <1>1, BeginTurnLooks
  <2> HIDE DEF b
  <2>2. bucket'[s] = b /\ \A t \in Sessions \ {s} : bucket'[t] = bucket[t]
    BY <1>1, <1>4
  <2>3. /\ TrustOf(bucket'[s]) = "lost"
        /\ \A t \in Sessions \ {s} : TrustOf(bucket'[t]) = TrustOf(bucket[t])
        /\ \A t \in Sessions : ScopeOf(bucket'[t]) = ScopeOf(bucket[t])
    BY <1>6, <2>1, <2>2
  <2>4. QED BY <1>6, <2>3 DEF Promise!Lose, TrustOf, ScopeOf
<1>7. QED BY <1>1, <1>5, <1>6, BeginTurnLooks

\* Clearing a session is its end.
LEMMA EndImplements ==
    ASSUME StoreTypeOK, NEW s \in Sessions, Clear(s), UNCHANGED call
    PROVE  Promise!End(s)
<1>1. bucket'[s] = EmptyBucket /\ \A t \in Sessions \ {s} : bucket'[t] = bucket[t]
  BY DEF StoreTypeOK, Clear
<1>2. /\ TrustOf(bucket'[s]) = "unknown" /\ ScopeOf(bucket'[s]) = NoPlan
      /\ \A t \in Sessions \ {s} : /\ TrustOf(bucket'[t]) = TrustOf(bucket[t])
                                   /\ ScopeOf(bucket'[t]) = ScopeOf(bucket[t])
  BY <1>1, EmptyLooks
<1>3. QED BY <1>2 DEF Promise!End, TrustOf, ScopeOf

\* A restart forgets every session.
LEMMA ForgetImplements ==
    ASSUME Forget, UNCHANGED call
    PROVE  Promise!ForgetAll
<1>1. \A t \in Sessions : TrustOf(bucket'[t]) = "unknown" /\ ScopeOf(bucket'[t]) = NoPlan
  BY EmptyLooks DEF Forget
<1>2. QED BY <1>1 DEF Promise!ForgetAll, TrustOf, ScopeOf

\* A gate that lets a call through grants it: the session is not lost, and
\* every path is a plan's or in the scope.
LEMMA GrantImplements ==
    ASSUME TypeOK, ManifestArmed, NEW s \in Sessions, NEW c \in Calls,
           NEW ps \in TouchSets, PreToolUse(c, s, ps)
    PROVE  Promise!Grant(c, s, ps)
<1>1. ~ReceiptGateDenies(bucket[s]) /\ ~ManifestGateDenies(bucket[s], ps)
  BY DEF PreToolUse, Denied
<1>2. TrustOf(bucket[s]) # "lost"
  BY <1>1 DEF TrustOf
<1>3. ScopeOf(bucket[s]) = NoPlan \/ ps \ PlanPaths \subseteq ScopeOf(bucket[s])
  BY <1>1 DEF ScopeOf, ManifestArmed, ManifestGateDenies, PathAllowed
<1>4. /\ call[c] = NoCall /\ UNCHANGED bucket
      /\ call' = [call EXCEPT ![c] = [session |-> s, paths |-> ps,
                                      phase |-> "running", gated |-> TRUE]]
  BY DEF PreToolUse, Start, storeVars
<1>5. /\ GrantOf(call[c]) = NoSession /\ GrantOf(call'[c]) = <<s, ps>>
      /\ \A d \in Calls \ {c} : call'[d] = call[d]
  BY <1>4 DEF TypeOK, NoCall, GrantOf
<1> DEFINE trust == [t \in Sessions |-> TrustOf(bucket[t])]
           scope == [t \in Sessions |-> ScopeOf(bucket[t])]
           granted == [d \in Calls |-> GrantOf(call[d])]
<1>6. granted[c] = NoSession /\ trust[s] # "lost" /\ Promise!Inside(ps, scope[s])
  BY <1>2, <1>3, <1>5 DEF Promise!Inside
<1>7. granted' = [granted EXCEPT ![c] = <<s, ps>>]
  BY <1>5
<1>8. UNCHANGED <<trust, scope>>
  BY <1>4
<1> HIDE DEF trust, scope, granted
<1>9. QED
  BY <1>6, <1>7, <1>8
     DEF Promise!Grant, trust, scope, granted, TrustOf, ScopeOf, GrantOf

\* The report of a call of session s retires it: it keeps the trust of its
\* session and lets the scope grow or go.
LEMMA ReportImplements ==
    ASSUME TypeOK, NEW c \in Calls, NEW s \in Sessions, s = call[c].session, Retire(c),
           Promise!OthersMayBeForgotten(s),
           TrustOf(bucket'[s]) = TrustOf(bucket[s]),
           \/ ScopeOf(bucket[s]) = NoPlan
           \/ ScopeOf(bucket'[s]) = NoPlan
           \/ ScopeOf(bucket[s]) \subseteq ScopeOf(bucket'[s])
    PROVE  Promise!Next
<1>1. /\ GrantOf(call'[c]) = NoSession
      /\ \A d \in Calls \ {c} : call'[d] = call[d]
      /\ GrantOf(call[c]) = NoSession \/ GrantOf(call[c])[1] = s
  BY DEF Retire, TypeOK, NoCall, GrantOf
<1>2. Promise!ScopeMayGrow(s)
  BY DEF Promise!ScopeMayGrow, ScopeOf
<1>3. Promise!Report(c, s)
  BY <1>1, <1>2 DEF Promise!Report, TrustOf, ScopeOf, GrantOf
<1>4. QED BY <1>3 DEF Promise!Next

\* A report that leaves the store alone.
LEMMA QuietReport ==
    ASSUME TypeOK, NEW c \in Calls, NEW s \in Sessions, s = call[c].session, Retire(c),
           UNCHANGED storeVars
    PROVE  Promise!Next
<1>1. /\ Promise!OthersMayBeForgotten(s)
      /\ TrustOf(bucket'[s]) = TrustOf(bucket[s])
      /\ ScopeOf(bucket'[s]) = ScopeOf(bucket[s])
  BY DEF storeVars, Promise!OthersMayBeForgotten
<1>2. QED BY <1>1, ReportImplements

\* A report that rewrites the bucket of its session and keeps its receipts.
LEMMA WritingReport ==
    ASSUME TypeOK, NEW c \in Calls, NEW s \in Sessions, s = call[c].session, Retire(c),
           NEW b \in Bucket, Write(s, b), Rewrites(bucket[s], b),
           b.seen = bucket[s].seen, b.retrieved = bucket[s].retrieved
    PROVE  Promise!Next
<1>1. bucket'[s] = b /\ Promise!OthersMayBeForgotten(s)
  BY WriteFacts, OthersForgotten DEF TypeOK
<1>2. TrustOf(b) = TrustOf(bucket[s])
  BY SameTrust
<1>3. bucket[s] \in Bucket
  BY DEF TypeOK, StoreTypeOK
<1>4. \/ ScopeOf(bucket[s]) = NoPlan
      \/ ScopeOf(b) = NoPlan
      \/ ScopeOf(bucket[s]) \subseteq ScopeOf(b)
  BY <1>3, GrowingScope
<1>5. QED BY <1>1, <1>2, <1>4, ReportImplements
-----------------------------------------------------------------------------
(* The refinement *)

\* A step of a session's hooks is a step of the promise or invisible in it.
LEMMA HookStepImplements ==
    ASSUME TypeOK, StoreSound, ManifestArmed, NEW s \in Sessions, HookStep(s) \/ Stop(s)
    PROVE  Promise!Next \/ UNCHANGED Promise!promiseVars
<1>1. StoreTypeOK /\ bucket[s] \in Bucket
  BY DEF TypeOK, StoreTypeOK
<1>2. CASE PromptServed(s)
  <2>0. PICK scored \in Scored(s) : \E req \in CapRequired(Forced, scored) :
            Write(s, Delivered(bucket[s], req))
    BY <1>2 DEF PromptServed
  <2>1. PICK req \in CapRequired(Forced, scored) : Write(s, Delivered(bucket[s], req))
    BY <2>0
  <2>2. req \in SUBSET Skills
    BY RequiredAreSkills
  <2>3. Promise!Deliver(s)
    BY <1>1, <1>2, <2>1, <2>2, DeliverImplements DEF PromptServed
  <2>4. QED BY <2>3 DEF Promise!Next
<1>3. CASE PromptReleased(s)
  <2>1. Promise!Deliver(s)
    BY <1>1, <1>3, DeliverImplements DEF PromptReleased
  <2>2. QED BY <2>1 DEF Promise!Next
<1>4. CASE PromptBroken(s)
  <2>1. CASE Stored(s)
    <3>1. Promise!Lose(s) \/ Promise!Activity(s)
      BY <1>4, <2>1, BrokenImplements DEF PromptBroken
    <3>2. QED BY <3>1 DEF Promise!Next
  <2>2. CASE ~Stored(s)
    BY <1>4, <2>2 DEF PromptBroken, storeVars, Promise!promiseVars
  <2>3. QED BY <2>1, <2>2
<1>5. CASE SessionEnd(s)
  <2>1. Promise!End(s)
    BY <1>1, <1>5, EndImplements DEF SessionEnd
  <2>2. QED BY <2>1 DEF Promise!Next
<1>6. ASSUME NEW c \in Calls, NEW ps \in TouchSets, PreToolUse(c, s, ps)
      PROVE  Promise!Next
  <2>1. Promise!Grant(c, s, ps)
    BY <1>6, GrantImplements
  <2>2. ps \in SUBSET (SourcePaths \cup PlanPaths)
    BY GateAssumption DEF Paths
  <2>3. QED BY <2>1, <2>2 DEF Promise!Next
<1>7. ASSUME NEW c \in Calls, NEW ps \in TouchSets, PreToolUseUnanswered(c, s, ps)
      PROVE  UNCHANGED Promise!promiseVars
  <2>1. UNCHANGED bucket /\ call[c] = NoCall
    BY <1>7 DEF PreToolUseUnanswered, Start, storeVars
  <2>2. \A d \in Calls : GrantOf(call'[d]) = GrantOf(call[d])
    BY <1>7, <2>1 DEF PreToolUseUnanswered, Start, TypeOK, NoCall, GrantOf
  <2>3. QED BY <2>1, <2>2 DEF Promise!promiseVars, GrantOf
<1>8. CASE Stop(s)
  <2> DEFINE b == [bucket[s] EXCEPT !.blocked = TRUE]
  <2>1. b \in Bucket /\ Write(s, b) /\ UNCHANGED call
    BY <1>1, <1>8, BlockedRewrites DEF Stop, Rewrites
  <2>2. /\ b.seen = bucket[s].seen /\ b.retrieved = bucket[s].retrieved
        /\ b.active = bucket[s].active /\ b.entries = bucket[s].entries
    BY <1>1 DEF Bucket
  <2> HIDE DEF b
  <2>3. Looks(b, bucket[s])
    BY <2>2, SameTrust DEF Looks, ScopeOf
  <2>4. Promise!Activity(s)
    BY <1>1, <2>1, <2>3, ActivityImplements
  <2>5. QED BY <2>4 DEF Promise!Next
<1>9. QED
  BY <1>2, <1>3, <1>4, <1>5, <1>6, <1>7, <1>8 DEF HookStep

\* A step of a tool is invisible, and its report is one of the promise.
LEMMA CallStepImplements ==
    ASSUME TypeOK, NEW c \in Calls, CallStep(c)
    PROVE  Promise!Next \/ UNCHANGED Promise!promiseVars
<1>1. call[c].session \in Sessions
  BY DEF CallStep, ToolApplies, ToolFails, PostToolUse, PostToolUseLost, PostPlanQuiet,
         PostPlanSurfaced, PostPlanAborted, PlanReport, Reported, TypeOK, Call
<1>2. PICK s \in Sessions : s = call[c].session
  BY <1>1
<1>3. bucket[s] \in Bucket
  BY DEF TypeOK, StoreTypeOK
<1>4. CASE ToolApplies(c) \/ ToolFails(c)
  <2>1. UNCHANGED bucket /\ \A d \in Calls : GrantOf(call'[d]) = GrantOf(call[d])
    <3>1. UNCHANGED bucket
      BY <1>4 DEF ToolApplies, ToolFails, storeVars
    <3>2. call \in [Calls -> Call]
      BY DEF TypeOK
    <3>3. \/ call' = [call EXCEPT ![c].phase = "applied"]
          \/ call' = [call EXCEPT ![c].phase = "failed"]
      BY <1>4 DEF ToolApplies, ToolFails
    <3>4. ASSUME NEW d \in Calls PROVE GrantOf(call'[d]) = GrantOf(call[d])
      <4>1. /\ call'[d].session = call[d].session /\ call'[d].paths = call[d].paths
            /\ call'[d].gated = call[d].gated
        BY <3>2, <3>3 DEF Call
      <4>2. QED BY <4>1 DEF GrantOf
    <3>5. QED BY <3>1, <3>4
  <2>2. QED BY <2>1 DEF Promise!promiseVars, GrantOf
<1>5. CASE PostToolUse(c)
  <2>1. CASE Counts(c)
    <3> DEFINE b == Recorded(bucket[s], c)
    <3>1. Retire(c) /\ Write(s, b)
      BY <1>2, <1>5, <2>1 DEF PostToolUse, Write
    <3>2. /\ b \in Bucket /\ Rewrites(bucket[s], b)
          /\ b.seen = bucket[s].seen /\ b.retrieved = bucket[s].retrieved
      BY <1>3, RecordedFacts DEF Rewrites, SamePlan, Missing, Armed, Grows
    <3> HIDE DEF b
    <3>3. QED BY <1>2, <3>1, <3>2, WritingReport
  <2>2. CASE ~Counts(c)
    BY <1>2, <1>5, <2>2, QuietReport DEF PostToolUse
  <2>3. QED BY <2>1, <2>2
<1>6. ASSUME NEW p \in PlanPaths, NEW body \in Bodies, NEW full \in BOOLEAN,
             PostPlanQuiet(c, p, body, full)
      PROVE  Promise!Next
  <2> DEFINE b == AfterPlanChain(c, p, body, full)
  <2>1. Retire(c) /\ Write(s, b)
    BY <1>2, <1>6 DEF PostPlanQuiet, PlanReport, Write
  <2>2. /\ Rewrites(bucket[s], b) /\ b \in Bucket
        /\ b.seen = bucket[s].seen /\ b.retrieved = bucket[s].retrieved
    BY <1>2, AfterPlanChainFacts DEF Rewrites
  <2> HIDE DEF b
  <2>3. QED BY <1>2, <2>1, <2>2, WritingReport
<1>7. ASSUME NEW p \in PlanPaths, NEW body \in Bodies, PostPlanSurfaced(c, p, body)
      PROVE  Promise!Next
  <2> DEFINE b == AfterPlanChain(c, p, body, TRUE)
  <2>1. PICK ids \in Surfaced(p, body) :
            Write(s, [b EXCEPT !.required = @ \cup ids, !.read = @ \cup ids])
    BY <1>2, <1>7 DEF PostPlanSurfaced, Write
  <2>2. ids \in SUBSET Skills
    BY GateAssumption DEF Surfaced, NewMatches
  <2>3. /\ Rewrites(bucket[s], b) /\ b \in Bucket
        /\ b.seen = bucket[s].seen /\ b.retrieved = bucket[s].retrieved
    BY <1>2, AfterPlanChainFacts DEF Rewrites
  <2> DEFINE d == [b EXCEPT !.required = b.required \cup ids, !.read = b.read \cup ids]
  <2> HIDE DEF b
  <2>4. /\ Rewrites(bucket[s], d) /\ d \in Bucket
        /\ d.seen = b.seen /\ d.retrieved = b.retrieved
    <3>1. Rewrites(bucket[s], d) /\ d.retrieved = b.retrieved /\ d.seen = b.seen
      BY <2>2, <2>3, ServedRewrites
    <3>2. QED BY <3>1 DEF Rewrites
  <2>5. Write(s, d) /\ Retire(c)
    BY <1>7, <2>1 DEF PostPlanSurfaced, PlanReport
  <2> HIDE DEF d
  <2>6. QED BY <1>2, <2>3, <2>4, <2>5, WritingReport
<1>8. CASE PostToolUseLost(c)
  BY <1>2, <1>8, QuietReport DEF PostToolUseLost
<1>9. ASSUME NEW p \in PlanPaths, NEW body \in Bodies, PostPlanAborted(c, p, body)
      PROVE  Promise!Next
  BY <1>2, <1>9, QuietReport DEF PostPlanAborted, PlanReport
<1>10. QED
  BY <1>4, <1>5, <1>6, <1>7, <1>8, <1>9 DEF CallStep

\* The store and the calls start as nobody known and nothing granted.
LEMMA GateInitImplements == GateInit => Promise!Init
<1>1. ASSUME GateInit PROVE Promise!Init
  <2>1. /\ \A t \in Sessions : bucket[t] = EmptyBucket
        /\ \A c \in Calls : ~call[c].gated
    BY <1>1 DEF GateInit, StoreInit, NoCall
  <2>2. \A t \in Sessions : ~bucket[t].seen /\ ~bucket[t].active
    BY <2>1 DEF EmptyBucket
  <2>3. QED BY <2>1, <2>2 DEF Promise!Init
<1>2. QED BY <1>1

\* The hooks implement the promise: they grant a call only to a session that
\* is not lost and only inside its scope, lose only what was served, let a
\* scope only grow or go, and forget a session only for another one.
THEOREM GatesKeepTheirPromise == GateSpec => KeepsPromise
<1>1. GateInit => Promise!Init
  BY GateInitImplements
<1>2. TypeOK /\ StoreSound /\ ManifestArmed /\ [GateNext]_gateVars
        => [Promise!Next]_(Promise!promiseVars)
  <2>1. ASSUME TypeOK, StoreSound, ManifestArmed, GateNext
        PROVE  Promise!Next \/ UNCHANGED Promise!promiseVars
    <3>1. CASE Restart
      <4>1. Promise!ForgetAll
        BY <3>1, ForgetImplements DEF Restart
      <4>2. QED BY <4>1 DEF Promise!Next
    <3>2. QED BY <2>1, <3>1, HookStepImplements, CallStepImplements DEF GateNext
  <2>2. ASSUME UNCHANGED gateVars PROVE UNCHANGED Promise!promiseVars
    BY <2>2 DEF gateVars, Promise!promiseVars
  <2>3. QED BY <2>1, <2>2
<1>3. QED
  BY <1>1, <1>2, Typing, StoreStaysSound, ManifestStaysArmed, PTL
     DEF GateSpec, KeepsPromise, Promise!Spec
-----------------------------------------------------------------------------

HarnessTypeOK ==
    /\ TypeOK
    /\ StoreSound
    /\ query \in [Queries -> McpSessions \cup {NoSession}]

KeepsLatch(old, b) ==
    b.blocked = old.blocked /\ b.seen = old.seen /\ (old.retrieved => b.retrieved)

\* A session a step is not about, or one whose turn goes on.
Kept(t) ==
    /\ turn'[t].stops = turn[t].stops /\ turn'[t].outcome = turn[t].outcome
    /\ t \in Listed(order') => KeepsLatch(bucket[t], bucket'[t])

Begun(s) ==
    /\ s \in HookSessions /\ turn'[s].stops = 0
    /\ bucket'[s].seen => bucket'[s].retrieved \/ turn'[s].outcome = "broken"

Blocks(s) ==
    /\ ~bucket[s].blocked /\ bucket'[s].blocked /\ s \in Listed(order')
    /\ bucket'[s].seen = bucket[s].seen /\ bucket'[s].retrieved = bucket[s].retrieved
    /\ turn'[s].outcome = turn[s].outcome
    /\ turn'[s].stops = Smaller(2, turn[s].stops + 1)

TurnStep ==
    \/ \A t \in Sessions : Kept(t)
    \/ \E s \in Sessions :
            /\ Begun(s) \/ Blocks(s)
            /\ \A t \in Sessions \ {s} : Kept(t)
-----------------------------------------------------------------------------
(* Types *)

\* The writes of the MCP tools.
McpBucket(old, b) ==
    \/ b = [old EXCEPT !.retrieved = TRUE]
    \/ \E ids \in SUBSET Skills : b = [old EXCEPT !.required = old.required \cup ids]
    \/ \E k \in Skills : b = [old EXCEPT !.required = old.required \ {k},
                                         !.read = old.read \cup {k}]
    \/ \E ids \in SUBSET Skills : b = [old EXCEPT !.read = old.read \cup ids]

McpStep ==
    /\ UNCHANGED <<cacheVars, call, turn>>
    /\ \/ UNCHANGED storeVars
       \/ \E m \in McpSessions : \E b : McpBucket(bucket[m], b) /\ Write(m, b)

LEMMA McpBucketFacts ==
    ASSUME NEW old \in Bucket, NEW b, McpBucket(old, b)
    PROVE  b \in Bucket /\ KeepsLatch(old, b)
<1>1. CASE b = [old EXCEPT !.retrieved = TRUE]
  BY <1>1 DEF Bucket, KeepsLatch
<1>2. ASSUME NEW ids \in SUBSET Skills, b = [old EXCEPT !.required = old.required \cup ids]
      PROVE  b \in Bucket /\ KeepsLatch(old, b)
  BY <1>2 DEF Bucket, KeepsLatch
<1>3. ASSUME NEW k \in Skills, b = [old EXCEPT !.required = old.required \ {k},
                                              !.read = old.read \cup {k}]
      PROVE  b \in Bucket /\ KeepsLatch(old, b)
  BY <1>3 DEF Bucket, KeepsLatch
<1>4. ASSUME NEW ids \in SUBSET Skills, b = [old EXCEPT !.read = old.read \cup ids]
      PROVE  b \in Bucket /\ KeepsLatch(old, b)
  BY <1>4 DEF Bucket, KeepsLatch
<1>5. QED BY <1>1, <1>2, <1>3, <1>4 DEF McpBucket

LEMMA McpActivityIsMcpStep ==
    ASSUME HarnessTypeOK, McpActivity
    PROVE  McpStep /\ query' \in [Queries -> McpSessions \cup {NoSession}]
<1> DEFINE Types == query' \in [Queries -> McpSessions \cup {NoSession}]
<1>1. query \in [Queries -> McpSessions \cup {NoSession}]
  BY DEF HarnessTypeOK
<1>2. ASSUME NEW m \in McpSessions, QueryFails(m) PROVE McpStep /\ Types
  BY <1>1, <1>2 DEF QueryFails, Marked, McpStep, McpBucket
<1>3. ASSUME NEW m \in McpSessions, GetPlanSkills(m) PROVE McpStep /\ Types
  BY <1>1, <1>3 DEF GetPlanSkills, McpStep, McpBucket
<1>4. ASSUME NEW m \in McpSessions, NEW q \in Queries, QueryStart(q, m)
      PROVE  McpStep /\ Types
  BY <1>1, <1>4 DEF QueryStart, Marked, McpStep, McpBucket
<1>5. ASSUME NEW m \in McpSessions, NEW k \in Skills, GetSkill(m, k)
      PROVE  McpStep /\ Types
  BY <1>1, <1>5 DEF GetSkill, McpStep, McpBucket
<1>6. ASSUME NEW q \in Queries, QueryFinish(q) PROVE McpStep /\ Types
  <2>1. PICK m \in McpSessions : m = query[q]
    BY <1>1, <1>6 DEF QueryFinish
  <2>2. QED BY <1>1, <1>6, <2>1 DEF QueryFinish, McpStep, McpBucket
<1>7. ASSUME NEW q \in Queries, QueryEnds(q) PROVE McpStep /\ Types
  BY <1>1, <1>7 DEF QueryEnds, gateVars, McpStep, storeVars, cacheVars
<1>8. QED BY <1>2, <1>3, <1>4, <1>5, <1>6, <1>7 DEF McpActivity

\* A write of any bucket keeps the store sound.
LEMMA WriteStaysSound ==
    ASSUME StoreTypeOK, StoreSound, NEW s \in Sessions, NEW b \in Bucket, Write(s, b)
    PROVE  StoreSound'
BY WriteFacts DEF StoreSound, Stored, RecencyList

LEMMA McpKeepsTypes ==
    ASSUME HarnessTypeOK, McpStep, UNCHANGED granularity
    PROVE  (TypeOK /\ StoreSound)'
<1>1. StoreTypeOK' /\ StoreSound'
  <2>1. CASE UNCHANGED storeVars
    BY <2>1 DEF HarnessTypeOK, TypeOK, StoreTypeOK, StoreSound, Stored, storeVars
  <2>2. ASSUME NEW m \in McpSessions, NEW b, McpBucket(bucket[m], b), Write(m, b)
        PROVE  StoreTypeOK' /\ StoreSound'
    <3>1. m \in Sessions /\ bucket[m] \in Bucket
      BY HarnessAssumption DEF HarnessTypeOK, TypeOK, StoreTypeOK
    <3>2. b \in Bucket
      BY <2>2, <3>1, McpBucketFacts
    <3>3. QED BY <2>2, <3>1, <3>2, WriteFacts, WriteStaysSound DEF HarnessTypeOK, TypeOK
  <2>3. QED BY <2>1, <2>2 DEF McpStep
<1>2. QED BY <1>1 DEF McpStep, HarnessTypeOK, TypeOK, CacheTypeOK, cacheVars

\* A step of the hooks in the composition is a step of HookGates.
LEMMA HookStepsAreGateSteps ==
    /\ HookActivity /\ UNCHANGED granularity => GateNext
    /\ Restart => GateNext
BY HarnessAssumption DEF HookActivity, GateNext

LEMMA HarnessTypes == HarnessSpec => []HarnessTypeOK
<1>1. HarnessInit => HarnessTypeOK
  <2>1. GateInit => TypeOK /\ StoreSound
    BY ForgetFacts, EmptyCacheTypes
       DEF GateInit, TypeOK, NoCall, Call, CallPhases, NewTurn, Turn
  <2>2. QED BY <2>1 DEF HarnessInit, HarnessTypeOK
<1>2. ASSUME HarnessTypeOK, [HarnessNext]_harnessVars PROVE HarnessTypeOK'
  <2>1. ASSUME GateNext PROVE (TypeOK /\ StoreSound)'
    <3>1. StoreTypeOK' /\ StoreSound'
      BY <1>2, <2>1, StepRewrites, StoreStepTypes, StoreStepSound
         DEF HarnessTypeOK, TypeOK
    <3>2. granularity' \in Granularities
      BY <1>2, <2>1 DEF HarnessTypeOK, TypeOK, GateNext, Restart
    <3>3. QED
      BY <1>2, <2>1, <3>1, <3>2, StepCacheTypes, StepAgentTypes DEF HarnessTypeOK, TypeOK
  <2>2. CASE HookActivity /\ UNCHANGED granularity
    BY <1>2, <2>1, <2>2, HookStepsAreGateSteps DEF HookActivity, HarnessTypeOK
  <2>3. CASE McpActivity /\ UNCHANGED granularity
    BY <1>2, <2>3, McpActivityIsMcpStep, McpKeepsTypes DEF HarnessTypeOK
  <2>4. CASE HarnessRestart
    BY <1>2, <2>1, <2>4, HookStepsAreGateSteps DEF HarnessRestart, HarnessTypeOK
  <2>5. CASE UNCHANGED harnessVars
    <3>1. UNCHANGED gateVars /\ UNCHANGED query
      BY <2>5 DEF harnessVars
    <3>2. (TypeOK /\ StoreSound)'
      BY <1>2, <3>1 DEF gateVars, HarnessTypeOK, TypeOK, StoreTypeOK, CacheTypeOK,
                        StoreSound, Stored
    <3>3. QED BY <1>2, <3>1, <3>2 DEF HarnessTypeOK
  <2>6. QED BY <1>2, <2>2, <2>3, <2>4, <2>5 DEF HarnessNext
<1>3. QED BY <1>1, <1>2, PTL DEF HarnessSpec
-----------------------------------------------------------------------------
(* What is left unread *)

Finishes(t) == \E q \in Queries : query[q] = t /\ query'[q] = NoSession

\* A write that leaves nothing more unread in its own session leaves nothing
\* more in any.
LEMMA WriteLeavesUnread ==
    ASSUME HarnessTypeOK, NEW m \in Sessions, NEW b \in Bucket, Write(m, b),
           NEW t \in Sessions, t = m => Missing(b) \subseteq Missing(bucket[m])
    PROVE  Missing(bucket'[t]) \subseteq Missing(bucket[t])
<1>1. Missing(EmptyBucket) = {}
  BY DEF EmptyBucket, Missing
<1>2. /\ bucket'[m] = b
      /\ t # m => bucket'[t] = bucket[t] \/ bucket'[t] = EmptyBucket
  BY WriteFacts DEF HarnessTypeOK, TypeOK
<1>3. CASE t = m
  BY <1>2, <1>3
<1>4. CASE t # m
  BY <1>1, <1>2, <1>4
<1>5. QED BY <1>3, <1>4

LEMMA McpLeavesUnread ==
    ASSUME HarnessTypeOK, McpActivity, NEW t \in Sessions
    PROVE  Missing(bucket'[t]) \subseteq Missing(bucket[t]) \/ Finishes(t)
<1> DEFINE Fewer(m, b) == Missing(b) \subseteq Missing(bucket[m])
<1>1. /\ \A m \in McpSessions : m \in Sessions /\ bucket[m] \in Bucket
      /\ query \in [Queries -> McpSessions \cup {NoSession}]
  BY HarnessAssumption DEF HarnessTypeOK, TypeOK, StoreTypeOK
<1>2. ASSUME NEW m \in McpSessions, NEW b, McpBucket(bucket[m], b), Write(m, b), Fewer(m, b)
      PROVE  Missing(bucket'[t]) \subseteq Missing(bucket[t])
  <2>1. m \in Sessions /\ b \in Bucket
    BY <1>1, <1>2, McpBucketFacts
  <2>2. QED BY <1>2, <2>1, WriteLeavesUnread
<1>3. ASSUME NEW m \in McpSessions
      PROVE  /\ McpBucket(bucket[m], Marked(m)) /\ Fewer(m, Marked(m))
  BY <1>1 DEF McpBucket, Marked, Missing, Bucket
<1>4. ASSUME NEW m \in McpSessions, QueryFails(m) \/ \E q \in Queries : QueryStart(q, m)
      PROVE  Missing(bucket'[t]) \subseteq Missing(bucket[t])
  BY <1>2, <1>3, <1>4 DEF QueryFails, QueryStart
<1>5. ASSUME NEW m \in McpSessions, GetPlanSkills(m)
      PROVE  Missing(bucket'[t]) \subseteq Missing(bucket[t])
  <2>1. PICK ids \in SUBSET Skills : Write(m, [bucket[m] EXCEPT !.read = bucket[m].read \cup ids])
    BY <1>5 DEF GetPlanSkills
  <2> DEFINE b == [bucket[m] EXCEPT !.read = bucket[m].read \cup ids]
  <2>2. McpBucket(bucket[m], b)
    BY DEF McpBucket
  <2>3. Fewer(m, b)
    BY <1>1 DEF Missing, Bucket
  <2> HIDE DEF b, Fewer
  <2>4. QED BY <1>2, <2>1, <2>2, <2>3 DEF b
<1>6. ASSUME NEW m \in McpSessions, NEW k \in Skills, GetSkill(m, k)
      PROVE  Missing(bucket'[t]) \subseteq Missing(bucket[t])
  <2> DEFINE b == [bucket[m] EXCEPT !.required = bucket[m].required \ {k},
                                    !.read = bucket[m].read \cup {k}]
  <2>1. Write(m, b)
    BY <1>6 DEF GetSkill
  <2>2. McpBucket(bucket[m], b)
    BY DEF McpBucket
  <2>3. Fewer(m, b)
    BY <1>1 DEF Missing, Bucket
  <2> HIDE DEF b, Fewer
  <2>4. QED BY <1>2, <2>1, <2>2, <2>3
<1>7. ASSUME NEW q \in Queries, QueryFinish(q)
      PROVE  Missing(bucket'[t]) \subseteq Missing(bucket[t]) \/ Finishes(t)
  <2>1. PICK m \in McpSessions : m = query[q]
    BY <1>1, <1>7 DEF QueryFinish
  <2>2. query'[q] = NoSession
    BY <1>1, <1>7 DEF QueryFinish
  <2>3. CASE t = m
    BY <2>1, <2>2, <2>3 DEF Finishes
  <2>4. CASE t # m
    <3>1. PICK ids \in SUBSET Skills :
            Write(m, [bucket[m] EXCEPT !.required = bucket[m].required \cup ids])
      BY <1>7, <2>1 DEF QueryFinish
    <3> DEFINE b == [bucket[m] EXCEPT !.required = bucket[m].required \cup ids]
    <3>2. b \in Bucket /\ m \in Sessions
      BY <1>1 DEF Bucket
    <3> HIDE DEF b
    <3>3. QED BY <2>4, <3>1, <3>2, WriteLeavesUnread DEF b
  <2>5. QED BY <2>3, <2>4
<1>8. ASSUME NEW q \in Queries, QueryEnds(q)
      PROVE  Missing(bucket'[t]) \subseteq Missing(bucket[t])
  BY <1>8 DEF QueryEnds, gateVars
<1>9. QED BY <1>4, <1>5, <1>6, <1>7, <1>8 DEF McpActivity

\* Whatever arms the read gate is a query_skills call that finishes in that
\* session: the turns and evictions the call was suspended over, the hooks' own
\* deliveries and every other tool leave nothing unread.
THEOREM UnreadComesFromQueries == HarnessSpec => OnlyQueriesLeaveUnread
<1>1. ASSUME HarnessTypeOK, [HarnessNext]_harnessVars, NEW t \in Sessions
      PROVE  Missing(bucket'[t]) \subseteq Missing(bucket[t]) \/ Finishes(t)
  <2>1. Missing(EmptyBucket) = {}
    BY DEF EmptyBucket, Missing
  <2>2. ASSUME [GateNext]_gateVars PROVE Missing(bucket'[t]) \subseteq Missing(bucket[t])
    <3>1. \/ bucket'[t] = bucket[t]
          \/ bucket'[t] = EmptyBucket /\ t \notin Listed(order')
          \/ Rewrites(bucket[t], bucket'[t])
      BY <1>1, <2>2, StepOnBucket DEF HarnessTypeOK
    <3>2. QED BY <2>1, <3>1 DEF Rewrites
  <2>3. CASE HarnessNext
    <3>1. ((HookActivity \/ McpActivity) /\ UNCHANGED granularity) \/ Restart
      BY <2>3 DEF HarnessNext, HarnessRestart
    <3>2. QED BY <1>1, <2>2, <3>1, HookStepsAreGateSteps, McpLeavesUnread
  <2>4. CASE UNCHANGED harnessVars
    BY <2>4 DEF harnessVars, gateVars
  <2>5. QED BY <1>1, <2>3, <2>4
<1>2. ASSUME HarnessTypeOK, [HarnessNext]_harnessVars
      PROVE  \A s \in Sessions :
                Missing(bucket'[s]) \subseteq Missing(bucket[s])
                \/ \E q \in Queries : query[q] = s /\ query'[q] = NoSession
  BY <1>1, <1>2 DEF Finishes
<1>3. QED BY <1>2, HarnessTypes, PTL DEF HarnessSpec, OnlyQueriesLeaveUnread
-----------------------------------------------------------------------------
(* What every step does to latches and receipts *)

\* A write for one session leaves the others as they are, or they are lost.
LEMMA WriteKeepsOthers ==
    ASSUME TypeOK, NEW s \in Sessions, NEW b \in Bucket, Write(s, b),
           NEW t \in Sessions \ {s},
           turn'[t].stops = turn[t].stops, turn'[t].outcome = turn[t].outcome
    PROVE  Kept(t)
BY WriteFacts DEF TypeOK, Kept, KeepsLatch

\* A write that keeps the latch of its session, in a step that keeps the turns.
LEMMA WriteKeeps ==
    ASSUME TypeOK, NEW s \in Sessions, NEW b \in Bucket, Write(s, b),
           KeepsLatch(bucket[s], b), UNCHANGED turn
    PROVE  TurnStep
<1>1. Kept(s)
  BY WriteFacts DEF TypeOK, Kept
<1>2. \A t \in Sessions \ {s} : Kept(t)
  BY WriteKeepsOthers
<1>3. QED BY <1>1, <1>2 DEF TurnStep

\* A step that leaves the buckets alone.
LEMMA SameBuckets ==
    ASSUME UNCHANGED bucket,
           \A t \in Sessions : turn'[t].stops = turn[t].stops
                               /\ turn'[t].outcome = turn[t].outcome
    PROVE  TurnStep
BY DEF TurnStep, Kept, KeepsLatch

\* Recording an edit and capturing a manifest leave the latch alone.
LEMMA ReportKeepsLatch ==
    ASSUME TypeOK, NEW c \in Calls, NEW s \in Sessions, call[c].session = s
    PROVE  /\ Recorded(bucket[s], c) \in Bucket
           /\ KeepsLatch(bucket[s], Recorded(bucket[s], c))
           /\ \A p \in PlanPaths, body \in Bodies, full \in BOOLEAN :
                /\ AfterPlanChain(c, p, body, full) \in Bucket
                /\ KeepsLatch(bucket[s], AfterPlanChain(c, p, body, full))
<1>1. bucket[s] \in Bucket
  BY DEF TypeOK, StoreTypeOK
<1>2. ASSUME NEW b \in Bucket
      PROVE  Recorded(b, c) \in Bucket /\ Recorded(b, c).blocked = b.blocked
  <2>1. Recorded(b, c) \in Bucket
    BY RecordedFacts
  <2>2. Recorded(b, c).blocked = b.blocked
    BY DEF Recorded, Bucket
  <2>3. QED BY <2>1, <2>2
<1>3. Recorded(bucket[s], c) \in Bucket /\ KeepsLatch(bucket[s], Recorded(bucket[s], c))
  BY <1>1, <1>2, RecordedFacts DEF KeepsLatch
<1>4. ASSUME NEW p \in PlanPaths, NEW body \in Bodies, NEW full \in BOOLEAN
      PROVE  /\ AfterPlanChain(c, p, body, full) \in Bucket
             /\ KeepsLatch(bucket[s], AfterPlanChain(c, p, body, full))
  <2> DEFINE old == bucket[s]
             mid == Captured(old, body, full)
             rec == Recorded(mid, c)
             b == AfterPlanChain(c, p, body, full)
  <2>1. /\ b \in Bucket /\ b = [rec EXCEPT !.plan = p]
        /\ b.retrieved = old.retrieved /\ b.seen = old.seen
    BY AfterPlanChainFacts DEF AfterPlanChain, Rewrites
  <2>2. mid \in Bucket /\ mid.blocked = old.blocked
    <3>1. mid \in Bucket
      BY <1>1, CapturedFacts
    <3>2. mid.blocked = old.blocked
      <4> HIDE DEF old
      <4>1. QED BY <1>1 DEF Captured, Bucket, old
    <3>3. QED BY <3>1, <3>2
  <2>3. rec \in Bucket /\ rec.blocked = mid.blocked
    BY <1>2, <2>2
  <2>4. b.blocked = rec.blocked
    <3> HIDE DEF rec, b
    <3>1. QED BY <2>1, <2>3 DEF Bucket
  <2>5. QED BY <2>1, <2>2, <2>3, <2>4 DEF KeepsLatch
<1>5. QED BY <1>3, <1>4

\* A turn that begins with a write for its session.
LEMMA BegunByWriting ==
    ASSUME TypeOK, NEW s \in HookSessions, NEW b \in Bucket, Write(s, b),
           NEW how, turn' = [turn EXCEPT ![s] = NewTurn(how)],
           b.seen => b.retrieved \/ how = "broken"
    PROVE  TurnStep
<1>1. s \in Sessions /\ bucket'[s] = b
  BY WriteFacts, HarnessAssumption DEF TypeOK
<1>2. /\ turn'[s].stops = 0 /\ turn'[s].outcome = how
      /\ \A t \in Sessions \ {s} : turn'[t] = turn[t]
  BY <1>1 DEF TypeOK, NewTurn
<1>3. \A t \in Sessions \ {s} : Kept(t)
  BY <1>1, <1>2, WriteKeepsOthers
<1>4. QED BY <1>1, <1>2, <1>3 DEF TurnStep, Begun

LEMMA HookStepTurns ==
    ASSUME TypeOK, StoreSound, NEW s \in HookSessions, HookStep(s)
    PROVE  TurnStep
<1>1. s \in Sessions /\ bucket[s] \in Bucket
  BY HarnessAssumption DEF TypeOK, StoreTypeOK
<1>2. CASE PromptServed(s)
  <2>1. PICK scored \in Scored(s) : \E req \in CapRequired(Forced, scored) :
            Write(s, Delivered(bucket[s], req))
    BY <1>2 DEF PromptServed
  <2>2. PICK req \in CapRequired(Forced, scored) : Write(s, Delivered(bucket[s], req))
    BY <2>1
  <2>3. /\ Delivered(bucket[s], req) \in Bucket
        /\ Delivered(bucket[s], req).retrieved
    BY <1>1, RequiredAreSkills DEF Delivered, BeginTurn, Bucket
  <2>4. QED BY <1>2, <2>2, <2>3, BegunByWriting DEF PromptServed
<1>3. CASE PromptReleased(s)
  <2>1. /\ Delivered(bucket[s], {}) \in Bucket
        /\ Delivered(bucket[s], {}).retrieved
    BY <1>1 DEF Delivered, BeginTurn, Bucket
  <2>2. QED BY <1>3, <2>1, BegunByWriting DEF PromptReleased
<1>4. CASE PromptBroken(s)
  <2>1. CASE Stored(s)
    <3>1. BeginTurn(bucket[s]) \in Bucket
      BY <1>1 DEF BeginTurn, Bucket
    <3>2. QED BY <1>4, <2>1, <3>1, BegunByWriting DEF PromptBroken
  <2>2. CASE ~Stored(s)
    <3>1. bucket' = bucket /\ ~bucket[s].seen
      BY <1>1, <1>4, <2>2 DEF PromptBroken, storeVars, StoreSound, EmptyBucket
    <3>2. turn'[s].stops = 0 /\ \A t \in Sessions \ {s} : turn'[t] = turn[t]
      BY <1>1, <1>4 DEF PromptBroken, TypeOK, NewTurn
    <3>3. Begun(s) /\ \A t \in Sessions \ {s} : Kept(t)
      BY <3>1, <3>2 DEF Begun, Kept, KeepsLatch
    <3>4. QED BY <1>1, <3>3 DEF TurnStep
  <2>3. QED BY <2>1, <2>2
<1>5. CASE SessionEnd(s)
  <2>1. bucket' = [bucket EXCEPT ![s] = EmptyBucket]
    BY <1>5 DEF SessionEnd, Clear
  <2>2. /\ ~bucket'[s].seen
        /\ \A t \in Sessions \ {s} : bucket'[t] = bucket[t]
    BY <1>1, <2>1 DEF TypeOK, StoreTypeOK, EmptyBucket
  <2>3. turn'[s].stops = 0 /\ \A t \in Sessions \ {s} : turn'[t] = turn[t]
    BY <1>1, <1>5 DEF SessionEnd, TypeOK, NewTurn
  <2>4. Begun(s) /\ \A t \in Sessions \ {s} : Kept(t)
    BY <2>2, <2>3 DEF Begun, Kept, KeepsLatch
  <2>5. QED BY <1>1, <2>4 DEF TurnStep
<1>6. ASSUME NEW c \in Calls, NEW ps \in TouchSets,
             PreToolUse(c, s, ps) \/ PreToolUseUnanswered(c, s, ps)
      PROVE  TurnStep
  BY <1>6, SameBuckets DEF PreToolUse, PreToolUseUnanswered, Start, storeVars
<1>7. QED BY <1>2, <1>3, <1>4, <1>5, <1>6 DEF HookStep

LEMMA StopTurns ==
    ASSUME TypeOK, NEW s \in HookSessions, Stop(s)
    PROVE  TurnStep
<1> DEFINE b == [bucket[s] EXCEPT !.blocked = TRUE]
<1>1. s \in Sessions /\ bucket[s] \in Bucket /\ turn[s] \in Turn
  BY HarnessAssumption DEF TypeOK, StoreTypeOK
<1>2. /\ b \in Bucket /\ b.blocked
      /\ b.seen = bucket[s].seen /\ b.retrieved = bucket[s].retrieved
  BY <1>1 DEF Bucket
<1>3. Write(s, b) /\ ~bucket[s].blocked
  BY DEF Stop, StopBlocks
<1>4. turn' = [turn EXCEPT ![s].stops = Smaller(2, @ + 1)]
  BY DEF Stop
<1>5. /\ turn'[s].stops = Smaller(2, turn[s].stops + 1)
      /\ turn'[s].outcome = turn[s].outcome
      /\ \A t \in Sessions \ {s} : turn'[t] = turn[t]
  BY <1>1, <1>4 DEF TypeOK, Turn
<1> HIDE DEF b
<1>6. bucket'[s] = b /\ s \in Listed(order')
  BY <1>1, <1>2, <1>3, WriteFacts DEF TypeOK
<1>7. \A t \in Sessions \ {s} : Kept(t)
  BY <1>1, <1>2, <1>3, <1>5, WriteKeepsOthers
<1>8. QED BY <1>1, <1>2, <1>3, <1>5, <1>6, <1>7 DEF TurnStep, Blocks

LEMMA CallStepTurns ==
    ASSUME TypeOK, NEW c \in Calls, CallStep(c)
    PROVE  TurnStep
<1>1. ASSUME Reported(c)
      PROVE  \E s \in Sessions : call[c].session = s
  BY <1>1 DEF Reported, TypeOK, Call
<1>2. CASE ToolApplies(c)
  <2>1. \A t \in Sessions : /\ turn'[t].stops = turn[t].stops
                            /\ turn'[t].outcome = turn[t].outcome
    BY <1>2 DEF ToolApplies, TypeOK, Turn
  <2>2. QED BY <1>2, <2>1, SameBuckets DEF ToolApplies, storeVars
<1>3. CASE ToolFails(c) \/ PostToolUseLost(c)
  BY <1>3, SameBuckets DEF ToolFails, PostToolUseLost, Retire, storeVars
<1>4. CASE PostToolUse(c)
  <2>1. Reported(c) /\ UNCHANGED turn
    BY <1>4 DEF PostToolUse, Retire
  <2>2. PICK s \in Sessions : call[c].session = s
    BY <1>1, <2>1
  <2>3. CASE Counts(c)
    BY <1>4, <2>1, <2>2, <2>3, ReportKeepsLatch, WriteKeeps DEF PostToolUse
  <2>4. CASE ~Counts(c)
    BY <1>4, <2>1, <2>4, SameBuckets DEF PostToolUse, storeVars
  <2>5. QED BY <2>3, <2>4
<1>5. ASSUME NEW p \in PlanPaths, NEW body \in Bodies, NEW full \in BOOLEAN,
             PostPlanQuiet(c, p, body, full)
      PROVE  TurnStep
  <2>1. Reported(c) /\ UNCHANGED turn
    BY <1>5 DEF PostPlanQuiet, PlanReport, Retire
  <2>2. PICK s \in Sessions : call[c].session = s
    BY <1>1, <2>1
  <2>3. Write(s, AfterPlanChain(c, p, body, full))
    BY <1>5, <2>2 DEF PostPlanQuiet
  <2>4. QED BY <2>1, <2>2, <2>3, ReportKeepsLatch, WriteKeeps
<1>6. ASSUME NEW p \in PlanPaths, NEW body \in Bodies, PostPlanSurfaced(c, p, body)
      PROVE  TurnStep
  <2> DEFINE b == AfterPlanChain(c, p, body, TRUE)
  <2>1. Reported(c) /\ UNCHANGED turn
    BY <1>6 DEF PostPlanSurfaced, PlanReport, Retire
  <2>2. PICK s \in Sessions : call[c].session = s
    BY <1>1, <2>1
  <2>3. PICK ids \in Surfaced(p, body) :
            Write(s, [b EXCEPT !.required = @ \cup ids, !.read = @ \cup ids])
    BY <1>6, <2>2 DEF PostPlanSurfaced
  <2>4. ids \in SUBSET Skills
    BY GateAssumption DEF Surfaced, NewMatches
  <2>5. b \in Bucket /\ KeepsLatch(bucket[s], b)
    BY <2>2, ReportKeepsLatch
  <2> DEFINE d == [b EXCEPT !.required = b.required \cup ids, !.read = b.read \cup ids]
  <2> HIDE DEF b
  <2>6. d \in Bucket /\ KeepsLatch(b, d)
    BY <2>4, <2>5 DEF Bucket, KeepsLatch
  <2>7. Write(s, d)
    BY <2>3
  <2> HIDE DEF d
  <2>8. KeepsLatch(bucket[s], d)
    BY <2>5, <2>6 DEF KeepsLatch
  <2>9. QED BY <2>1, <2>2, <2>6, <2>7, <2>8, WriteKeeps
<1>7. ASSUME NEW p \in PlanPaths, NEW body \in Bodies, PostPlanAborted(c, p, body)
      PROVE  TurnStep
  BY <1>7, SameBuckets DEF PostPlanAborted, PlanReport, Retire, storeVars
<1>8. QED BY <1>2, <1>3, <1>4, <1>5, <1>6, <1>7 DEF CallStep

\* Every step of the composition is a turn step.
LEMMA HarnessTurns ==
    ASSUME HarnessTypeOK, [HarnessNext]_harnessVars
    PROVE  TurnStep
<1>1. TypeOK /\ StoreSound
  BY DEF HarnessTypeOK
<1>2. CASE HookActivity
  BY <1>1, <1>2, HookStepTurns, StopTurns, CallStepTurns DEF HookActivity
<1>3. CASE McpActivity
  <2>1. McpStep
    BY <1>3, McpActivityIsMcpStep
  <2>2. CASE UNCHANGED storeVars
    BY <2>1, <2>2, SameBuckets DEF McpStep, storeVars
  <2>3. ASSUME NEW m \in McpSessions, NEW b, McpBucket(bucket[m], b), Write(m, b)
        PROVE  TurnStep
    <3>1. m \in Sessions /\ bucket[m] \in Bucket
      BY <1>1, HarnessAssumption DEF TypeOK, StoreTypeOK
    <3>2. b \in Bucket /\ KeepsLatch(bucket[m], b)
      BY <2>3, <3>1, McpBucketFacts
    <3>3. QED BY <1>1, <2>1, <2>3, <3>1, <3>2, WriteKeeps DEF McpStep
  <2>4. QED BY <2>1, <2>2, <2>3 DEF McpStep
<1>4. CASE HarnessRestart
  <2>1. Listed(order') = {} /\ UNCHANGED turn
    BY <1>4, ForgetFacts DEF HarnessRestart, Restart
  <2>2. QED BY <2>1 DEF TurnStep, Kept
<1>5. CASE UNCHANGED harnessVars
  BY <1>5, SameBuckets DEF harnessVars, gateVars
<1>6. QED BY <1>2, <1>3, <1>4, <1>5 DEF HarnessNext
-----------------------------------------------------------------------------
(* The stop latch and the receipt gate *)

\* Once a stop of the turn was blocked, the latch is set, or the store lost
\* the session that had it.
Latched(s) ==
    \/ turn[s].stops = 0
    \/ s \in lost
    \/ turn[s].stops = 1 /\ bucket[s].blocked /\ Stored(s)

\* "blocks ... exactly once" (read_gate/gate.py): an agent is never trapped in
\* a stop loop, whatever the tools require meanwhile, unless the store loses
\* its session within the turn.
THEOREM StopsBlockOnce == HarnessSpec => []StopBlockedOncePerTurn
<1> DEFINE Inv == \A s \in Sessions : Latched(s)
<1>1. HarnessInit => Inv
  BY DEF HarnessInit, GateInit, NewTurn, Latched
<1>2. ASSUME HarnessTypeOK, Inv, [HarnessNext]_harnessVars
      PROVE  Inv'
  <2>1. TurnStep
    BY <1>2, HarnessTurns
  <2>2. NoteLosses \/ UNCHANGED harnessVars
    BY <1>2 DEF HarnessNext
  \* A session that has blocked and is no longer stored is lost.
  <2>3. ASSUME NEW s \in Sessions, turn'[s].stops > 0,
               s \in lost \/ (Stored(s) /\ ~(Stored(s)'))
        PROVE  s \in lost'
    BY <2>2, <2>3 DEF NoteLosses, harnessVars, gateVars, Stored
  <2>4. \A s \in Sessions : turn[s].stops \in 0..2
    BY <1>2 DEF HarnessTypeOK, TypeOK, Turn
  <2>5. ASSUME NEW s \in Sessions, Kept(s) PROVE Latched(s)'
    <3>1. turn'[s].stops = turn[s].stops
      BY <2>5 DEF Kept
    <3>2. CASE turn[s].stops = 0
      BY <3>1, <3>2 DEF Latched
    <3>3. CASE turn[s].stops # 0 /\ s \in lost
      BY <2>3, <2>4, <3>1, <3>3 DEF Latched
    <3>4. CASE turn[s].stops = 1 /\ bucket[s].blocked /\ Stored(s)
      <4>1. CASE Stored(s)'
        BY <2>5, <3>1, <3>4, <4>1 DEF Kept, KeepsLatch, Latched, Stored
      <4>2. CASE ~(Stored(s)')
        BY <2>3, <3>1, <3>4, <4>2 DEF Latched
      <4>3. QED BY <4>1, <4>2
    <3>5. QED BY <1>2, <3>2, <3>3, <3>4 DEF Latched
  <2>6. ASSUME NEW s \in Sessions, Begun(s) PROVE Latched(s)'
    BY <2>6 DEF Begun, Latched
  <2>7. ASSUME NEW s \in Sessions, Blocks(s) PROVE Latched(s)'
    <3>1. turn'[s].stops = Smaller(2, turn[s].stops + 1) /\ turn'[s].stops > 0
      BY <2>4, <2>7 DEF Blocks, Smaller
    <3>2. CASE s \in lost
      BY <2>3, <3>1, <3>2 DEF Latched
    <3>3. CASE turn[s].stops = 0
      BY <2>7, <3>1, <3>3 DEF Blocks, Smaller, Latched, Stored
    <3>4. QED BY <1>2, <2>7, <3>2, <3>3 DEF Latched, Blocks
  <2>8. QED BY <2>1, <2>5, <2>6, <2>7 DEF TurnStep
<1>3. Inv => StopBlockedOncePerTurn
  BY DEF Latched, StopBlockedOncePerTurn
<1>4. QED BY <1>1, <1>2, <1>3, HarnessTypes, PTL DEF HarnessSpec

\* A session with evidence of a delivery got it from a hook, and has a receipt
\* unless its last prompt broke.
Evidence(s) ==
    bucket[s].seen =>
        s \in HookSessions /\ (bucket[s].retrieved \/ turn[s].outcome = "broken")

\* A session no prompt was delivered to is never locked out by the receipt
\* gate, whether or not hooks and tools share their session ids.
THEOREM NobodyIsLockedOut == HarnessSpec => []NoLockoutWithoutDelivery
<1> DEFINE Inv == \A s \in Sessions : Evidence(s)
<1>1. HarnessInit => Inv
  BY DEF HarnessInit, GateInit, StoreInit, EmptyBucket, Evidence
<1>2. ASSUME HarnessTypeOK, HarnessTypeOK', Inv, [HarnessNext]_harnessVars
      PROVE  Inv'
  <2>1. TurnStep
    BY <1>2, HarnessTurns
  <2>2. ASSUME NEW s \in Sessions, Kept(s) PROVE Evidence(s)'
    <3>1. CASE s \in Listed(order')
      BY <1>2, <2>2, <3>1 DEF Kept, KeepsLatch, Evidence
    <3>2. CASE s \notin Listed(order')
      BY <1>2, <3>2 DEF HarnessTypeOK, StoreSound, Stored, EmptyBucket, Evidence
    <3>3. QED BY <3>1, <3>2
  <2>3. ASSUME NEW s \in Sessions, Begun(s) \/ Blocks(s) PROVE Evidence(s)'
    BY <1>2, <2>3 DEF Begun, Blocks, Evidence
  <2>4. QED BY <2>1, <2>2, <2>3 DEF TurnStep
<1>3. Inv => NoLockoutWithoutDelivery
  BY DEF Evidence, NoLockoutWithoutDelivery, ReceiptGateDenies
<1>4. QED BY <1>1, <1>2, <1>3, HarnessTypes, PTL DEF HarnessSpec
-----------------------------------------------------------------------------
(* The store and the promise, with the MCP tools at work *)

\* The tools' writes never stretch the store past its bound, list a session
\* twice, or leave state in a session that is not listed.
THEOREM HarnessStoreStaysSound == HarnessSpec => []StoreSound
BY HarnessTypes, PTL DEF HarnessTypeOK

\* A tool's write keeps the plan and the scope; it keeps the trust, or it is
\* the mark that serves a session again.
LEMMA McpBucketLooks ==
    ASSUME NEW old \in Bucket, NEW b, McpBucket(old, b)
    PROVE  /\ b.active = old.active /\ b.entries = old.entries /\ b.plan = old.plan
           /\ ScopeOf(b) = ScopeOf(old)
           /\ TrustOf(b) = TrustOf(old) \/ TrustOf(b) = "served"
<1>1. /\ b.active = old.active /\ b.entries = old.entries /\ b.plan = old.plan /\ b.seen = old.seen
      /\ b.retrieved = old.retrieved \/ b.retrieved
  <2>1. CASE b = [old EXCEPT !.retrieved = TRUE]
    BY <2>1 DEF Bucket
  <2>2. ASSUME NEW required, NEW read,
               b = [old EXCEPT !.required = required, !.read = read]
        PROVE  /\ b.active = old.active /\ b.entries = old.entries /\ b.plan = old.plan
               /\ b.seen = old.seen /\ b.retrieved = old.retrieved
    BY <2>2 DEF Bucket
  <2>3. ASSUME NEW required, b = [old EXCEPT !.required = required]
        PROVE  /\ b.active = old.active /\ b.entries = old.entries /\ b.plan = old.plan
               /\ b.seen = old.seen /\ b.retrieved = old.retrieved
    BY <2>3 DEF Bucket
  <2>4. ASSUME NEW read, b = [old EXCEPT !.read = read]
        PROVE  /\ b.active = old.active /\ b.entries = old.entries /\ b.plan = old.plan
               /\ b.seen = old.seen /\ b.retrieved = old.retrieved
    BY <2>4 DEF Bucket
  <2>5. QED BY <2>1, <2>2, <2>3, <2>4 DEF McpBucket
<1>2. ScopeOf(b) = ScopeOf(old)
  BY <1>1 DEF ScopeOf
<1>3. TrustOf(b) = TrustOf(old) \/ TrustOf(b) = "served"
  BY <1>1 DEF TrustOf, ReceiptGateDenies
<1>4. QED BY <1>1, <1>2, <1>3

\* A tool's step is a delivery, an activity, or invisible.
LEMMA McpStepImplements ==
    ASSUME TypeOK, McpStep
    PROVE  Promise!Next \/ UNCHANGED Promise!promiseVars
<1>1. CASE UNCHANGED storeVars
  BY <1>1 DEF McpStep, storeVars, Promise!promiseVars
<1>2. ASSUME NEW m \in McpSessions, NEW b, McpBucket(bucket[m], b), Write(m, b)
      PROVE  Promise!Next
  <2>1. StoreTypeOK /\ m \in Sessions /\ bucket[m] \in Bucket
    BY HarnessAssumption DEF TypeOK, StoreTypeOK
  <2>2. /\ b \in Bucket /\ ScopeOf(b) = ScopeOf(bucket[m])
        /\ TrustOf(b) = TrustOf(bucket[m]) \/ TrustOf(b) = "served"
    BY <1>2, <2>1, McpBucketFacts, McpBucketLooks
  <2>3. UNCHANGED call
    BY DEF McpStep
  <2>4. CASE TrustOf(b) = TrustOf(bucket[m])
    <3>1. Promise!Activity(m)
      BY <1>2, <2>1, <2>2, <2>3, <2>4, ActivityImplements DEF Looks
    <3>2. QED BY <2>1, <3>1 DEF Promise!Next
  <2>5. CASE TrustOf(b) = "served"
    <3>1. bucket'[m] = b /\ Promise!OthersMayBeForgotten(m)
      BY <1>2, <2>1, <2>2, WriteFacts, OthersForgotten
    <3>2. TrustOf(bucket'[m]) = "served" /\ ScopeOf(bucket'[m]) = ScopeOf(bucket[m])
      BY <2>2, <2>5, <3>1
    <3>3. Promise!Deliver(m)
      BY <2>1, <2>3, <3>1, <3>2 DEF Promise!Deliver, TrustOf, ScopeOf
    <3>4. QED BY <2>1, <3>3 DEF Promise!Next
  <2>6. QED BY <2>2, <2>4, <2>5
<1>3. QED BY <1>1, <1>2 DEF McpStep

\* An active manifest has entries, whatever the tools write.
LEMMA HarnessArmed == HarnessSpec => []ManifestArmed
<1>1. HarnessInit => ManifestArmed
  BY DEF HarnessInit, GateInit, StoreInit, ManifestArmed, EmptyBucket
<1>2. ASSUME HarnessTypeOK, ManifestArmed, [HarnessNext]_harnessVars
      PROVE  ManifestArmed'
  <2>1. ASSUME NEW t \in Sessions, [GateNext]_gateVars PROVE Armed(bucket'[t])
    <3>1. \/ bucket'[t] = bucket[t]
          \/ bucket'[t] = EmptyBucket
          \/ Rewrites(bucket[t], bucket'[t])
      BY <1>2, <2>1, StepOnBucket DEF HarnessTypeOK
    <3>2. Armed(bucket[t])
      BY <1>2 DEF ManifestArmed, Armed
    <3>3. QED BY <3>1, <3>2 DEF Rewrites, Armed, EmptyBucket
  <2>2. ASSUME NEW t \in Sessions, McpActivity PROVE Armed(bucket'[t])
    <3>1. McpStep /\ Armed(bucket[t])
      BY <1>2, <2>2, McpActivityIsMcpStep DEF ManifestArmed, Armed
    <3>2. CASE UNCHANGED storeVars
      BY <3>1, <3>2 DEF storeVars
    <3>3. ASSUME NEW m \in McpSessions, NEW b, McpBucket(bucket[m], b), Write(m, b)
          PROVE  Armed(bucket'[t])
      <4>1. m \in Sessions /\ bucket[m] \in Bucket /\ StoreTypeOK
        BY <1>2, HarnessAssumption DEF HarnessTypeOK, TypeOK, StoreTypeOK
      <4>2. /\ b \in Bucket /\ b.active = bucket[m].active
            /\ b.entries = bucket[m].entries /\ b.plan = bucket[m].plan
        BY <3>3, <4>1, McpBucketFacts, McpBucketLooks
      <4>3. CASE t = m
        BY <3>1, <3>3, <4>1, <4>2, <4>3, WriteFacts DEF Armed
      <4>4. CASE t # m
        <5>1. bucket'[t] = bucket[t] \/ bucket'[t] = EmptyBucket
          BY <3>3, <4>1, <4>2, <4>4, WriteFacts
        <5>2. QED BY <3>1, <5>1 DEF Armed, EmptyBucket
      <4>5. QED BY <4>3, <4>4
    <3>4. QED BY <3>1, <3>2, <3>3 DEF McpStep
  <2>3. CASE HarnessNext
    <3>1. ((HookActivity \/ McpActivity) /\ UNCHANGED granularity) \/ Restart
      BY <2>3 DEF HarnessNext, HarnessRestart
    <3>2. \A t \in Sessions : Armed(bucket'[t])
      BY <2>1, <2>2, <3>1, HookStepsAreGateSteps
    <3>3. QED BY <3>2 DEF ManifestArmed, Armed
  <2>4. CASE UNCHANGED harnessVars
    BY <1>2, <2>4 DEF harnessVars, gateVars, ManifestArmed
  <2>5. QED BY <1>2, <2>3, <2>4
<1>3. QED BY <1>1, <1>2, HarnessTypes, PTL DEF HarnessSpec

\* The hooks keep the promise with the MCP tools at work on the same store,
\* whether the two share their session ids or not: the worst a tool does to a
\* session is to have it forgotten for one of its own.
THEOREM HarnessKeepsPromise == HarnessSpec => KeepsPromise
<1>1. HarnessInit => Promise!Init
  BY GateInitImplements DEF HarnessInit
<1>2. HarnessTypeOK /\ ManifestArmed /\ [HarnessNext]_harnessVars
        => [Promise!Next]_(Promise!promiseVars)
  <2>1. ASSUME HarnessTypeOK, ManifestArmed, HarnessNext
        PROVE  Promise!Next \/ UNCHANGED Promise!promiseVars
    <3>1. TypeOK /\ StoreSound
      BY <2>1 DEF HarnessTypeOK
    <3>2. CASE HookActivity
      BY <2>1, <3>1, <3>2, HookStepImplements, CallStepImplements, HarnessAssumption
         DEF HookActivity
    <3>3. CASE McpActivity
      BY <2>1, <3>1, <3>3, McpActivityIsMcpStep, McpStepImplements
    <3>4. CASE Restart
      <4>1. Promise!ForgetAll
        BY <3>4, ForgetImplements DEF Restart
      <4>2. QED BY <4>1 DEF Promise!Next
    <3>5. QED BY <2>1, <3>2, <3>3, <3>4 DEF HarnessNext, HarnessRestart
  <2>2. ASSUME UNCHANGED harnessVars PROVE UNCHANGED Promise!promiseVars
    BY <2>2 DEF harnessVars, gateVars, Promise!promiseVars
  <2>3. QED BY <2>1, <2>2
<1>3. QED BY <1>1, <1>2, HarnessTypes, HarnessArmed, PTL
     DEF HarnessSpec, KeepsPromise, Promise!Spec
=============================================================================

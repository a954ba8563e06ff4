--------------------------- MODULE HarnessSessions ---------------------------
(***************************************************************************)
(* The MCP tools that write the session store, composed with the hooks.    *)
(*                                                                         *)
(* An MCP call is keyed by its transport session id.  The tools' comments  *)
(* say that id differs from the hook session's (query_skills/handler.py),  *)
(* server._call_meta says the two are shared: HookSessions and McpSessions *)
(* are disjoint in the first reading and overlap in the second.            *)
(*                                                                         *)
(* query_skills is the one writer that suspends: it marks the receipt,     *)
(* runs the query, awaits the progress notification, and only then reads   *)
(* the store again to add its requirements, so hooks run in between.       *)
(***************************************************************************)
EXTENDS HookGates

CONSTANTS HookSessions, McpSessions,
          Queries       \* slots for query_skills calls awaiting progress

ASSUME HarnessAssumption == Sessions = HookSessions \cup McpSessions

VARIABLES
    query,      \* slot -> the MCP session whose call waits in it
    lost        \* sessions that were pushed out of the store after a stop of
                \* their turn was blocked (history)

harnessVars == <<gateVars, query, lost>>

HarnessInit == GateInit /\ query = [q \in Queries |-> NoSession] /\ lost = {}

Marked(m) == [bucket[m] EXCEPT !.retrieved = TRUE]

\* The receipt is marked and the query answered; the call now awaits the
\* progress notification.
QueryStart(q, m) ==
    /\ query[q] = NoSession
    /\ Write(m, Marked(m))
    /\ query' = [query EXCEPT ![q] = m]
    /\ UNCHANGED <<cacheVars, call, turn>>

\* The query fails: the receipt stays, the tool raises.
QueryFails(m) ==
    /\ Write(m, Marked(m))
    /\ UNCHANGED <<cacheVars, call, turn, query>>

\* _require_skill_reads adds the returned skills, at most the cap.
QueryFinish(q) ==
    LET m == query[q]
    IN  /\ m # NoSession
        /\ \E ids \in (SUBSET Skills) \ {{}} :
                /\ Cardinality(ids) <= RequiredReadsMax
                /\ Write(m, [bucket[m] EXCEPT !.required = @ \cup ids])
        /\ query' = [query EXCEPT ![q] = NoSession]
        /\ UNCHANGED <<cacheVars, call, turn>>

\* Nothing to require, a corpus read failure, or the client is gone.
QueryEnds(q) ==
    /\ query[q] # NoSession
    /\ query' = [query EXCEPT ![q] = NoSession]
    /\ UNCHANGED gateVars

\* _record_read_receipt moves the id from required to read.
GetSkill(m, k) ==
    /\ Write(m, [bucket[m] EXCEPT !.required = @ \ {k}, !.read = @ \cup {k}])
    /\ UNCHANGED <<cacheVars, call, turn, query>>

\* get_plan_skills marks as read the matches of the plan it resolves or, for
\* a plan that is not cached, whichever of the named ids the corpus has.
GetPlanSkills(m) ==
    /\ \E ids \in (SUBSET Skills) \ {{}} :
            Write(m, [bucket[m] EXCEPT !.read = @ \cup ids])
    /\ UNCHANGED <<cacheVars, call, turn, query>>

HookActivity ==
    /\ \/ \E s \in HookSessions : HookStep(s) \/ Stop(s)
       \/ \E c \in Calls : CallStep(c)
    /\ UNCHANGED query

\* A restart also ends the MCP calls that were waiting.
HarnessRestart == Restart /\ query' = [q \in Queries |-> NoSession]

McpActivity ==
    \/ \E m \in McpSessions :
            \/ QueryFails(m)
            \/ GetPlanSkills(m)
            \/ \E q \in Queries : QueryStart(q, m)
            \/ \E k \in Skills : GetSkill(m, k)
    \/ \E q \in Queries : QueryFinish(q) \/ QueryEnds(q)

NoteLosses ==
    lost' = {s \in Sessions : /\ turn'[s].stops > 0
                              /\ s \in lost \cup (Listed(order) \ Listed(order'))}

HarnessNext ==
    \/ (HookActivity \/ McpActivity) /\ UNCHANGED granularity /\ NoteLosses
    \/ HarnessRestart /\ NoteLosses

HarnessSpec == HarnessInit /\ [][HarnessNext]_harnessVars
-----------------------------------------------------------------------------
\* Only a query_skills call that finishes leaves a skill unread, in the session
\* it is for: no prompt, plan, eviction, lost request, restart or other tool arms
\* the read gate, of a session that both hooks and tools write neither, and
\* nothing of what the call does before it suspends.
OnlyQueriesLeaveUnread ==
    [][\A s \in Sessions :
            Missing(bucket'[s]) \subseteq Missing(bucket[s])
            \/ \E q \in Queries : query[q] = s /\ query'[q] = NoSession]_harnessVars

\* The stop latch: a stop is blocked "exactly once" per turn
\* (read_gate/gate.py), so the agent is never trapped in a stop loop, unless
\* the store loses the session and the latch with it.
StopBlockedOncePerTurn == \A s \in Sessions \ lost : turn[s].stops <= 1

\* A session no prompt was delivered to is never locked out by the receipt
\* gate: there would be no in-turn remedy (retrieval_receipt_gate/gate.py,
\* "post-mortem class #3").
NoLockoutWithoutDelivery ==
    \A s \in Sessions :
        ReceiptGateDenies(bucket[s]) => s \in HookSessions /\ turn[s].outcome = "broken"
=============================================================================

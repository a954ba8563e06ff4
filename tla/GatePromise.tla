---------------------------- MODULE GatePromise ----------------------------
(***************************************************************************)
(* What the gates promise an agent, without the store that keeps it.       *)
(*                                                                         *)
(* A session is unknown until a prompt was delivered to it, then served;   *)
(* it is lost while its current turn has no delivery, and only a served    *)
(* session can be lost.  Its scope is anywhere, or the paths of its plan.  *)
(* A call is granted only to a session that is not lost and only inside    *)
(* its scope.  While a scope is known it only grows; it may be given up    *)
(* altogether.  The server may forget a session whenever another one is    *)
(* written, never because of the session's own activity.                   *)
(***************************************************************************)
EXTENDS Naturals

CONSTANTS Sessions, Calls, SourcePaths, PlanPaths, Anywhere, NoGrant

VARIABLES trust, scope, granted

promiseVars == <<trust, scope, granted>>

Init ==
    /\ trust = [s \in Sessions |-> "unknown"]
    /\ scope = [s \in Sessions |-> Anywhere]
    /\ granted = [c \in Calls |-> NoGrant]

OthersMayBeForgotten(s) ==
    \A t \in Sessions \ {s} :
        \/ trust'[t] = trust[t] /\ scope'[t] = scope[t]
        \/ trust'[t] = "unknown" /\ scope'[t] = Anywhere

Deliver(s) ==
    /\ trust'[s] = "served"
    /\ scope'[s] = scope[s]
    /\ OthersMayBeForgotten(s)
    /\ UNCHANGED granted

Lose(s) ==
    /\ trust[s] # "unknown"
    /\ trust' = [trust EXCEPT ![s] = "lost"]
    /\ UNCHANGED <<scope, granted>>

Inside(paths, known) == known = Anywhere \/ paths \ PlanPaths \subseteq known

Grant(c, s, paths) ==
    /\ granted[c] = NoGrant
    /\ trust[s] # "lost"
    /\ Inside(paths, scope[s])
    /\ granted' = [granted EXCEPT ![c] = <<s, paths>>]
    /\ UNCHANGED <<trust, scope>>

ScopeMayGrow(s) ==
    \/ scope[s] = Anywhere
    \/ scope'[s] = Anywhere
    \/ scope[s] \subseteq scope'[s]

\* The report of a call: of a granted one, or of one nobody was asked about.
Report(c, s) ==
    /\ granted[c] = NoGrant \/ granted[c][1] = s
    /\ granted' = [granted EXCEPT ![c] = NoGrant]
    /\ trust'[s] = trust[s]
    /\ ScopeMayGrow(s)
    /\ OthersMayBeForgotten(s)

\* Any other write for s, a stop block or an MCP tool call.
Activity(s) ==
    /\ trust'[s] = trust[s]
    /\ scope'[s] = scope[s]
    /\ OthersMayBeForgotten(s)
    /\ UNCHANGED granted

End(s) ==
    /\ trust' = [trust EXCEPT ![s] = "unknown"]
    /\ scope' = [scope EXCEPT ![s] = Anywhere]
    /\ UNCHANGED granted

ForgetAll ==
    /\ trust' = [s \in Sessions |-> "unknown"]
    /\ scope' = [s \in Sessions |-> Anywhere]
    /\ UNCHANGED granted

Next ==
    \/ \E s \in Sessions : Deliver(s) \/ Lose(s) \/ Activity(s) \/ End(s)
    \/ \E c \in Calls, s \in Sessions :
            \/ Report(c, s)
            \/ \E paths \in SUBSET (SourcePaths \cup PlanPaths) : Grant(c, s, paths)
    \/ ForgetAll

Spec == Init /\ [][Next]_promiseVars
=============================================================================

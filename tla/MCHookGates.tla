---------------------------- MODULE MCHookGates ----------------------------
(***************************************************************************)
(* Small instances of HookGates for TLC: the values of its constant        *)
(* functions and the kinds of world the runs put around the server.        *)
(***************************************************************************)
EXTENDS HookGates, TLC

CONSTANTS f1, f2, plan, plan2, k1, k2, draft, first, grown

Entry(p, j) == [path |-> p, justified |-> j]

\* A draft that does not parse, a first plan for one file, and a later one
\* that adds the second file with a justification.
MCFilesToTouch ==
    [t \in Bodies |->
        CASE t = first -> {Entry(f1, FALSE)}
          [] t = grown -> {Entry(f1, FALSE), Entry(f2, TRUE)}
          [] OTHER -> {}]

MCHits == [t \in Bodies |-> IF t = grown THEN {k1, k2} ELSE {k2}]

EachPath == {{p} : p \in Paths}
EachPathOrBothSources == EachPath \cup {SourcePaths}

CallSymmetry == Permutations(Calls)

Orderly == {"prompt_error"}
Parallel == {"parallel"}
Anything == EnvironmentFreedoms
=============================================================================

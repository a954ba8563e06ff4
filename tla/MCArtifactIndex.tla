-------------------------- MODULE MCArtifactIndex --------------------------
(***************************************************************************)
(* Small instances of ArtifactIndex: the worlds the runs put around it.    *)
(***************************************************************************)
EXTENDS ArtifactIndex, TLC

\* Stores that fail part way, and Redis going back to a snapshot.
Failing == {"unreachable", "pg_stops", "redis_stops", "redis_crash", "delete"}
\* Ids in two places, and archives that land beside them.
Crowded == {"unreachable", "duplicate", "sync"}

FailingOrCrowded == {Failing, Crowded}
Deleting == {{"delete"}}
IdSymmetry == Permutations(Ids) \cup Permutations(Texts)
=============================================================================

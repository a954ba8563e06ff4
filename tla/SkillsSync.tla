----------------------------- MODULE SkillsSync -----------------------------
(***************************************************************************)
(* SkillsSync: the upstream skills repository mirrored into the corpus     *)
(* directories synced-github, once per TTL from the prompt hook and on     *)
(* demand from POST /sync.                                                 *)
(*                                                                         *)
(* A run suspends once, while its request is out: what it does before the  *)
(* request and from the response to the saved marker are one step each,    *)
(* unless the process dies in between.  Runs may overlap, since only the   *)
(* prompt hook looks at _in_flight.  The ETag of a response stands for the *)
(* upstream version it was answered from.                                  *)
(***************************************************************************)
EXTENDS Naturals, FiniteSets

CONSTANTS
    Runs,           \* slots for run_now calls in progress
    LastVersion,    \* versions upstream publishes: 1..LastVersion
    Rejected,       \* versions that do not parse or collide with a user's id
    Environment,    \* what may go wrong around a run
    NoVersion,      \* no synced directory, or no ETag
    Torn            \* a synced directory that is part of a version

SyncFreedoms ==
    {"revert",        \* upstream goes back to an earlier version
     "fetch_fails",   \* timeout, refused connection or bad status
     "index_down",    \* index_corpus raises a typed error after landing
     "io_error",      \* landing, or writing the marker, raises OSError
     "crash",         \* the process dies while no response is being handled
     "crash_landing"} \* the process dies while one is

Versions == 1..LastVersion

ASSUME SyncAssumption ==
    /\ LastVersion \in Nat \ {0}
    /\ Rejected \subseteq Versions
    /\ Environment \subseteq SyncFreedoms
    /\ NoVersion \notin Versions /\ Torn \notin Versions /\ NoVersion # Torn

VARIABLES
    upstream,   \* the version upstream serves
    synced,     \* what the synced-github directories hold
    marker,     \* skills-sync.json
    state,      \* self._state
    loaded,     \* self._state_loaded
    inFlight,   \* self._in_flight
    run,        \* slot -> the run in it
    attempted   \* a run ended less than a TTL ago, and no crash has cut the
                \* marker since (history)

syncVars == <<upstream, synced, marker, state, loaded, inFlight, run, attempted>>

Etags == Versions \cup {NoVersion}
Stamp == [etag : Etags, fresh : BOOLEAN, failed : BOOLEAN]
NoStamp == [etag |-> NoVersion, fresh |-> FALSE, failed |-> FALSE]

\* answer: a version for 200, NoVersion for 304.
Run == [phase : {"idle", "scheduled", "waiting", "answered"},
        hook : BOOLEAN, etag : Etags, answer : Etags]
Idle == [phase |-> "idle", hook |-> FALSE, etag |-> NoVersion, answer |-> NoVersion]

SyncInit ==
    /\ upstream = 1
    /\ synced = NoVersion
    /\ marker = NoStamp /\ state = NoStamp /\ loaded = FALSE
    /\ inFlight = FALSE
    /\ run = [r \in Runs |-> Idle]
    /\ attempted = FALSE

\* What _load_state returns; a missing or unreadable marker is no stamp.
Known == IF loaded THEN state ELSE marker

\* Mutant: the flag is not set, so that the marker is read every time.
LoadAgain == state' = Known /\ UNCHANGED loaded
Load == state' = Known /\ loaded' = TRUE

\* _save_state: in memory, then on disk, where the write may fail before or
\* after it truncated the file.
Save(stamp) ==
    /\ state' = stamp /\ loaded' = TRUE
    /\ \/ marker' = stamp
       \/ "io_error" \in Environment /\ marker' \in {marker, NoStamp}

\* Mutant: whichever run ends, the guard of the prompt hook opens.
EndRunClears(r) ==
    /\ run' = [run EXCEPT ![r] = Idle]
    /\ inFlight' = FALSE
    /\ attempted' = TRUE

\* The run leaves; _run_guarded clears the guard whatever was raised.
EndRun(r) ==
    /\ run' = [run EXCEPT ![r] = Idle]
    /\ inFlight' = (inFlight /\ ~run[r].hook)
    /\ attempted' = TRUE

\* Mutant: the guard is cleared on success only.
EndFailedRunStuck(r) ==
    /\ run' = [run EXCEPT ![r] = Idle]
    /\ UNCHANGED inFlight
    /\ attempted' = TRUE
EndFailedRun(r) == EndRun(r)
-----------------------------------------------------------------------------
(* Starting a run *)

\* Mutant: a failed attempt does not count as a refresh.
DueOrFailed == ~Known.fresh \/ Known.failed

\* The last attempt is older than the TTL, or there was none.
Due == ~Known.fresh

\* ensure_fresh() when it schedules; otherwise it only loads the marker.
EnsureFresh(r) ==
    /\ ~inFlight /\ Due
    /\ run[r] = Idle
    /\ Load
    /\ inFlight' = TRUE
    /\ run' = [run EXCEPT ![r] = [Idle EXCEPT !.phase = "scheduled", !.hook = TRUE]]
    /\ UNCHANGED <<upstream, synced, marker, attempted>>

\* _fetch is called with the ETag of the moment, and the run waits.
Request(r, hook) ==
    /\ Load
    /\ run' = [run EXCEPT ![r] = [phase |-> "waiting", hook |-> hook,
                                  etag |-> Known.etag, answer |-> NoVersion]]
    /\ UNCHANGED <<upstream, synced, marker, inFlight, attempted>>

BackgroundStarts(r) == run[r].phase = "scheduled" /\ Request(r, TRUE)

OperatorStarts(r) == run[r] = Idle /\ Request(r, FALSE)
-----------------------------------------------------------------------------
(* The response and what is made of it *)

\* Upstream answers, 304 if the ETag is that of what it serves.
Answer(r) ==
    /\ run[r].phase = "waiting"
    /\ run' = [run EXCEPT ![r].phase = "answered",
                          ![r].answer = IF run[r].etag = upstream THEN NoVersion
                                        ELSE upstream]
    /\ UNCHANGED <<upstream, synced, marker, state, loaded, inFlight, attempted>>

Answered(r, v) == run[r].phase = "answered" /\ run[r].answer = v

\* Mutant: a failure stamps the ETag of the response.
FailedStampOf(r) == [etag |-> run[r].answer, fresh |-> TRUE, failed |-> TRUE]

\* A typed failure keeps the ETag of the last success.
FailedStamp(r) == [etag |-> Known.etag, fresh |-> TRUE, failed |-> TRUE]

FetchFails(r) ==
    /\ "fetch_fails" \in Environment
    /\ run[r].phase = "waiting"
    /\ Save(FailedStamp(r))
    /\ EndFailedRun(r)
    /\ UNCHANGED <<upstream, synced>>

\* Mutant: the stamp takes the ETag the request was sent with.
UnchangedSinceRequest(r) ==
    /\ Answered(r, NoVersion)
    /\ Save([etag |-> run[r].etag, fresh |-> TRUE, failed |-> FALSE])
    /\ EndRun(r)
    /\ UNCHANGED <<upstream, synced>>

\* 304: the stamp takes the ETag of the moment, not that of the request.
Unchanged(r) ==
    /\ Answered(r, NoVersion)
    /\ Save([etag |-> Known.etag, fresh |-> TRUE, failed |-> FALSE])
    /\ EndRun(r)
    /\ UNCHANGED <<upstream, synced>>

\* _parse_archive or _guard_collisions aborts before anything is touched.
Reject(r) ==
    /\ \E v \in Rejected : Answered(r, v)
    /\ Save(FailedStamp(r))
    /\ EndFailedRun(r)
    /\ UNCHANGED <<upstream, synced>>

\* _land and index_corpus, then the stamp.
Land(r) ==
    \E v \in Versions \ Rejected :
        /\ Answered(r, v)
        /\ synced' = v
        /\ Save([etag |-> v, fresh |-> TRUE, failed |-> FALSE])
        /\ EndRun(r)
        /\ UNCHANGED upstream

\* The files are in place when index_corpus raises.
LandUnindexed(r) ==
    /\ "index_down" \in Environment
    /\ \E v \in Versions \ Rejected :
            /\ Answered(r, v)
            /\ synced' = v
            /\ Save(FailedStamp(r))
            /\ EndFailedRun(r)
            /\ UNCHANGED upstream

\* An OSError in _land is not a BetterAIError: nothing is stamped.
LandBreaks(r) ==
    /\ "io_error" \in Environment
    /\ \E v \in Versions \ Rejected : Answered(r, v)
    /\ synced' = Torn
    /\ EndFailedRun(r)
    /\ UNCHANGED <<upstream, marker, state, loaded>>
-----------------------------------------------------------------------------
(* The world *)

Publish ==
    /\ upstream' \in Versions \ {upstream}
    /\ "revert" \in Environment \/ upstream' > upstream
    /\ UNCHANGED <<synced, marker, state, loaded, inFlight, run, attempted>>

TtlLapses ==
    /\ state.fresh \/ marker.fresh \/ attempted
    /\ state' = [state EXCEPT !.fresh = FALSE]
    /\ marker' = [marker EXCEPT !.fresh = FALSE]
    /\ attempted' = FALSE
    /\ UNCHANGED <<upstream, synced, loaded, inFlight, run>>

NewProcess ==
    /\ state' = NoStamp /\ loaded' = FALSE /\ inFlight' = FALSE
    /\ run' = [r \in Runs |-> Idle]
    /\ UNCHANGED upstream

Crash ==
    /\ "crash" \in Environment
    /\ NewProcess
    /\ UNCHANGED <<synced, marker, attempted>>

\* Between rmtree and the last file, or up to the marker, which may be cut.
CrashLanding(r) ==
    /\ "crash_landing" \in Environment
    /\ \E v \in Versions \ Rejected :
            /\ Answered(r, v)
            /\ \/ synced' = Torn /\ marker' = marker
               \/ synced' = v /\ marker' \in {marker, NoStamp}
    /\ attempted' = (attempted /\ marker' = marker)
    /\ NewProcess

RunStep(r) ==
    \/ BackgroundStarts(r)
    \/ Answer(r) \/ FetchFails(r)
    \/ Unchanged(r) \/ Reject(r)
    \/ Land(r) \/ LandUnindexed(r) \/ LandBreaks(r)

SyncNext ==
    \/ \E r \in Runs : EnsureFresh(r) \/ OperatorStarts(r) \/ RunStep(r) \/ CrashLanding(r)
    \/ Publish \/ TtlLapses \/ Crash

SyncSpec == SyncInit /\ [][SyncNext]_syncVars

\* The event loop runs what is ready, and a request ends within its timeout.
RunsEnd == \A r \in Runs : WF_syncVars(RunStep(r))

\* Prompts keep coming, time passes, and neither upstream, the index nor the
\* process fails every time.
NotAlwaysFailing ==
    /\ WF_syncVars(TtlLapses)
    /\ SF_syncVars(\E r \in Runs : EnsureFresh(r))
    /\ \A r \in Runs :
            /\ SF_syncVars(BackgroundStarts(r)) /\ SF_syncVars(Answer(r))
            /\ SF_syncVars(Unchanged(r)) /\ SF_syncVars(Land(r))

FairSync == SyncSpec /\ RunsEnd
LuckySync == SyncSpec /\ RunsEnd /\ NotAlwaysFailing
-----------------------------------------------------------------------------
(* Properties *)

\* The variables keep their types, and a process that has not read the marker
\* has no stamp in memory.
SyncTypeOK ==
    /\ upstream \in Versions
    /\ synced \in Versions \cup {NoVersion, Torn}
    /\ marker \in Stamp /\ state \in Stamp
    /\ loaded \in BOOLEAN /\ inFlight \in BOOLEAN /\ attempted \in BOOLEAN
    /\ run \in [Runs -> Run]
    /\ ~loaded => state = NoStamp

\* "schedules ONE background run" (skills.py, module comment): prompts that
\* arrive together, or before the task starts, never put a second one out.
OneBackgroundRun ==
    Cardinality({r \in Runs : run[r].hook}) = IF inFlight THEN 1 ELSE 0

\* Whenever the directories do not hold the version the stored ETag stands
\* for, upstream serves another one: the next request is answered in full and
\* lands.  Otherwise a 304 would leave the corpus wrong for good, and neither
\* the next TTL nor `betterai sync` would repair it.
SelfHeals == synced = Known.etag \/ Known.etag # upstream

\* "One attempt per TTL window ... (no retries)" (skills.py): the prompt hook
\* starts nothing within a TTL of the end of an attempt.
OneAttemptPerWindow ==
    [][inFlight' /\ ~inFlight => ~attempted]_syncVars

\* The guard of the prompt hook opens again after every run it started.
InFlightClears == inFlight ~> ~inFlight

\* A version upstream settles on gets into the corpus, unless it is rejected.
SyncConverges ==
    \A v \in Versions \ Rejected : <>[](upstream = v) => []<>(synced = v)
=============================================================================

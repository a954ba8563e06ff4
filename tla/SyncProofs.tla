----------------------------- MODULE SyncProofs -----------------------------
(***************************************************************************)
(* The variables of SkillsSync keep their types, and the prompt hook never *)
(* has more than one run out: for any number of runs, any number of        *)
(* versions and whatever goes wrong around a run.  The stored ETag heals   *)
(* what it describes in two worlds: runs that overlap without a failure    *)
(* between landing and stamp, and runs one at a time with any failure.     *)
(***************************************************************************)
EXTENDS SkillsSync, FiniteSetTheorems, TLAPS

\* The guard is set exactly while a run of the hook is out, no two runs of
\* the hook are, and a scheduled run is one of the hook: what keeps
\* OneBackgroundRun, said without counting.
GuardOfOneRun ==
    /\ inFlight <=> \E r \in Runs : run[r].hook
    /\ \A r, q \in Runs : run[r].hook /\ run[q].hook => r = q
    /\ \A r \in Runs : run[r].phase = "scheduled" => run[r].hook

SyncInv == SyncTypeOK /\ GuardOfOneRun

LEMMA StampTypes ==
    ASSUME SyncTypeOK
    PROVE  /\ NoStamp \in Stamp /\ Known \in Stamp
           /\ \A r \in Runs : FailedStamp(r) \in Stamp
           /\ \A e \in Etags : [etag |-> e, fresh |-> TRUE, failed |-> FALSE] \in Stamp
           /\ Idle \in Run
  BY DEF SyncTypeOK, NoStamp, Known, FailedStamp, Stamp, Etags, Idle, Run

LEMMA SaveTypes ==
    ASSUME SyncTypeOK, NEW stamp \in Stamp, Save(stamp)
    PROVE  state' \in Stamp /\ marker' \in Stamp /\ loaded' = TRUE
  BY StampTypes DEF SyncTypeOK, Save

LEMMA LoadTypes ==
    ASSUME SyncTypeOK, Load
    PROVE  state' \in Stamp /\ loaded' = TRUE
  BY StampTypes DEF Load

\* A run that ends, whatever became of it, keeps what the guard stands for.
LEMMA EndKeepsGuard ==
    ASSUME SyncInv, NEW r \in Runs, EndRun(r)
    PROVE  /\ run' \in [Runs -> Run] /\ inFlight' \in BOOLEAN /\ attempted' \in BOOLEAN
           /\ GuardOfOneRun'
  <1>1. /\ run \in [Runs -> Run] /\ inFlight \in BOOLEAN
        /\ \A q \in Runs : run[q].hook \in BOOLEAN
    BY DEF SyncInv, SyncTypeOK, Run
  <1>2. /\ Idle \in Run /\ Idle.hook = FALSE /\ Idle.phase # "scheduled"
    BY StampTypes DEF SyncInv, Idle
  <1>3. /\ run' \in [Runs -> Run]
        /\ \A q \in Runs : run'[q] = IF q = r THEN Idle ELSE run[q]
    BY <1>1, <1>2 DEF EndRun
  <1>4. inFlight' = (inFlight /\ ~run[r].hook) /\ attempted' = TRUE
    BY DEF EndRun
  <1>5. inFlight' <=> \E q \in Runs : run'[q].hook
    BY <1>1, <1>2, <1>3, <1>4 DEF SyncInv, GuardOfOneRun
  <1>6. /\ \A q, p \in Runs : run'[q].hook /\ run'[p].hook => q = p
        /\ \A q \in Runs : run'[q].phase = "scheduled" => run'[q].hook
    BY <1>2, <1>3 DEF SyncInv, GuardOfOneRun
  <1> QED  BY <1>1, <1>3, <1>4, <1>5, <1>6 DEF GuardOfOneRun

\* A run that goes on under the same flag and is not put back to "scheduled"
\* disturbs nothing.
LEMMA GoingOnKeepsGuard ==
    ASSUME SyncInv, NEW r \in Runs, NEW next \in Run,
           next.hook = run[r].hook, next.phase # "scheduled",
           run' = [run EXCEPT ![r] = next], inFlight' = inFlight
    PROVE  run' \in [Runs -> Run] /\ GuardOfOneRun'
  <1>1. /\ run' \in [Runs -> Run]
        /\ \A q \in Runs : run'[q] = IF q = r THEN next ELSE run[q]
    BY DEF SyncInv, SyncTypeOK
  <1>2. \A q \in Runs : run'[q].hook = run[q].hook
    BY <1>1
  <1> QED  BY <1>1, <1>2 DEF SyncInv, GuardOfOneRun

LEMMA RequestKeeps ==
    ASSUME SyncInv, NEW r \in Runs, NEW hook \in BOOLEAN, hook = run[r].hook,
           Request(r, hook)
    PROVE  SyncInv'
  <1> DEFINE sent == [phase |-> "waiting", hook |-> hook,
                      etag |-> Known.etag, answer |-> NoVersion]
  <1>1. Known.etag \in Etags
    BY StampTypes DEF SyncInv, Stamp
  <1>2. sent \in Run /\ sent.hook = run[r].hook /\ sent.phase # "scheduled"
    BY <1>1 DEF Run, Etags
  <1>3. run' = [run EXCEPT ![r] = sent] /\ inFlight' = inFlight
    BY DEF Request
  <1>4. run' \in [Runs -> Run] /\ GuardOfOneRun'
    <2> HIDE DEF sent
    <2> QED  BY <1>2, <1>3, GoingOnKeepsGuard
  <1>5. state' \in Stamp /\ loaded' = TRUE
    BY LoadTypes DEF Request, SyncInv
  <1> QED  BY <1>3, <1>4, <1>5 DEF SyncInv, SyncTypeOK, Request

LEMMA InitKeeps == SyncInit => SyncInv
  <1> SUFFICES ASSUME SyncInit PROVE SyncInv
    OBVIOUS
  <1>1. 1 \in Versions /\ NoStamp \in Stamp
    BY SyncAssumption DEF Versions, NoStamp, Stamp, Etags
  <1>2. Idle \in Run /\ Idle.hook = FALSE /\ Idle.phase # "scheduled"
    BY DEF Idle, Run, Etags
  <1>3. \A r \in Runs : run[r] = Idle
    BY DEF SyncInit
  <1>4. GuardOfOneRun
    BY <1>2, <1>3 DEF SyncInit, GuardOfOneRun
  <1>5. run \in [Runs -> Run]
    BY <1>2 DEF SyncInit
  <1> QED  BY <1>1, <1>4, <1>5 DEF SyncInit, SyncInv, SyncTypeOK

\* Every way a run can end.
LEMMA EndingsKeep ==
    ASSUME SyncInv, NEW r \in Runs,
           \/ FetchFails(r) \/ Unchanged(r) \/ Reject(r)
           \/ Land(r) \/ LandUnindexed(r) \/ LandBreaks(r)
    PROVE  SyncInv'
  <1>1. EndRun(r)
    BY DEF FetchFails, Unchanged, Reject, Land, LandUnindexed, LandBreaks, EndFailedRun
  <1>2. /\ run' \in [Runs -> Run] /\ inFlight' \in BOOLEAN /\ attempted' \in BOOLEAN
        /\ GuardOfOneRun'
    BY <1>1, EndKeepsGuard
  <1>3. upstream' = upstream
    BY DEF FetchFails, Unchanged, Reject, Land, LandUnindexed, LandBreaks
  <1>4. synced' \in Versions \cup {NoVersion, Torn}
    BY DEF FetchFails, Unchanged, Reject, Land, LandUnindexed, LandBreaks, SyncInv, SyncTypeOK
  <1>5. state' \in Stamp /\ marker' \in Stamp /\ loaded' \in BOOLEAN
            /\ (~loaded' => state' = NoStamp)
    <2>1. Known.etag \in Etags
      BY StampTypes DEF SyncInv, Stamp
    <2>2. CASE \E stamp \in Stamp : Save(stamp)
      BY <2>2, SaveTypes DEF SyncInv
    <2>3. CASE FetchFails(r) \/ Reject(r) \/ LandUnindexed(r)
      BY <2>2, <2>3, StampTypes DEF FetchFails, Reject, LandUnindexed, SyncInv
    <2>4. CASE Unchanged(r)
      BY <2>1, <2>2, <2>4, StampTypes DEF Unchanged, SyncInv
    <2>5. CASE Land(r)
      <3>1. PICK v \in Versions : Save([etag |-> v, fresh |-> TRUE, failed |-> FALSE])
        BY <2>5 DEF Land
      <3> QED  BY <3>1, <2>2, StampTypes DEF SyncInv, Etags
    <2>6. CASE LandBreaks(r)
      BY <2>6 DEF LandBreaks, SyncInv, SyncTypeOK
    <2> QED  BY <2>3, <2>4, <2>5, <2>6
  <1> QED  BY <1>2, <1>3, <1>4, <1>5 DEF SyncInv, SyncTypeOK

LEMMA NewProcessKeeps ==
    ASSUME SyncInv, NewProcess, marker' \in Stamp,
           synced' \in Versions \cup {NoVersion, Torn}, attempted' \in BOOLEAN
    PROVE  SyncInv'
  BY StampTypes DEF NewProcess, SyncInv, SyncTypeOK, GuardOfOneRun, Idle

LEMMA StepKeeps == SyncInv /\ [SyncNext]_syncVars => SyncInv'
  <1> SUFFICES ASSUME SyncInv, [SyncNext]_syncVars PROVE SyncInv'
    OBVIOUS
  <1>1. ASSUME NEW r \in Runs, EnsureFresh(r) PROVE SyncInv'
    <2> DEFINE begun == [Idle EXCEPT !.phase = "scheduled", !.hook = TRUE]
    <2>1. begun \in Run /\ begun.hook = TRUE
      BY DEF Idle, Run, Etags
    <2>2. run' = [run EXCEPT ![r] = begun] /\ inFlight' = TRUE /\ ~inFlight
      BY <1>1 DEF EnsureFresh
    <2>3. run \in [Runs -> Run]
      BY DEF SyncInv, SyncTypeOK
    <2>4. /\ run' \in [Runs -> Run]
          /\ \A q \in Runs : run'[q] = IF q = r THEN begun ELSE run[q]
      <3> HIDE DEF begun
      <3> QED  BY <2>1, <2>2, <2>3
    <2>5. \A q \in Runs : ~run[q].hook /\ run[q].phase # "scheduled"
      BY <2>2 DEF SyncInv, GuardOfOneRun
    <2>6. GuardOfOneRun'
      <3> HIDE DEF begun
      <3> QED  BY <2>1, <2>2, <2>4, <2>5 DEF GuardOfOneRun
    <2>7. state' \in Stamp /\ loaded' = TRUE
      BY <1>1, LoadTypes DEF EnsureFresh, SyncInv
    <2> QED  BY <1>1, <2>2, <2>4, <2>6, <2>7 DEF EnsureFresh, SyncInv, SyncTypeOK
  <1>2. ASSUME NEW r \in Runs, OperatorStarts(r) PROVE SyncInv'
    <2>1. run[r].hook = FALSE
      BY <1>2 DEF OperatorStarts, Idle
    <2> QED  BY <1>2, <2>1, RequestKeeps DEF OperatorStarts
  <1>3. ASSUME NEW r \in Runs, BackgroundStarts(r) PROVE SyncInv'
    <2>1. run[r].hook = TRUE
      BY <1>3 DEF BackgroundStarts, SyncInv, SyncTypeOK, GuardOfOneRun, Run
    <2> QED  BY <1>3, <2>1, RequestKeeps DEF BackgroundStarts
  <1>4. ASSUME NEW r \in Runs, Answer(r) PROVE SyncInv'
    <2> DEFINE got == [run[r] EXCEPT !.phase = "answered",
                           !.answer = IF run[r].etag = upstream THEN NoVersion ELSE upstream]
    <2>1. run[r] \in Run /\ upstream \in Etags
      BY DEF SyncInv, SyncTypeOK, Etags
    <2>2. got \in Run /\ got.hook = run[r].hook /\ got.phase # "scheduled"
      BY <2>1 DEF Run, Etags
    <2>3. run' = [run EXCEPT ![r] = got] /\ inFlight' = inFlight
      BY <1>4 DEF Answer
    <2>4. run' \in [Runs -> Run] /\ GuardOfOneRun'
      <3> HIDE DEF got
      <3> QED  BY <2>2, <2>3, GoingOnKeepsGuard
    <2> QED  BY <1>4, <2>4 DEF Answer, SyncInv, SyncTypeOK
  <1>5. ASSUME NEW r \in Runs, CrashLanding(r) PROVE SyncInv'
    BY <1>5, NewProcessKeeps, StampTypes DEF CrashLanding, SyncInv, SyncTypeOK
  <1>6. CASE Crash
    BY <1>6, NewProcessKeeps DEF Crash, SyncInv, SyncTypeOK
  <1>7. CASE Publish
    BY <1>7 DEF Publish, SyncInv, SyncTypeOK, GuardOfOneRun
  <1>8. CASE TtlLapses
    <2>1. \A st \in Stamp : [st EXCEPT !.fresh = FALSE] \in Stamp
      BY DEF Stamp
    <2>2. [NoStamp EXCEPT !.fresh = FALSE] = NoStamp
      <3>1. \A st \in Stamp : ~st.fresh => [st EXCEPT !.fresh = FALSE] = st
        BY DEF Stamp
      <3>2. NoStamp \in Stamp /\ ~NoStamp.fresh
        BY StampTypes DEF SyncInv, NoStamp
      <3> QED  BY <3>1, <3>2
    <2>3. state' \in Stamp /\ marker' \in Stamp /\ (~loaded => state' = NoStamp)
      BY <1>8, <2>1, <2>2 DEF TtlLapses, SyncInv, SyncTypeOK
    <2>4. /\ attempted' = FALSE
          /\ UNCHANGED <<upstream, synced, loaded, inFlight, run>>
      BY <1>8 DEF TtlLapses
    <2> QED  BY <2>3, <2>4 DEF SyncInv, SyncTypeOK, GuardOfOneRun
  <1>9. CASE UNCHANGED syncVars
    BY <1>9 DEF syncVars, SyncInv, SyncTypeOK, GuardOfOneRun
  <1> QED
    BY <1>1, <1>2, <1>3, <1>4, <1>5, <1>6, <1>7, <1>8, <1>9, EndingsKeep
       DEF SyncNext, RunStep

LEMMA SyncInvariant == SyncSpec => []SyncInv
  BY InitKeeps, StepKeeps, PTL DEF SyncSpec

LEMMA GuardCounts == GuardOfOneRun /\ inFlight \in BOOLEAN => OneBackgroundRun
  <1> SUFFICES ASSUME GuardOfOneRun, inFlight \in BOOLEAN PROVE OneBackgroundRun
    OBVIOUS
  <1> DEFINE out == {r \in Runs : run[r].hook}
  <1>1. CASE inFlight
    <2>1. PICK r \in Runs : run[r].hook
      BY <1>1 DEF GuardOfOneRun
    <2>2. out = {r}
      BY <2>1 DEF GuardOfOneRun
    <2>3. Cardinality(out) = 1
      <3> HIDE DEF out
      <3> QED  BY <2>2, FS_Singleton
    <2> QED  BY <1>1, <2>3 DEF OneBackgroundRun
  <1>2. CASE ~inFlight
    <2>1. out = {}
      BY <1>2 DEF GuardOfOneRun
    <2>2. Cardinality(out) = 0
      <3> HIDE DEF out
      <3> QED  BY <2>1, FS_EmptySet
    <2> QED  BY <1>2, <2>2 DEF OneBackgroundRun
  <1> QED  BY <1>1, <1>2

\* Type correctness of SkillsSync: stamps, runs and guard keep their types,
\* and a process that has not read the marker has no stamp in memory.
THEOREM SyncTypeCorrect == SyncSpec => []SyncTypeOK
  <1>1. SyncInv => SyncTypeOK
    BY DEF SyncInv
  <1> QED  BY <1>1, SyncInvariant, PTL

\* "schedules ONE background run" (sync/skills.py, module comment): prompts
\* that arrive together, a task that has not started, runs of an operator,
\* failures and crashes never put a second run of the hook out, and the guard
\* is never left set without one.
THEOREM AtMostOneBackgroundRun == SyncSpec => []OneBackgroundRun
  <1>1. SyncInv => OneBackgroundRun
    BY GuardCounts DEF SyncInv, SyncTypeOK
  <1> QED  BY <1>1, SyncInvariant, PTL
-----------------------------------------------------------------------------
(* The stored ETag: runs that overlap *)

\* Without a failure between landing and stamp, memory, marker and directories
\* speak of the same version.
StampIsHeld ==
    /\ marker.etag = synced
    /\ loaded => state.etag = synced

NothingBetween == Environment \cap {"index_down", "io_error", "crash_landing"} = {}

LEMMA SteadySave ==
    ASSUME NothingBetween, NEW stamp, Save(stamp)
    PROVE  marker' = stamp /\ state' = stamp /\ loaded' = TRUE
  BY DEF NothingBetween, Save

LEMMA HeldStepKeeps ==
    ASSUME NothingBetween, SyncInv, StampIsHeld, [SyncNext]_syncVars
    PROVE  StampIsHeld'
  <1>1. Known.etag = synced
    BY DEF StampIsHeld, Known
  <1>2. ASSUME NEW r \in Runs, FetchFails(r) \/ Unchanged(r) \/ Reject(r)
        PROVE  StampIsHeld'
    <2>1. PICK stamp : stamp.etag = Known.etag /\ Save(stamp) /\ synced' = synced
      BY <1>2 DEF FetchFails, Unchanged, Reject, FailedStamp
    <2> QED  BY <1>1, <2>1, SteadySave DEF StampIsHeld
  <1>3. ASSUME NEW r \in Runs, Land(r) PROVE StampIsHeld'
    <2>1. PICK stamp : stamp.etag = synced' /\ Save(stamp)
      BY <1>3 DEF Land
    <2> QED  BY <2>1, SteadySave DEF StampIsHeld
  <1>4. ASSUME NEW r \in Runs, LandUnindexed(r) \/ LandBreaks(r) \/ CrashLanding(r)
        PROVE  FALSE
    BY <1>4 DEF NothingBetween, LandUnindexed, LandBreaks, CrashLanding
  <1>5. ASSUME NEW r \in Runs, EnsureFresh(r) \/ OperatorStarts(r) \/ BackgroundStarts(r)
        PROVE  StampIsHeld'
    <2>1. state' = Known /\ loaded' = TRUE /\ synced' = synced /\ marker' = marker
      BY <1>5 DEF EnsureFresh, OperatorStarts, BackgroundStarts, Request, Load
    <2> QED  BY <1>1, <2>1 DEF StampIsHeld
  <1>6. ASSUME NEW r \in Runs, Answer(r) PROVE StampIsHeld'
    BY <1>6 DEF Answer, StampIsHeld
  <1>7. CASE Publish
    BY <1>7 DEF Publish, StampIsHeld
  <1>8. CASE TtlLapses
    <2>1. state \in Stamp /\ marker \in Stamp
      BY DEF SyncInv, SyncTypeOK
    <2>2. state'.etag = state.etag /\ marker'.etag = marker.etag
      BY <1>8, <2>1 DEF TtlLapses, Stamp
    <2> QED  BY <1>8, <2>2 DEF TtlLapses, StampIsHeld
  <1>9. CASE Crash
    BY <1>9 DEF Crash, NewProcess, StampIsHeld
  <1>10. CASE UNCHANGED syncVars
    BY <1>10 DEF syncVars, StampIsHeld
  <1> QED
    BY <1>2, <1>3, <1>4, <1>5, <1>6, <1>7, <1>8, <1>9, <1>10 DEF SyncNext, RunStep

\* However many runs of operators and of the hook overlap, in whatever order
\* they are answered, and even if upstream goes back to an earlier version: a
\* 304 never hides a corpus that differs from what upstream serves, as long as
\* what is landed is also stamped.
THEOREM OverlappingRunsHeal ==
    ASSUME NothingBetween
    PROVE  SyncSpec => []SelfHeals
  <1>1. SyncInit => StampIsHeld
    BY DEF SyncInit, StampIsHeld, NoStamp
  <1>2. SyncInv /\ StampIsHeld /\ [SyncNext]_syncVars => StampIsHeld'
    BY HeldStepKeeps
  <1>3. StampIsHeld => SelfHeals
    BY DEF StampIsHeld, SelfHeals, Known
  <1> QED  BY <1>1, <1>2, <1>3, SyncInvariant, PTL DEF SyncSpec
-----------------------------------------------------------------------------
(* The stored ETag: one run at a time, with every failure and crash *)

Older(e, v) == e = NoVersion \/ e < v

\* An ETag is harmless when upstream has moved past it, or when it is that of
\* the version the directories hold.
Harmless(e) == Older(e, upstream) \/ (e = upstream /\ synced = e)

\* The marker is never ahead of the memory, both are harmless, and a run that
\* is out asks about the version of the moment and is answered with a newer one.
EtagsHarmless ==
    /\ Harmless(marker.etag)
    /\ loaded => /\ Harmless(state.etag)
                 /\ marker.etag = state.etag \/ marker.etag = NoVersion
                        \/ (state.etag \in Versions /\ marker.etag < state.etag)
    /\ \A r \in Runs : run[r].phase \in {"waiting", "answered"} =>
            /\ run[r].etag = Known.etag
            /\ run[r].phase = "answered" /\ run[r].answer # NoVersion =>
                    /\ run[r].answer \in Versions
                    /\ Older(Known.etag, run[r].answer)
                    /\ run[r].answer <= upstream

OneAtATime == \A r, q \in Runs : r = q

OnlyForward == "revert" \notin Environment

\* What a save leaves in memory and, with or without an error, on disk.
LEMMA SaveLeaves ==
    ASSUME NEW stamp, Save(stamp)
    PROVE  /\ state' = stamp /\ loaded' = TRUE
           /\ marker' = stamp \/ marker' = marker \/ marker' = NoStamp
  BY DEF Save

\* The ETags of the types, and what is known about the marker.
LEMMA EtagFacts ==
    ASSUME SyncInv, EtagsHarmless
    PROVE  /\ marker.etag \in Etags /\ state.etag \in Etags /\ Known.etag \in Etags
           /\ Harmless(Known.etag)
           /\ marker.etag = Known.etag \/ marker.etag = NoVersion
                \/ (Known.etag \in Versions /\ marker.etag < Known.etag)
           /\ upstream \in Versions /\ Versions \subseteq Nat /\ NoVersion \notin Versions
           /\ NoStamp.etag = NoVersion
  <1>1. /\ marker.etag \in Etags /\ state.etag \in Etags /\ Known.etag \in Etags
    BY StampTypes DEF SyncInv, SyncTypeOK, Stamp
  <1>2. upstream \in Versions /\ Versions \subseteq Nat /\ NoVersion \notin Versions
    BY SyncAssumption DEF SyncInv, SyncTypeOK, Versions
  <1>3. NoStamp.etag = NoVersion
    BY DEF NoStamp
  <1> QED  BY <1>1, <1>2, <1>3 DEF EtagsHarmless, Known

LEMMA HarmlessStepKeeps ==
    ASSUME OneAtATime, OnlyForward, SyncInv, EtagsHarmless, [SyncNext]_syncVars
    PROVE  EtagsHarmless'
  <1>0. /\ run \in [Runs -> Run] /\ Idle.phase = "idle"
    BY DEF SyncInv, SyncTypeOK, Idle
  <1>1. ASSUME NEW r \in Runs, EndRun(r), upstream' = upstream,
               Harmless(marker.etag)', loaded' =>
                 /\ Harmless(state.etag)'
                 /\ \/ marker'.etag = state'.etag \/ marker'.etag = NoVersion
                    \/ (state'.etag \in Versions /\ marker'.etag < state'.etag)
        PROVE  EtagsHarmless'
    <2>1. \A q \in Runs : run'[q].phase = "idle"
      BY <1>0, <1>1 DEF EndRun, OneAtATime
    <2> QED  BY <1>1, <2>1 DEF EtagsHarmless
  \* The failures and the 304, which keep the ETag and the directories.
  <1>2. ASSUME NEW r \in Runs, FetchFails(r) \/ Unchanged(r) \/ Reject(r)
        PROVE  EtagsHarmless'
    <2>1. PICK stamp : stamp.etag = Known.etag /\ Save(stamp)
      BY <1>2 DEF FetchFails, Unchanged, Reject, FailedStamp
    <2>2. upstream' = upstream /\ synced' = synced /\ EndRun(r)
      BY <1>2 DEF FetchFails, Unchanged, Reject, EndFailedRun
    <2>3. /\ state'.etag = Known.etag
          /\ \/ marker'.etag = Known.etag \/ marker' = marker
             \/ marker'.etag = NoVersion
      BY <2>1, SaveLeaves, EtagFacts
    <2>4. /\ Harmless(marker.etag)' /\ Harmless(state.etag)'
          /\ \/ marker'.etag = state'.etag \/ marker'.etag = NoVersion
             \/ (state'.etag \in Versions /\ marker'.etag < state'.etag)
      BY <2>2, <2>3, EtagFacts DEF Harmless, Older, EtagsHarmless
    <2> QED  BY <1>1, <2>2, <2>4
  \* A response in full is newer than every ETag there is.
  <1>3. ASSUME NEW r \in Runs, NEW v \in Versions, Answered(r, v)
        PROVE  /\ Older(Known.etag, v) /\ Older(marker.etag, v) /\ v <= upstream
    <2>1. Older(Known.etag, v) /\ v <= upstream
      BY <1>3, EtagFacts DEF Answered, EtagsHarmless
    <2> QED  BY <2>1, EtagFacts DEF Older, Etags
  <1>4. ASSUME NEW r \in Runs, Land(r) PROVE EtagsHarmless'
    <2>1. PICK v \in Versions : /\ Answered(r, v) /\ synced' = v
                               /\ \E stamp : stamp.etag = v /\ Save(stamp)
      BY <1>4 DEF Land
    <2>2. upstream' = upstream /\ EndRun(r)
      BY <1>4 DEF Land
    <2>3. /\ state'.etag = v
          /\ marker'.etag = v \/ marker' = marker \/ marker'.etag = NoVersion
      BY <2>1, SaveLeaves, EtagFacts
    <2>4. Older(Known.etag, v) /\ Older(marker.etag, v) /\ v <= upstream
      BY <1>3, <2>1
    <2>5. /\ Harmless(marker.etag)' /\ Harmless(state.etag)'
          /\ \/ marker'.etag = state'.etag \/ marker'.etag = NoVersion
             \/ (state'.etag \in Versions /\ marker'.etag < state'.etag)
      BY <2>1, <2>2, <2>3, <2>4, EtagFacts DEF Harmless, Older, Etags
    <2> QED  BY <1>1, <2>2, <2>5
  <1>5. ASSUME NEW r \in Runs, LandUnindexed(r) PROVE EtagsHarmless'
    <2>1. PICK v \in Versions : Answered(r, v) /\ synced' = v
      BY <1>5 DEF LandUnindexed
    <2>2. /\ upstream' = upstream /\ EndRun(r)
          /\ \E stamp : stamp.etag = Known.etag /\ Save(stamp)
      BY <1>5 DEF LandUnindexed, EndFailedRun, FailedStamp
    <2>3. /\ state'.etag = Known.etag
          /\ \/ marker'.etag = Known.etag \/ marker' = marker
             \/ marker'.etag = NoVersion
      BY <2>2, SaveLeaves, EtagFacts
    <2>4. Older(Known.etag, v) /\ Older(marker.etag, v) /\ v <= upstream
      BY <1>3, <2>1
    <2>5. /\ Harmless(marker.etag)' /\ Harmless(state.etag)'
          /\ \/ marker'.etag = state'.etag \/ marker'.etag = NoVersion
             \/ (state'.etag \in Versions /\ marker'.etag < state'.etag)
      BY <2>2, <2>3, <2>4, EtagFacts DEF Harmless, Older, Etags
    <2> QED  BY <1>1, <2>2, <2>5
  <1>6. ASSUME NEW r \in Runs, LandBreaks(r) PROVE EtagsHarmless'
    <2>1. PICK v \in Versions : Answered(r, v)
      BY <1>6 DEF LandBreaks
    <2>2. /\ UNCHANGED <<upstream, marker, state, loaded>> /\ EndRun(r)
      BY <1>6 DEF LandBreaks, EndFailedRun
    <2>3. Older(Known.etag, v) /\ Older(marker.etag, v) /\ v <= upstream
      BY <1>3, <2>1
    <2>4. /\ Harmless(marker.etag)' /\ (loaded => Harmless(state.etag)')
      BY <2>2, <2>3, EtagFacts DEF Harmless, Older, Etags, Known
    <2> QED  BY <1>1, <2>2, <2>4 DEF EtagsHarmless
  <1>7. ASSUME NewProcess, Harmless(marker.etag)' PROVE EtagsHarmless'
    BY <1>0, <1>7 DEF NewProcess, EtagsHarmless
  <1>8. ASSUME NEW r \in Runs, CrashLanding(r) PROVE EtagsHarmless'
    <2>1. PICK v \in Versions : Answered(r, v)
      BY <1>8 DEF CrashLanding
    <2>2. /\ NewProcess /\ upstream' = upstream
          /\ marker' = marker \/ marker' = NoStamp
      BY <1>8 DEF CrashLanding, NewProcess
    <2>3. Older(marker.etag, v) /\ v <= upstream
      BY <1>3, <2>1
    <2>4. Harmless(marker.etag)'
      BY <2>2, <2>3, EtagFacts DEF Harmless, Older, Etags
    <2> QED  BY <1>7, <2>2, <2>4
  <1>9. CASE Crash
    <2>1. NewProcess /\ UNCHANGED <<upstream, marker, synced>>
      BY <1>9 DEF Crash, NewProcess
    <2> QED  BY <1>7, <2>1 DEF EtagsHarmless, Harmless
  \* Loading the marker changes nothing that is known.
  <1>10. ASSUME Load, UNCHANGED <<upstream, synced, marker>>
         PROVE  /\ Known' = Known /\ Harmless(marker.etag)' /\ Harmless(state.etag)'
                /\ \/ marker'.etag = state'.etag \/ marker'.etag = NoVersion
                   \/ (state'.etag \in Versions /\ marker'.etag < state'.etag)
    <2>1. state' = Known /\ loaded' = TRUE
      BY <1>10 DEF Load
    <2> QED  BY <1>10, <2>1, EtagFacts DEF Known, Harmless, EtagsHarmless
  <1>11. ASSUME NEW r \in Runs, EnsureFresh(r) PROVE EtagsHarmless'
    <2>1. \A q \in Runs : run'[q].phase = "scheduled"
      BY <1>0, <1>11 DEF EnsureFresh, OneAtATime, Idle
    <2>2. Load /\ UNCHANGED <<upstream, synced, marker>>
      BY <1>11 DEF EnsureFresh
    <2> QED  BY <1>10, <2>1, <2>2 DEF EtagsHarmless
  <1>12. ASSUME NEW r \in Runs, OperatorStarts(r) \/ BackgroundStarts(r)
         PROVE  EtagsHarmless'
    <2>1. \A q \in Runs : run'[q].phase = "waiting" /\ run'[q].etag = Known.etag
      BY <1>0, <1>12 DEF OperatorStarts, BackgroundStarts, Request, OneAtATime
    <2>2. Load /\ UNCHANGED <<upstream, synced, marker>>
      BY <1>12 DEF OperatorStarts, BackgroundStarts, Request
    <2> QED  BY <1>10, <2>1, <2>2 DEF EtagsHarmless
  <1>13. ASSUME NEW r \in Runs, Answer(r) PROVE EtagsHarmless'
    <2>1. run[r] \in Run /\ run[r].phase = "waiting" /\ run[r].etag = Known.etag
      BY <1>0, <1>13 DEF Answer, EtagsHarmless
    <2>2. \A q \in Runs : /\ run'[q].etag = Known.etag
                          /\ run'[q].answer = IF Known.etag = upstream THEN NoVersion
                                              ELSE upstream
      BY <1>0, <1>13, <2>1 DEF Answer, OneAtATime, Run
    <2>3. /\ UNCHANGED <<upstream, synced, marker, state, loaded>> /\ Known' = Known
      BY <1>13 DEF Answer, Known
    <2>4. Known.etag # upstream => Older(Known.etag, upstream)
      BY EtagFacts DEF Harmless
    <2>5. \A q \in Runs : run'[q].answer # NoVersion =>
                run'[q].answer = upstream /\ Older(Known.etag, upstream)
      BY <2>2, <2>4
    <2> QED  BY <2>2, <2>3, <2>5, EtagFacts DEF EtagsHarmless, Harmless, Older
  <1>14. CASE Publish
    <2>1. /\ upstream' \in Versions /\ upstream' > upstream
          /\ UNCHANGED <<synced, marker, state, loaded, run>> /\ Known' = Known
      BY <1>14 DEF Publish, OnlyForward, Known
    <2>2. \A e \in Etags : Harmless(e) => Harmless(e)'
      BY <2>1, EtagFacts DEF Harmless, Older, Etags
    <2>3. \A v \in Versions : v <= upstream => v <= upstream'
      BY <2>1, EtagFacts
    <2> QED  BY <2>1, <2>2, <2>3, EtagFacts DEF EtagsHarmless, Harmless, Older
  <1>15. CASE TtlLapses
    <2>1. state \in Stamp /\ marker \in Stamp
      BY DEF SyncInv, SyncTypeOK
    <2>2. state'.etag = state.etag /\ marker'.etag = marker.etag
      BY <1>15, <2>1 DEF TtlLapses, Stamp
    <2>3. UNCHANGED <<upstream, synced, loaded, run>> /\ Known'.etag = Known.etag
      BY <1>15, <2>2 DEF TtlLapses, Known
    <2> QED  BY <2>2, <2>3 DEF EtagsHarmless, Harmless, Older
  <1>16. CASE UNCHANGED syncVars
    BY <1>16 DEF syncVars, EtagsHarmless, Harmless, Older, Known
  <1> QED
    BY <1>2, <1>4, <1>5, <1>6, <1>8, <1>9, <1>11, <1>12, <1>13, <1>14, <1>15, <1>16
       DEF SyncNext, RunStep

\* Runs one at a time heal whatever fails: a request or a save that fails, a
\* landing that is cut short, an index that is down and a crash at any point
\* never leave an ETag for which upstream would answer 304 over a corpus that
\* is not its version.
THEOREM LoneRunsHeal ==
    ASSUME OneAtATime, OnlyForward
    PROVE  SyncSpec => []SelfHeals
  <1>1. SyncInit => EtagsHarmless
    BY DEF SyncInit, EtagsHarmless, Harmless, Older, NoStamp, Idle, Known
  <1>2. SyncInv /\ EtagsHarmless /\ [SyncNext]_syncVars => EtagsHarmless'
    BY HarmlessStepKeeps
  <1>3. SyncInv /\ EtagsHarmless => SelfHeals
    <2>1. SUFFICES ASSUME SyncInv, EtagsHarmless PROVE SelfHeals
      OBVIOUS
    <2>2. upstream \in Nat /\ upstream # NoVersion /\ Harmless(Known.etag)
      BY <2>1, EtagFacts
    <2> QED  BY <2>2 DEF Harmless, Older, SelfHeals
  <1> QED  BY <1>1, <1>2, <1>3, SyncInvariant, PTL DEF SyncSpec
-----------------------------------------------------------------------------
(* One attempt per window *)

\* While a TTL has not passed since the last attempt, the marker says so, and
\* so does the memory of a process that has read it.
AttemptIsStamped == attempted => marker.fresh /\ (loaded => state.fresh)

MarkersAreWritten == "io_error" \notin Environment

LEMMA StampedStepKeeps ==
    ASSUME MarkersAreWritten, SyncInv, AttemptIsStamped, [SyncNext]_syncVars
    PROVE  AttemptIsStamped'
  <1>1. ASSUME NEW stamp, Save(stamp), stamp.fresh PROVE AttemptIsStamped'
    BY <1>1 DEF MarkersAreWritten, Save, AttemptIsStamped
  <1>2. ASSUME NEW r \in Runs, \/ FetchFails(r) \/ Unchanged(r) \/ Reject(r)
                               \/ Land(r) \/ LandUnindexed(r)
        PROVE  AttemptIsStamped'
    <2>1. \E stamp : stamp.fresh /\ Save(stamp)
      BY <1>2 DEF FetchFails, Unchanged, Reject, Land, LandUnindexed, FailedStamp
    <2> QED  BY <1>1, <2>1
  <1>3. ASSUME NEW r \in Runs, LandBreaks(r) PROVE FALSE
    BY <1>3 DEF MarkersAreWritten, LandBreaks
  <1>4. ASSUME NEW r \in Runs, EnsureFresh(r) \/ OperatorStarts(r) \/ BackgroundStarts(r)
        PROVE  AttemptIsStamped'
    <2>1. state' = Known /\ marker' = marker /\ attempted' = attempted
      BY <1>4 DEF EnsureFresh, OperatorStarts, BackgroundStarts, Request, Load
    <2> QED  BY <2>1 DEF AttemptIsStamped, Known
  <1>5. ASSUME NEW r \in Runs, CrashLanding(r) PROVE AttemptIsStamped'
    <2>1. loaded' = FALSE /\ attempted' = (attempted /\ marker' = marker)
      BY <1>5 DEF CrashLanding, NewProcess
    <2> QED  BY <2>1 DEF AttemptIsStamped
  <1>6. CASE Crash
    BY <1>6 DEF Crash, NewProcess, AttemptIsStamped
  <1>7. CASE TtlLapses
    BY <1>7 DEF TtlLapses, AttemptIsStamped
  <1>8. CASE Publish \/ (\E r \in Runs : Answer(r)) \/ UNCHANGED syncVars
    BY <1>8 DEF Publish, Answer, syncVars, AttemptIsStamped
  <1> QED
    BY <1>2, <1>3, <1>4, <1>5, <1>6, <1>7, <1>8 DEF SyncNext, RunStep

\* "One attempt per TTL window ... (no retries)" (sync/skills.py), across runs
\* of operators, failures of the request, of the archive and of the index, and
\* crashes that leave the marker whole: the prompt hook starts nothing within
\* a TTL of the end of an attempt.  A marker that cannot be written or a
\* landing that breaks on the disk stamps nothing, and is tried again by the
\* next prompt.
THEOREM AttemptsKeepTheirDistance ==
    ASSUME MarkersAreWritten
    PROVE  SyncSpec => OneAttemptPerWindow
  <1>1. SyncInit => AttemptIsStamped
    BY DEF SyncInit, AttemptIsStamped
  <1>2. SyncInv /\ AttemptIsStamped /\ [SyncNext]_syncVars => AttemptIsStamped'
    BY StampedStepKeeps
  <1>3. ASSUME SyncInv, AttemptIsStamped, [SyncNext]_syncVars
        PROVE  [inFlight' /\ ~inFlight => ~attempted]_syncVars
    <2>1. SUFFICES ASSUME inFlight', ~inFlight, attempted PROVE FALSE
      OBVIOUS
    \* What is known is fresh, and only a prompt that finds it stale sets the
    \* guard.
    <2>2. Known.fresh
      BY <1>3, <2>1 DEF AttemptIsStamped, Known
    <2>3. ASSUME NEW r \in Runs, EnsureFresh(r) PROVE FALSE
      BY <2>2, <2>3 DEF EnsureFresh, Due
    <2>4. ASSUME NEW r \in Runs, EndRun(r) PROVE FALSE
      BY <2>1, <2>4 DEF EndRun
    <2>5. ASSUME NEW r \in Runs, RunStep(r) \/ OperatorStarts(r) \/ CrashLanding(r)
          PROVE  FALSE
      BY <2>1, <2>4, <2>5
         DEF RunStep, OperatorStarts, BackgroundStarts, Request, Answer, FetchFails,
             Unchanged, Reject, Land, LandUnindexed, LandBreaks, EndFailedRun,
             CrashLanding, NewProcess
    <2>6. CASE Publish \/ TtlLapses \/ Crash \/ UNCHANGED syncVars
      BY <2>1, <2>6 DEF Publish, TtlLapses, Crash, NewProcess, syncVars
    <2> QED  BY <1>3, <2>3, <2>5, <2>6 DEF SyncNext
  <1> QED  BY <1>1, <1>2, <1>3, SyncInvariant, PTL DEF SyncSpec, OneAttemptPerWindow
=============================================================================

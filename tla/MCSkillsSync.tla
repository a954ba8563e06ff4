---------------------------- MODULE MCSkillsSync ----------------------------
(***************************************************************************)
(* Small instances of SkillsSync: the worlds the runs put around it.       *)
(***************************************************************************)
EXTENDS SkillsSync

\* One run at a time, any failure, any crash.
Failing == {"fetch_fails", "index_down", "io_error", "crash", "crash_landing"}
\* Runs that overlap; a response that is being handled gets through.
Overlapping == {"fetch_fails", "crash", "revert"}
=============================================================================

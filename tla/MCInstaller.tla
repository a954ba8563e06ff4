----------------------------- MODULE MCInstaller -----------------------------
(***************************************************************************)
(* A small instance of Installer.                                          *)
(***************************************************************************)
EXTENDS Installer

Request(key, judge, provider, granularity) ==
    [key |-> key, judge |-> judge, provider |-> provider, granularity |-> granularity]

\* A sound request, and each of the ways it can be wrong.
SomeRequests == {Request(TRUE, TRUE, "none", "valid"), Request(FALSE, TRUE, "none", "valid"),
                 Request(TRUE, FALSE, "none", "valid"), Request(TRUE, TRUE, "cognee", "valid"),
                 Request(TRUE, TRUE, "mem0", "valid"), Request(TRUE, TRUE, "none", "invalid")}
Wirings == {<<"claude", "codex">>, <<"generic">>}
=============================================================================

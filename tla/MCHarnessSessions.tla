------------------------- MODULE MCHarnessSessions -------------------------
(***************************************************************************)
(* A small instance of HarnessSessions: sessions of the hooks, of the MCP  *)
(* tools and of both, which push each other out of the store.              *)
(***************************************************************************)
EXTENDS HarnessSessions

CONSTANTS h1, h2, m1, f1, k1

NoManifests == [t \in Bodies |-> {}]
NoHits == [t \in Bodies |-> {}]
OnePath == {{f1}}
AllSessions == HookSessions \cup McpSessions
WithRestart == {"prompt_error", "overlap", "post_lost", "hook_down", "restart"}
=============================================================================

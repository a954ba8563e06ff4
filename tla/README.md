# BetterAI: specifications and proofs

TLA+ specifications of the BetterAI server (`src/app`), the TLC instances that
check them, and TLAPS proofs of what they promise. Paths below are relative to
the repository root; `hooks/...` and the like are under `src/app/`.

BetterAI serves skills and rules from a markdown corpus to coding agents. An
agent's hooks (prompt, before and after a tool call, stop, session end) post to
the server, which answers with skills to read and with allow or deny; the
agent's MCP client calls tools on the same server. The interesting part is
neither search nor storage on its own. It is that four gates decide on state
that hooks, MCP tools, eviction and restarts all write, that three stores and a
mirror of an upstream repository are meant to follow the corpus, and that an
installer writes into files the user goes on editing.

## 1. The system

| Component | State | Operations | Talks to |
|---|---|---|---|
| Session store `hooks/state.py` | dict session → namespace → key, at most `MAX_SESSIONS`, insertion order = recency | `get`, `set`, `delete`, `begin_turn`, `clear_session`, eviction | every gate and tool, in process |
| Hook endpoints `hooks/routes.py`, chain `hooks/chain.py`, `mcp/registry.py` | none of their own | UserPromptSubmit, PreToolUse, PostToolUse, Stop, SessionEnd | store, plan cache, corpus, retrieval, sync, audit |
| Read gate `mcp/read_gate` | `required`, `read`, stop latch (per turn) | reset, deny, block a stop once, clear | written by hooks, `query_skills`, `get_skill`, `get_plan_skills` |
| Receipt gate `mcp/retrieval_receipt_gate` | receipt (per turn), prompt evidence (per session) | deny without a receipt | written by the prompt hook and `query_skills` |
| Manifest gate `mcp/plan_manifest_gate` | entries, active flag (per session) | capture, extend, deactivate, deny | plan files the agent writes |
| Budget gate `mcp/edit_budget_gate` | mutation count, touched files (per turn) | count, deny | PostToolUse reports |
| Plan cache `hooks/plan_cache.py` | plan path → hash and matches, bounded LRU | `upsert`, `get`, `latest`, active plan of a session | PostToolUse, the prompt hook, `get_plan_skills` |
| MCP tools `mcp/*/handler.py`, `server.py` | store entries of their transport session | nine tools | store, corpus, retrieval |
| Skills sync `sync/skills.py` | in-memory state, `_in_flight`, marker file, `synced-github` directories | `ensure_fresh`, `run_now`, background run | GitHub, corpus, retrieval |
| Index `retrieval/` | Postgres rows and embeddings, Redis records, in-memory artifact map | `ingest`, `index_corpus`, `index_artifact`, `query` | Postgres, Redis, an embedding provider |
| Search and expansion `retrieval/search.py`, `expand.py`, selection in `hooks/routes.py` | none | queries over a prompt and its aspects, threshold, best score, cuts; plan batches | index, chat model |
| Corpus `corpus/` | markdown files, parse cache | read, find, write, validate | tools, sync, ingest |
| Ingest pipeline `ingest/` | none | fetch, extract, chunk, distil, write | corpus, index, chat model |
| Installer and shims `installer/`, `cli.py` | `~/.betterai`, the clients' configuration, the compose stack | install, start, harness on and off | the clients' files, docker |
| Auth, settings, errors, audit, clients, evals | token; audit log; reports | small | |

How they interact, and where it is hard:

- **One event loop.** A hook handler suspends only while its request body is
  read. From there to its response it does not yield: the pipeline's query
  awaits nothing unless it is given a progress callback, and no hook gives one.
  So one handler is one action. The interleavings are between handlers.
- **The agent is concurrent.** It may have several tool calls in flight, send a
  prompt while one runs, and time out of a hook after five seconds
  (`installer/hooks_scripts.py`), after which it goes on without a decision.
- **`query_skills` does suspend**, between the receipt it marks and the
  requirements it adds.
- **Sessions compete.** The store holds 1024 (`MAX_SESSIONS`); MCP transport sessions are never
  ended and count as well.
- **State has three lifetimes**: the turn (`TURN_NAMESPACES`), the session, the
  process. Corpus, marker, Postgres and Redis snapshots outlive the process.
- **Sync runs overlap** (prompt hook and operator), fail in typed and untyped
  ways, and may die between removing a directory and writing the marker.
- **An index writes three places in order** and may stop anywhere.
- **One bad file fails every read of the corpus**, so what five writers leave
  must be what one reader accepts.
- **The installer is a list of steps** without rollback, over files of which it
  owns only a block.

What makes each correct:

- store: bounded; an evicted or ended session leaves nothing behind that a gate
  could read as evidence;
- read gate: hooks never require what they did not serve in the same breath; a
  stop is blocked at most once per turn;
- receipt gate: it denies a session whose last prompt broke, never one that no
  prompt was ever delivered to;
- manifest gate: active means it lists something; the list never shrinks and
  grows only by justified entries;
- budget gate: what it counts belongs to the turn; one edit (or file) per turn;
- plan cache: a stored hash is never ahead of the stored matches;
- sync: one background run; one attempt per TTL; the stored ETag never hides a
  corpus that differs from upstream; upstream gets in eventually;
- index: Redis can be rebuilt from Postgres; a record is searched by the
  embedding of its own text; what has been indexed is served as the file says;
  no hit without an artifact;
- search and selection: every artifact once, with its best score, best first; a
  prompt's requirements are a choice the gates allow;
- plans: the audit rendered from a plan is invisible in it; a manifest entry and
  a path match exactly when they may be one file;
- skill files: nothing a tool writes makes the corpus unreadable; a classifier
  never overrules an author;
- installer: off leaves nothing of ours, on leaves one block, the user's part is
  kept; what installed boots, and the server that starts is the one installed.

`PROJECT.json` lists the components with their status and the hazards with the
line where each bites and the properties that would catch it.

## 2. Modules

| Module | Stands for | State |
|---|---|---|
| `Recency` | the bounded insertion-ordered dict, as functions on sequences | none |
| `SessionStore` | `InMemorySessionStore`; a session's namespaces are one record | `order`, `bucket` |
| `PlanSkillCache` | `PlanSkillCache`, with the same recency list | `planOrder`, `planEntry` |
| `HookGates` | the five endpoints, the four gates, the agent that calls them | the above, `granularity`, `call`, `turn` |
| `HarnessSessions` | `HookGates` composed with the MCP tools that write the store | the above, `query`, `lost` |
| `GatePromise` | what the gates promise, without the store (abstract specification) | `trust`, `scope`, `granted` |
| `SkillsSync` | `sync/skills.py` with its upstream, disk and process | `upstream`, `synced`, `marker`, `state`, `loaded`, `inFlight`, `run`, `attempted` |
| `CorpusFiles` | the tree of markdown files: walk order, `find`, duplicates, landings | `file` |
| `ArtifactIndex` | `CorpusFiles` with its writers, Postgres, Redis, in-memory map | the above, `world`, `model`, `row`, `record`, `snapshot`, `known`, `settled`, `mixed` |
| `Selection` | `search.py`, the selection and plan batches of `routes.py`, failed expansion | none |
| `PlanText` | the manifest parser, the audit, the sections, the match of paths | none |
| `SkillFile` | what the tools write into a corpus file and what the reader accepts; the comment policy | none |
| `Rules` | the functions of the last three, one input per state | `probe` |
| `ClientWiring` | sentinel blocks and the adapters of the three clients, as functions | none |
| `Installer` | install, start, harness on and off, step by step; the stack; the user | `tree`, `wiring`, `command`, `done`, `server`, `volume`, and histories |
| `Lists` | list comprehensions, as folds | none |
| `ListTheorems`, `...Proofs` | proofs (section 4) | |
| `MC...` | values of constants for TLC | |

Histories (`turn`, `lost`, `attempted`, `settled`, `mixed`, `minted`, `own`,
`damaged`) record what happened and guard nothing the code does.

Correspondence with the code, where it is not one to one:

- `Write(s, b)` is all the `store.set` calls of one handler for session `s`
  together. They all touch the same session and nothing runs between them, so
  they move `s` to the recent end once and evict at most what one of them would.
- `Delivered` is `begin_turn`, `set_required`, `mark_retrieved`,
  `mark_prompt_seen` and one `mark_read` per served skill: lines 59 to 79 of
  `hooks/routes.py`. `PromptReleased` is the same with a warning, when nothing
  is served; `PromptBroken` is the handler that raises after `begin_turn`.
- `CapRequired` is `_cap_required`: which of the scored artifacts survive the
  cut depends on scores, and is a choice; that forced ones lead is not. `Rules`
  checks that what `Selection` computes is one of these choices (`PromptFitsGate`).
- A denial changes nothing but the audit log, so it is the absence of a step.
- `call` and `turn` are the agent's side: calls in flight, and a history of what
  became of the turn. No gate reads them.
- `PostPlanQuiet`, `PostPlanSurfaced` and `PostPlanAborted` are the outcomes of
  a PostToolUse for a plan file. The parse is the constant `FilesToTouch`
  (body → entries, empty when it does not parse) and the match of paths is
  equality; `PlanText` has both in full. Retrieval for a plan is `Hits`.
- A session's `trust` in `GatePromise` is derived from evidence and receipt, its
  `scope` from the active manifest, `granted` from the calls that were gated.
- In `SkillsSync` the step from the response to the saved marker is one action,
  unless the process dies in it (`CrashLanding`). The ETag of a response stands
  for the version it was answered from. `TtlLapses` is the passing of
  `skills_sync_ttl`.
- In `CorpusFiles` a place is a category directory, numbered in the order the
  reader walks; a file is a place and an id. The writers look at no other place,
  so an id may get two files.
- In `ArtifactIndex` an embedding is the text it was computed from, and the hash
  of a text is the text. A failed ingest leaves one of the outcomes of
  `AfterFailure`, in the order of `ingest`: rows first, records after. The
  process dying in the middle is such an outcome followed by `Restart`. A tool
  call is a step: the file, and what the index made of it (`Written`);
  `IngestDocument` is two of them, the second only if the first went through.
- In `Selection` a query text is a model value that the index maps to its hits;
  a hit has a similarity, a keyword flag and a fused score. The fusion itself is
  in the database and is an input.
- In `PlanText` a plan is a sequence of kinds of lines, a path a sequence of
  segments. In `SkillFile` a facet is known by who gave it and whether the
  schema takes it.
- In `ClientWiring` a text is the user's lines and the lines of a block; of
  Claude's settings the matcher groups of one event and the entries of
  `permissions.allow` count. A group or entry is the user's (`own`), ours, a
  group with commands of both (`mixed`), or a permission the user gave to one of
  our tools (`granted`). Claude's fallback file and its registration of the
  bridge are state of their own.
- In `Installer` a command is the list of its steps; `Killed` may end it between
  any two. Only install runs `claude mcp add`, which may be missing or fail
  without failing the step (`registers`). Passwords and tokens are numbered as
  they are minted.

`Environment` (in `ArtifactIndex`: `world`) is a set of freedoms: what the world
around the component may do. A run names the ones it grants, so that a property
that needs an orderly agent says so, and one that does not is checked against
all of them.

## 3. Runs

| Run | Instance | States | Shows |
|---|---|---|---|
| `hooks_parallel` | one session, two calls at once, one plan with three texts, calls over one or two files, every freedom | 528,089 | types, and that whatever interleaves: nothing a hook requires is unread, a receipt speaks of its turn, an active manifest is not empty, and the gates implement `GatePromise` |
| `hooks_plans` | one session between two plans, a cache of one, every freedom | 126,037 | cache bounded and never ahead of its matches; the touch set only grows, by justification |
| `budget_orderly` | both granularities, one single-file call at a time, no prompt during a call, prompts that break | 856 | the edit budget as documented |
| `harness_sessions` | a hook session, an MCP session and one of both, in a store of one; restarts, lost requests | 176,796 | eviction forgets whole sessions, only a `query_skills` call that finishes leaves something unread, a stop is blocked once per turn, nobody is locked out, `GatePromise` holds |
| `sync_alone` | one run at a time, three versions of which one is rejected, failures of every kind, crashes anywhere | 1,346 | self-healing, convergence |
| `sync_overlap` | three runs, upstream going back and forth, failed fetches, crashes between steps | 48,276 | types, self-healing under overlap, one background run, one attempt per TTL window, the guard opens again |
| `index_recovers` | two ids, two texts, an ordinary and a synced place; either stores that fail part way, deletions and Redis snapshots, or ids in two places and landings | 22,622 | Redis rebuildable, embeddings of their own texts, indexed is current, landings stay apart |
| `rules` | every index over three texts and two artifacts with five answers each, plans of up to four lines, pairs of paths of up to three segments, files of two facets | 36,949 | the pure functions against reference definitions |
| `install` | two lists of clients, six requests of which some install, some fail and one does not boot, seven kinds of user edits, five commands and edits | 2,523,623 | off cleans the files it is for and on leaves each entry once, the user's work is kept, what installed boots, a start after it serves it |
| `budget_parallel` | two calls in flight | | violates `OneEditPerTurn` |
| `index_orphan` | a deleted file and a restart | | violates `NoOrphans` |
| `off_leaves` | installs and toggles | | violates `OffReverts` |

The last three state what the code's own documentation says and find that the
code does otherwise; `PROJECT.json` quotes the lines under `findings`. Others of
the kind have no run of their own; where a property and a run are named, the
cfg of that run with the property in the place of its own shows it:

- `ExpansionNeverGates`, in `rules`: a failed expansion is "an enhancer, not a
  gate" (`retrieval/expand.py:6`), but its warning makes the prompt hook serve
  nothing, forced skills included (`hooks/routes.py:69`, 257).
- `OneFilePerTurn` and `BudgetIsOfThisTurn`, in `budget_orderly`: with calls over
  two files (the touch sets `EachPathOrBothSources`) the first one, which finds
  no file counted, touches both, against `mcp/edit_budget_gate/gate.py:5`; with
  prompts during a call (the freedom `overlap`) a late report spends the budget
  of the next turn, against `mcp/edit_budget_gate/store.py:3`.
- `PasswordAgrees`, in `install`: a reinstall mints a new Postgres password while
  the volume keeps the old one (`installer/install_env.py:60`, against its
  docstring, "minted exactly once"), so that the server cannot connect. What
  `ReadyBoots` calls a boot is that compose and settings take the files; it does
  not extend to this password.
- `TokenAgrees`, in `install`: a token file that is gone is written anew under a
  running server (`cli.py:329`, against `auth.py:7`), which refuses hooks and
  bridge until it is started again. As long as the user leaves the file alone
  the tokens agree, which is proved; that the start repairs it is
  `StartServesInstall`.
- `GroupsKept` (a PROPERTY), in `install`: a matcher group with a command of the
  user's beside one of ours is dropped whole (`adapters.py:241`, against line 5,
  "removed by exact-match filtering").
- `SelfHeals` holds in `sync_alone` and `sync_overlap` because each leaves
  something out. When a landing breaks or dies half way (`io_error`,
  `crash_landing`) and upstream goes back to the version of the last stamp
  (`revert`), or an overlapping run has stamped the version upstream serves, the
  next answer is 304 and the torn directories stay until upstream changes again.
- A landing that raises `OSError` leaves no stamp (`sync/skills.py:86` catches
  typed errors only), so the next prompt tries again within the TTL, against
  `sync/skills.py:8`: `OneAttemptPerWindow` fails in `sync_overlap` with the
  freedom `io_error`.
- The hash that decides on the reuse of an embedding is shared by all models
  (`retrieval/pg.py:64`), and row and embedding are two statements on an
  autocommit connection (`pg.py:118`). With the freedoms `model_switch` or
  `pg_tears`, which `index_recovers` leaves out, `MixingIsConfined` fails.
- A permission the user gave to one of BetterAI's tools is dropped
  (`adapters.py:246` says every user entry is kept); a sentinel that lost its
  partner may take the lines up to the next one with it; harness on and off stop
  at the first client that fails; install does not check the granularity the
  server will refuse to boot with.
- The file paths and symbols of an expansion are passed to the query and ignored
  there (`retrieval/__init__.py:57`).
- `_cap_required` keeps every forced artifact it is given, and the reader removes
  repeated ids between scopes only: two files of one scope with the same forced
  id are both required and both served. `rules` gives no forced id twice, and
  the theorem about prompts says so (`ForcedAreDistinct`).
- `concise-comments` ships a level, so `BETTERAI_COMMENT_VERBOSITY` never
  applies until that is removed; `edit_skill` drops the configured settings and
  extra keys that a spec leaves out.

**Bounds, and why they are enough.** Three sessions and a store of one: every
write of one pushes out another, which is all eviction can do to a session. Two
calls and two files make every order of gate, tool and report. Three plan texts
are one that does not parse, one that arms the gate and one that extends it. One
skill that is forced and one that is not, with a cap of one, make the cut bite.
`EditBound` caps the edits of a turn: well above the budget in the budget runs,
one elsewhere, where either the budget is off and the reports of an applied and
of a failed call have the same effect, or one edit spends it. Two texts are an
artifact before and after a change; two ids are a batch that fails between them;
two places are an id with two files, and the second is the one landings replace.
Three versions are the one that is synced, one that is rejected and the one
upstream moves on to; in `sync_overlap` two that alternate. Two artifacts that
tie, beat each other or fall below the threshold, over a prompt and two aspects
in batches of one and two, make every merge of results. Four lines put a
section, an audit and a manifest with a justification next to each other; three
segments put a prefix, a suffix and `..` in one path. `MaxActs` is five commands
or edits, each command of up to seven steps: install, change, off, change, on.
Symmetry is used only where a run has no liveness property.

**Deadlock** is checked in every run but `install`, where an installation nobody
touches any more rightly stays as it is: elsewhere some hook, tool, operator or
further input can always act.

**Fairness.** `RunsEnd` is weak fairness of the steps of each sync run: the event
loop runs a ready task, and httpx ends a request within its timeout. It is all
that `InFlightClears` needs. `SyncConverges` also needs `NotAlwaysFailing`:
time passes, prompts keep coming, and an answer that is possible again and again
is at some time handled without a failure or a crash. That is an assumption on
the world, not on the code, and is stated as strong fairness of the successful
steps only.

## 4. Proofs

For every value of the constants: any number of sessions, skills, plans, calls,
runs, versions, ids, places, requests and acts; plans, paths, texts and result
lists of any length; any cap, budget, bound and batch size. Every safety property
a passing run checks is stated by a theorem. The constants are assumed to have
their types, sentinels to be apart and places to be finitely many
(`StoreAssumption`, `CacheAssumption`, `GateAssumption`, `HarnessAssumption`,
`SyncAssumption`, `CorpusAssumption`, `IndexAssumption`, `WiringAssumption`,
`InstallerAssumption`, `SelectionAssumption`, `PlanTextAssumption`,
`SkillFileAssumption`, `RulesAssumption`); TLC evaluates these in the runs.

| Module | Theorem | States | Also assumes |
|---|---|---|---|
| `HookGatesProofs` | `TouchedFacts` | touching a key keeps a recency list free of repeats and within its bound | |
| | `Typing` | `TypeOK` | |
| | `StoreStaysSound` | `StoreSound` | |
| | `NothingStaysUnread` | `NothingUnread` | |
| | `ManifestStaysArmed` | `ManifestArmed` | |
| | `ManifestGrowth` | `ManifestOnlyGrowsByJustification` | |
| | `ReceiptStaysOfThisTurn` | `ReceiptIsOfThisTurn` | |
| | `CacheStaysSound`, `CacheNeverAhead` | `CacheSound`, `CacheNotAhead` | |
| | `BudgetStaysOfThisTurn` | `BudgetIsOfThisTurn` | no `overlap`, finitely many calls |
| | `OrderlyTurnsEditOnce`, `OrderlyTurnsTouchOneFile` | `OneEditPerTurn`, `OneFilePerTurn` | `OrderlyWorld`: one call at a time, none over two files, a store that fits the sessions |
| `HarnessProofs` | `GatesKeepTheirPromise` | `GateSpec` implements `GatePromise` | |
| | `HarnessKeepsPromise` | `HarnessSpec` implements `GatePromise` | |
| | `HarnessStoreStaysSound` | `StoreSound` with the tools around | |
| | `UnreadComesFromQueries` | `OnlyQueriesLeaveUnread` | |
| | `StopsBlockOnce` | `StopBlockedOncePerTurn` | |
| | `NobodyIsLockedOut` | `NoLockoutWithoutDelivery` | |
| `SyncProofs` | `SyncTypeCorrect` | `SyncTypeOK` | |
| | `AtMostOneBackgroundRun` | `OneBackgroundRun` | |
| | `AttemptsKeepTheirDistance` | `OneAttemptPerWindow` | `MarkersAreWritten`: no `io_error` |
| | `OverlappingRunsHeal` | `SelfHeals` | `NothingBetween`: nothing breaks a run between landing and stamp |
| | `LoneRunsHeal` | `SelfHeals` | `OneAtATime`, `OnlyForward`: no overlap, no reverts |
| `IndexProofs` | `IndexTypeCorrect` | `IndexTypeOK` | |
| | `RedisStaysRebuildable` | `RedisRebuildable` | |
| | `LandingsStayApart` | `LandingStaysApart` | |
| | `MixingStaysConfined`, `IndexedStaysCurrent` | `MixingIsConfined`, `IndexedIsCurrent` | `Calm`: no `pg_tears`, no `model_switch` |
| `InstallerProofs` | `TokensStayInAgreement` | `TokenAgrees` | the user leaves the token file alone |
| | `StartsServeTheInstall` | `StartServesInstall` | |
| | `UserWorkStays` | `UserWorkKept` | |
| | `TogglesStayComplete` | `ToggleIsComplete` | |
| | `InstallsBoot` | `ReadyBoots` | |
| `RulesProofs` | `CorpusReadable` | `CorpusStaysReadable` | |
| | `AuthorsKeepTheirFacets` | `AuthorsFacetsKept` | |
| | `LevelsAreFollowed` | `ConfiguredLevelIsFollowed` | (the property: as long as the corpus is readable) |
| | `MatchesAreSameFiles` | `MatchIsSameFile` | |
| | `AuditsAreInvisible` | `AuditIsInvisible` | |
| `SearchProofs` | `SearchReturnsBest` | `SearchIsBest` | |
| | `BatchesOnlyReorder` | `BatchingOnlyReorders` | |
| | `PromptsFitTheGate` | `PromptFitsGate` | `ForcedAreDistinct`: no forced id twice |

The arguments:

- **Lists and loops.** The library's induction theorems take an operator as a
  parameter, which no installed prover can instantiate. Its theorem that every
  set of numbers has a smallest member does not, and gives induction over a
  *set* of numbers (`NatSetInduction`). From that a fold of the community
  modules has a run, the values of its accumulator entry by entry (`FoldRuns`,
  `FoldStep`), and what a loop of the code computes is shown as of a program: by
  an invariant of its run (`StaysIn`, `InTurn`).
- **Hooks.** A step rewrites at most one bucket. `Rewrites(old, b)` says of a
  bucket and its successor what every action guarantees (it is a bucket, nothing
  unread is added, no empty manifest is armed, no entry is lost and none is
  added without justification); what eviction, `Clear` and `Forget` do to the
  other buckets is the same for all writers and is proved once. An invariant
  that speaks of one bucket at a time and holds of `EmptyBucket` then only has
  to be shown of the bucket each action writes. `ReceiptIsOfThisTurn` relates
  the store to the history of the turn and is inductive as it stands, because a
  prompt updates both; eviction and restart fall to `EmptyBucket.seen` being
  false. `CacheNotAhead` holds because a step leaves the plan cache alone,
  forgets it, or upserts a text together with its matches.
- **Refinement.** What `GatePromise` sees of a session is a function of its
  bucket, what it sees of a call a function of the call, so each handler is
  known by what it does to trust and scope of one bucket; every step is then one
  of the abstract actions or a stutter. Eviction is the abstract specification's
  forgetting. With the tools around the same mapping serves: what a tool writes
  into a session is a delivery or an activity of it, and a query in flight is
  neither before its receipt.
- **Budget.** `BudgetStep` says what each step does to budgets, turns and calls.
  The counter is at most the edits of the turn (`CountedHere`) as long as every
  call in flight belongs to the turn; in an orderly world it is also at least
  that, less a call not yet reported (`WithinBudget`), which is what the gate
  needs when it reads the counter.
- **MCP tools.** What is unread comes from a `query_skills` call that finishes:
  every other writer adds nothing unread to its session (`Rewrites` for the
  hooks, the same of the other tools), and eviction leaves the empty bucket,
  which requires nothing. `Latched` ties the stop latch of a stored session to the stops
  of its turn, `Evidence` its delivery evidence to a receipt or a broken prompt.
  Only steps of the session itself touch either, and what an MCP tool writes is
  monotone.
- **Sync.** `GuardOfOneRun` says that the guard is up exactly while a run of the
  hook is out, and that there is one. Healing has two inductive invariants for
  its two worlds: `StampIsHeld` (memory, marker and directories are one version)
  and, for lone runs with failures, `EtagsHarmless` (an ETag a 304 could be
  answered to is that of what is on disk, or older than upstream for good).
  `AttemptIsStamped` says that what was attempted within the TTL is stamped
  fresh, in the marker and in the memory of a process that has read it; it is
  inductive as long as markers are written.
- **Index.** An ingest is known by what it does to the stores it starts from:
  every outcome, failed ones included, keeps rows and embeddings that were there
  (`KeptRows`), and every record it loads has its row (`Backed`). For the texts,
  `Matches` says of an id that no embedding or record of it is another text's,
  `Lone` that a batch has one file of it, and `Current` that what is settled is
  found as its file says. The last of several files is found without induction:
  the sets of the places from one on have a smallest.
- **Credentials.** `CredentialsInv`: the environment on disk always has the last
  password minted, and a running server one that is not newer; its token is the
  one on disk unless the user takes that away. A password minted by a new
  installation therefore always makes the environment another than the running
  server's, so that docker replaces the container: this is why a start serves
  the installation, new token included.
- **The clients' files.** A text is scanned line by line; the invariant of the
  scan says which of the user's lines were kept so far and whether it is within
  a block. A text is `Whole` when every sentinel has its partner: of such a text
  the scan keeps all that is the user's, in order. `FilesInv`: every text that
  the user did not break is whole and its user part is what the user wrote, and
  the user's entries of the settings are `own`. Every adapter is `Careful`: it
  writes the files of its client only, with care for the user's part.
- **Commands.** `CommandInv`: what is not among the steps of a command any more
  is done, and stays done until another command takes it back; a command that
  went through has nothing left to do. The steps of one client disturb no other
  client's files.
- **Files of the corpus, plans, paths.** The tools' functions by cases on what
  the file lacks. Of the audit: the scans of the plan and of the plan with an
  audit pasted in agree before it, keep nothing within it, and agree again from
  the next heading on. Of paths: the tail of a list is the whole of another
  exactly when the two may be one file, which is a matter of their last segments.
- **Search.** `_keep_best` holds the best hit of every id it has seen, the sort
  a falling list of the hits it has seen, and the texts are those seen without
  blanks. The filter by a threshold keeps the order. Batches are a partition of
  the aspects, so what they find together is what the whole search finds. That a
  prompt's requirements are as many as the cap allows is a bijection between
  their places and their ids.

Only model-checked: liveness under fairness (`SyncConverges`, `InFlightClears`)
and with it `ENABLED`, which no installed prover handles. Of the
properties that fail, those that hold in a better world have a theorem that
assumes it (`OneEditPerTurn`, `OneFilePerTurn`, `BudgetIsOfThisTurn`,
`OneAttemptPerWindow`, `TokenAgrees`); `NoOrphans`, `ExpansionNeverGates`,
`OffReverts`, `GroupsKept` and `PasswordAgrees` have none.

## 5. Not modelled, and why

- Ranking inside the index, embeddings and LLM calls: what they answer is an
  input or a choice.
- The domain router (`corpus/router.py`): nothing but its tests uses it.
- Repo roots and scopes: the server configures none (`server.py:48`), so the
  reader merges nothing and the writers have one root.
- The parse cache of the reader, which depends on the clock of the file system,
  and the export of memories.
- Fetching, extraction and chunking of a document: text handling without state.
- Formatting of contexts, denials, lists and audit records. Only that auditing
  may fail is kept, where it changes what happens next.
- The other commands of `cli.py`, which are requests to the server or reports;
  the evals, an offline benchmark that shares no state with the server.
- What the agent really received: the server marks a receipt when it answers,
  and a shim that timed out drops the answer. No state of the server tells.
- Real time: a TTL lapses, a timeout strikes, and that is all.

## 6. What is left

1. The client's view of a hook request as a module of its own, if the shims ever
   report back what was delivered.
2. The safety half of `SyncConverges`: that from any reachable state some order of
   successful steps leads to a corpus that is upstream's. It is the part of
   convergence that needs no fairness.

## 7. Running

In this directory:

    tlc -workers 2 -config hooks_plans.cfg MCHookGates.tla
    tlapm HookGatesProofs.tla

`PROJECT.json` names the module of every run.

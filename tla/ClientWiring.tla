----------------------------- MODULE ClientWiring -----------------------------
(***************************************************************************)
(* ClientWiring: what the adapters do to the configuration of the clients, *)
(* files that belong to the user and that the user goes on editing.        *)
(*                                                                         *)
(* A text is a sequence of lines: those of the user, and the two sentinels *)
(* with the managed block between them.  Of Claude's settings.json the     *)
(* entries of one hook event and of permissions.allow count.  Claude also  *)
(* gets a fallback file and, when its own command line is there, a         *)
(* registration of the bridge.                                             *)
(***************************************************************************)
EXTENDS Lists, FiniteSets

CONSTANTS
    UserLines,      \* lines the user writes
    Missing,        \* no such file, no such key
    Wrong,          \* a file that is no JSON object, a value of another type
    Failed          \* BAI-121 in place of the text to write

Managed == {"start", "block", "end"}    \* SENTINEL_START, the block, SENTINEL_END
Block == <<"start", "block", "end">>

Clients == {"claude", "codex", "generic"}
TextFiles == {"config", "agents", "override", "instructions"}

\* Texts, the entries of a list in Claude's settings, and the settings.
Text == Seq(UserLines \cup Managed)
Entries == Seq({"own", "ours", "mixed", "granted"})
Settings == [hooks : Entries \cup {Missing, Wrong}, allow : Entries \cup {Missing, Wrong}]

ASSUME WiringAssumption ==
    /\ UserLines \cap Managed = {}
    /\ Missing # Wrong /\ Missing # "ours"
    /\ Missing \notin Text \cup Entries \cup Settings
    /\ Wrong \notin Entries \cup Settings
-----------------------------------------------------------------------------
(* Sentinel blocks *)

\* _read_if_exists
Lines(text) == IF text = Missing THEN <<>> ELSE text

\* From the first START on, up to the first END after it: what the pattern of
\* both functions matches, put in by With and left out otherwise.  A START that
\* has no END is no match: its lines are held until the end of the text.
Scanned(st, l, With) ==
    CASE st.held = <<>> /\ l # "start" -> [st EXCEPT !.kept = Append(@, l)]
      [] st.held # <<>> /\ l = "end" -> [kept |-> st.kept \o With, held |-> <<>>]
      [] OTHER -> [st EXCEPT !.held = Append(@, l)]

Substituted(text, With) ==
    LET scan == FoldLeft(LAMBDA st, l : Scanned(st, l, With),
                         [kept |-> <<>>, held |-> <<>>], text)
    IN  scan.kept \o scan.held

HasBlock(text) ==
    \E j, k \in DOMAIN text : j < k /\ text[j] = "start" /\ text[k] = "end"

\* replace_sentinel_block
ReplaceSentinelBlock(text) ==
    IF HasBlock(text) THEN Substituted(text, Block) ELSE text \o Block

\* Mutant: the pattern is greedy, up to the last END.
RemoveGreedily(text) ==
    IF ~HasBlock(text) THEN text
    ELSE SubSeq(text, 1, SelectInSeq(text, LAMBDA l : l = "start") - 1)
         \o SubSeq(text, SelectLastInSeq(text, LAMBDA l : l = "end") + 1, Len(text))

\* remove_sentinel_block
RemoveSentinelBlock(text) == Substituted(text, <<>>)

\* _contains_sentinel
ContainsSentinel(text) == Contains(Lines(text), "start")
-----------------------------------------------------------------------------
(* The adapters.  wiring maps the text files to their text, "claude" to the
   settings, "mcp" to the generic client's MCP file, "fallback" to the MCP file
   for Claude, and "registered" to what claude mcp add left with Claude. *)

\* An entry is the user's "own"; one of "ours"; "mixed", a group of hooks where
\* a command of the user's stands beside ours; or "granted", a permission the
\* user gave to one of BetterAI's tools that we do not allow by ourselves.  The
\* filters look for our path, or our prefix, anywhere in an entry.
Others(entries) ==
    Only(IF entries \in {Missing, Wrong} THEN <<>> ELSE entries, {"own"})

\* _active_codex_instructions_path: an override that says something.
Active(wiring) == IF Lines(wiring["override"]) # <<>> THEN "override" ELSE "agents"

WithBlock(wiring, file) ==
    [wiring EXCEPT ![file] = ReplaceSentinelBlock(Lines(@))]
WithoutBlock(wiring, file) ==
    [wiring EXCEPT ![file] = IF @ = Missing THEN @ ELSE RemoveSentinelBlock(@)]

\* The settings.  Hooks of a wrong type are replaced; permissions of a wrong
\* type, or a file that is no object, are an error before anything is written.
\* Every entry that bears our mark is dropped before ours are added, whoever put it.
SettingsWith(settings) ==
    CASE settings = Wrong -> Failed
      [] settings = Missing -> [hooks |-> <<"ours">>, allow |-> <<"ours">>]
      [] OTHER -> IF settings.allow = Wrong THEN Failed
                  ELSE [hooks |-> Append(Others(settings.hooks), "ours"),
                        allow |-> Append(Others(settings.allow), "ours")]

\* _install_claude: the settings, the fallback, and the registration, which is
\* only tried by install, and only a warning when it fails.
WiredClaude(wiring, registers) ==
    LET settings == SettingsWith(wiring["claude"])
    IN  IF settings = Failed THEN Failed
        ELSE [wiring EXCEPT !["claude"] = settings, !["fallback"] = "ours",
                            !["registered"] = IF registers THEN "ours" ELSE @]

\* What has a wrong type is left alone.
WithoutOurs(entries) == IF entries \in {Missing, Wrong} THEN entries ELSE Others(entries)
SettingsWithout(settings) ==
    CASE settings = Missing -> Missing
      [] settings = Wrong -> Failed
      [] OTHER -> [hooks |-> WithoutOurs(settings.hooks),
                   allow |-> WithoutOurs(settings.allow)]

\* _uninstall_claude: the settings, and neither fallback nor registration.
UnwiredClaude(wiring) ==
    LET settings == SettingsWithout(wiring["claude"])
    IN  IF settings = Failed THEN Failed ELSE [wiring EXCEPT !["claude"] = settings]

\* _uninstall_generic
UnwiredGeneric(wiring) ==
    WithoutBlock([wiring EXCEPT !["mcp"] = IF @ = Missing THEN @ ELSE "empty"], "instructions")

\* install_client; registers: claude mcp add is run and goes through.
Wired(wiring, client, registers) ==
    CASE client = "claude" -> WiredClaude(wiring, registers)
      [] client = "codex" -> WithBlock(WithBlock(wiring, "config"), Active(wiring))
      [] client = "generic" ->
            WithBlock([wiring EXCEPT !["mcp"] = "ours"], "instructions")

\* Mutant: only the active instructions are cleaned.
UnwiredActive(wiring, client) ==
    CASE client = "claude" -> UnwiredClaude(wiring)
      [] client = "codex" -> WithoutBlock(WithoutBlock(wiring, "config"), Active(wiring))
      [] client = "generic" -> UnwiredGeneric(wiring)

\* uninstall_client.  For codex all the files a block may ever have gone to.
Unwired(wiring, client) ==
    CASE client = "claude" -> UnwiredClaude(wiring)
      [] client = "codex" ->
            WithoutBlock(WithoutBlock(WithoutBlock(wiring, "config"), "agents"), "override")
      [] client = "generic" -> UnwiredGeneric(wiring)

\* client_status
Installed(wiring, client) ==
    CASE client = "claude" ->
            /\ wiring["claude"] \notin {Missing, Wrong}
            /\ wiring["claude"].hooks \notin {Missing, Wrong}
            /\ ToSet(wiring["claude"].hooks) \cap {"ours", "mixed"} # {}
      [] client = "codex" -> /\ ContainsSentinel(wiring["config"])
                             /\ ContainsSentinel(wiring[Active(wiring)])
      [] client = "generic" -> /\ wiring["mcp"] = "ours"
                               /\ ContainsSentinel(wiring["instructions"])
=============================================================================

------------------------------ MODULE Installer ------------------------------
(***************************************************************************)
(* Installer: the commands install, start and harness on|off, the tree     *)
(* they write under ~/.betterai, the clients they wire, and the stack that *)
(* boots from that tree.  A command is a list of steps; it stops at the    *)
(* first that fails, may be killed between any two, and is never rolled    *)
(* back.  Between commands the user edits what is the user's.              *)
(*                                                                         *)
(* Passwords and tokens are numbered in the order they are minted; 0 is    *)
(* none.  Missing stands for a file that is not there.                     *)
(***************************************************************************)
EXTENDS ClientWiring

CONSTANTS
    Providers,      \* MEMORY_PROVIDERS
    Requests,       \* what install is asked for: key, judge, provider, granularity
    ClientLists,    \* lists of clients
    UserEdits,      \* kinds of edits the user makes
    MaxActs         \* bound: commands and edits

\* _parse_clients drops unknown names, and no name at all means both clients.
ASSUME InstallerAssumption == ClientLists \subseteq Seq(Clients) \ {<<>>}

VARIABLES
    tree,           \* token, key, env, compose, scripts (hooks and bridge)
    wiring,         \* the files of the clients
    command,        \* the steps still to do, and what was asked
    done,           \* the last command, if it succeeded and nothing came after
    server,         \* what the running server, if any, read when it booted
    volume,         \* the password Postgres was initialised with
    minted,         \* history: tokens and passwords so far
    own,            \* history: what the user wrote and did not take back
    damaged,        \* history: text files in which the user broke a sentinel
    acts            \* history: commands and edits so far

vars == <<tree, wiring, command, done, server, volume, minted, own, damaged, acts>>
history == <<own, damaged>>

Idle == [todo |-> <<>>, name |-> "none", request |-> Missing, clients |-> <<>>]
NotDone == [name |-> "none", clients |-> <<>>]

InstallSteps == <<"token", "key", "env", "compose", "scripts">>
-----------------------------------------------------------------------------
InstallerInit ==
    /\ tree = [token |-> 0, key |-> FALSE, env |-> Missing, compose |-> Missing, scripts |-> FALSE]
    /\ wiring = [f \in TextFiles \cup {"claude", "fallback", "registered", "mcp"} |-> Missing]
    /\ command = Idle /\ done = NotDone
    /\ server = Missing /\ volume = 0
    /\ minted = [tokens |-> 0, passwords |-> 0]
    /\ own = [f \in TextFiles \cup {"hooks", "allow"} |-> <<>>]
    /\ damaged = {} /\ acts = 0

Act == command = Idle /\ acts < MaxActs /\ acts' = acts + 1

Run(name, todo, request, clients) ==
    /\ command' = [name |-> name, todo |-> todo, request |-> request, clients |-> clients]
    /\ done' = NotDone
    /\ UNCHANGED <<tree, wiring, server, volume, minted, history>>

\* perform_install, as its steps in their order.
Install ==
    /\ Act
    /\ \E request \in Requests, clients \in ClientLists :
        Run("install", InstallSteps \o clients, request, clients)

\* harness on writes the scripts and the bridge, then the clients.
HarnessOn ==
    /\ Act
    /\ \E clients \in ClientLists : Run("on", <<"scripts">> \o clients, Missing, clients)

HarnessOff ==
    /\ Act
    /\ \E clients \in ClientLists : Run("off", clients, Missing, clients)

\* The step at hand succeeds, and with the last one the command.
Step == Head(command.todo)
Succeed ==
    /\ command' = IF Len(command.todo) = 1 THEN Idle ELSE [command EXCEPT !.todo = Tail(@)]
    /\ done' = IF Len(command.todo) = 1
               THEN [name |-> command.name, clients |-> command.clients] ELSE NotDone
    /\ UNCHANGED <<server, volume, history, acts>>

\* It fails, and the command with it; what earlier steps wrote stays.
Fail ==
    /\ command' = Idle
    /\ UNCHANGED <<tree, wiring, done, server, volume, minted, history, acts>>

At(step) == command # Idle /\ Step = step

\* Mutant: every installation mints a token.
TokenAnew(old, new) == new

\* _write_token keeps a token that is there.
TokenOf(old, new) == IF old = 0 THEN new ELSE old

WriteToken ==
    /\ At("token")
    /\ LET token == TokenOf(tree.token, minted.tokens + 1)
       IN  /\ tree' = [tree EXCEPT !.token = token]
           /\ minted' = [minted EXCEPT !.tokens = IF token > @ THEN token ELSE @]
    /\ Succeed /\ UNCHANGED wiring

CopyKeyFile ==
    /\ At("key")
    /\ IF command.request.key
       THEN tree' = [tree EXCEPT !.key = TRUE] /\ Succeed /\ UNCHANGED <<wiring, minted>>
       ELSE Fail

\* Mutant: an environment that is there is kept.
EnvKept(n, request) ==
    IF tree.env # Missing THEN tree.env
    ELSE [password |-> n, provider |-> request.provider, granularity |-> request.granularity]

\* install_env_values: a new password, for Postgres and in the server's DSN.
EnvOf(n, request) ==
    [password |-> n, provider |-> request.provider, granularity |-> request.granularity]

\* The request is not looked at, but for the judge model: without one the
\* values are not complete.
WriteEnv ==
    /\ At("env")
    /\ IF command.request.judge
       THEN /\ tree' = [tree EXCEPT !.env = EnvOf(minted.passwords + 1, command.request)]
            /\ minted' = [minted EXCEPT !.passwords = @ + 1]
            /\ Succeed /\ UNCHANGED wiring
       ELSE Fail

\* render_compose and _make_memory_dirs, which both look the provider up.
WriteCompose ==
    /\ At("compose")
    /\ IF command.request.provider \in Providers
       THEN /\ tree' = [tree EXCEPT !.compose = command.request.provider]
            /\ Succeed /\ UNCHANGED <<wiring, minted>>
       ELSE Fail

WriteScripts ==
    /\ At("scripts")
    /\ tree' = [tree EXCEPT !.scripts = TRUE]
    /\ Succeed /\ UNCHANGED <<wiring, minted>>

\* install_client or uninstall_client.  Only install runs claude mcp add, which
\* may not be there, be switched off, or fail.
WireClient ==
    /\ command # Idle /\ Step \in Clients
    /\ \E registers \in BOOLEAN :
        /\ registers => command.name = "install" /\ Step = "claude"
        /\ LET result == IF command.name = "off" THEN Unwired(wiring, Step)
                         ELSE Wired(wiring, Step, registers)
           IN  IF result = Failed THEN Fail
               ELSE wiring' = result /\ Succeed /\ UNCHANGED <<tree, minted>>

\* The process is killed between two steps.
Killed == command # Idle /\ Fail
-----------------------------------------------------------------------------
(* The stack *)

\* from_env and BearerAuth: what the server needs to boot.
Boots ==
    /\ tree.token # 0
    /\ tree.env.provider \in Providers /\ tree.env.granularity = "valid"

\* docker compose up -d --wait.  An empty volume takes the password; containers
\* are made anew when the environment changed, and the others keep running.
Start ==
    /\ Act /\ tree.compose # Missing /\ tree.env # Missing
    /\ volume' = IF volume = 0 THEN tree.env.password ELSE volume
    /\ IF server # Missing /\ server.env = tree.env
       THEN UNCHANGED server
       ELSE server' = IF Boots THEN [token |-> tree.token, env |-> tree.env] ELSE Missing
    /\ done' = NotDone
    /\ UNCHANGED <<tree, wiring, command, minted, history>>

\* The daemon restarts the server's container, which keeps the environment it
\* was made with and reads the token anew.
RestartServer ==
    /\ Act /\ server # Missing
    /\ server' = IF tree.token = 0 THEN Missing ELSE [server EXCEPT !.token = tree.token]
    /\ done' = NotDone
    /\ UNCHANGED <<tree, wiring, command, volume, minted, history>>

\* docker compose down.
StopStack ==
    /\ Act /\ server # Missing
    /\ server' = Missing /\ done' = NotDone
    /\ UNCHANGED <<tree, wiring, command, volume, minted, history>>
-----------------------------------------------------------------------------
(* The user *)

Edit(kind) ==
    /\ kind \in UserEdits /\ Act
    /\ done' = NotDone /\ UNCHANGED <<command, server, volume, minted>>

\* A line of the user's own, at the end or at the start.
WriteLine ==
    /\ Edit("line")
    /\ \E f \in {"agents", "override"}, l \in UserLines, first \in BOOLEAN :
        /\ wiring' = [wiring EXCEPT ![f] = IF first THEN <<l>> \o Lines(@) ELSE Append(Lines(@), l)]
        /\ own' = [own EXCEPT ![f] = IF first THEN <<l>> \o @ ELSE Append(@, l)]
    /\ UNCHANGED <<tree, damaged>>

\* The instructions move from one file to the other: a copy with the block.
CopyText ==
    /\ Edit("copy") /\ wiring["agents"] # Missing
    /\ wiring' = [wiring EXCEPT !["override"] = Lines(@) \o wiring["agents"]]
    /\ own' = [own EXCEPT !["override"] = @ \o own["agents"]]
    /\ damaged' = IF "agents" \in damaged THEN damaged \cup {"override"} ELSE damaged
    /\ UNCHANGED tree

DeleteFile ==
    /\ Edit("delete")
    /\ \E f \in {"agents", "override"} :
        /\ wiring[f] # Missing
        /\ wiring' = [wiring EXCEPT ![f] = Missing]
        /\ own' = [own EXCEPT ![f] = <<>>]
        /\ damaged' = damaged \ {f}
    /\ UNCHANGED tree

\* A sentinel is lost.
LoseSentinel ==
    /\ Edit("sentinel")
    /\ \E f \in {"agents", "override"}, l \in {"start", "end"} :
        /\ Contains(Lines(wiring[f]), l)
        /\ wiring' = [wiring EXCEPT ![f] = RemoveFirst(@, l)]
        /\ damaged' = damaged \cup {f}
    /\ UNCHANGED <<tree, own>>

\* Claude's settings: a hook and a permission of the user, or one of ours that
\* the user allowed; or a value of the wrong type, or no JSON at all.
EditSettings ==
    /\ Edit("settings") /\ wiring["claude"] # Wrong
    /\ LET now == IF wiring["claude"] = Missing THEN [hooks |-> Missing, allow |-> Missing]
                  ELSE wiring["claude"]
       IN  \/ \E key \in {"hooks", "allow"}, e \in {"own", "granted"} :
                /\ now[key] # Wrong /\ (e = "granted" => key = "allow")
                /\ wiring' = [wiring EXCEPT !["claude"] = [now EXCEPT ![key] = Append(Lines(@), e)]]
                /\ own' = [own EXCEPT ![key] = IF e = "own" THEN Append(@, e) ELSE @]
           \/ /\ wiring' = [wiring EXCEPT !["claude"] = [now EXCEPT !.allow = Wrong]]
              /\ own' = [own EXCEPT !["allow"] = <<>>]
           \/ /\ wiring' = [wiring EXCEPT !["claude"] = [now EXCEPT !.hooks = Wrong]]
              /\ own' = [own EXCEPT !["hooks"] = <<>>]
           \/ /\ wiring' = [wiring EXCEPT !["claude"] = Wrong]
              /\ own' = [own EXCEPT !["hooks"] = <<>>, !["allow"] = <<>>]
    /\ UNCHANGED <<tree, damaged>>

\* A command of the user's is put into one of our groups of hooks.
GroupHook ==
    /\ Edit("group") /\ wiring["claude"] \notin {Missing, Wrong}
    /\ LET hooks == wiring["claude"].hooks
       IN  /\ hooks \notin {Missing, Wrong}
           /\ \E i \in DOMAIN hooks :
                /\ hooks[i] = "ours"
                /\ wiring' = [wiring EXCEPT !["claude"].hooks = [hooks EXCEPT ![i] = "mixed"]]
    /\ UNCHANGED <<tree, history>>

\* The token file is removed, so that the next install mints another.
RemoveToken ==
    /\ Edit("token") /\ tree.token # 0
    /\ tree' = [tree EXCEPT !.token = 0]
    /\ UNCHANGED <<wiring, history>>

InstallerNext ==
    \/ Install \/ HarnessOn \/ HarnessOff
    \/ WriteToken \/ CopyKeyFile \/ WriteEnv \/ WriteCompose \/ WriteScripts \/ WireClient
    \/ Killed \/ Start \/ RestartServer \/ StopStack
    \/ WriteLine \/ CopyText \/ DeleteFile \/ LoseSentinel \/ EditSettings \/ GroupHook \/ RemoveToken

InstallerSpec == InstallerInit /\ [][InstallerNext]_vars
-----------------------------------------------------------------------------
(* Properties *)

UserPart(text) == Only(Lines(text), UserLines)

\* The files a client's blocks go to.
FilesOf(client) == CASE client = "codex" -> {"config", "agents", "override"}
                     [] client = "generic" -> {"instructions"}
                     [] client = "claude" -> {}

\* Of the lists in Claude's settings only the user's own entries are left.
SettingsClean ==
    /\ wiring["claude"] # Wrong
    /\ wiring["claude"] # Missing =>
        \A key \in {"hooks", "allow"} :
            wiring["claude"][key] \in {Missing, Wrong} \/ ToSet(wiring["claude"][key]) \subseteq {"own"}

\* The client is off, and nothing of ours is in the files that off cleans: the
\* texts, Claude's settings, the generic client's MCP file.
Clean(client) ==
    /\ ~Installed(wiring, client)
    /\ client = "claude" => SettingsClean
    /\ client = "generic" => wiring["mcp"] # "ours"
    /\ \A f \in FilesOf(client) \ damaged : ToSet(Lines(wiring[f])) \cap Managed = {}

\* The client is on; with Claude our entry is there once in each list, and no
\* other that bears our mark, and the fallback is.
Complete(client) ==
    /\ Installed(wiring, client)
    /\ client = "claude" =>
        /\ wiring["fallback"] = "ours"
        /\ \A key \in {"hooks", "allow"} :
            Only(wiring["claude"][key], {"ours", "mixed", "granted"}) = <<"ours">>

\* When harness off has gone through, its clients are off and the files it cleans
\* hold nothing of ours, and when install or harness on has, their clients are
\* on, with each entry once: whatever the user moved, copied, grouped or deleted
\* before, but for texts whose sentinels the user broke.  What off does not
\* clean is in OffReverts.
ToggleIsComplete ==
    \A client \in ToSet(done.clients) :
        IF done.name = "off" THEN Clean(client) ELSE Complete(client)

\* Everything the adapters write is reversible (adapters.py:4), off is a clean
\* revert (cli.py:122): so Claude knows no bridge any more when off has gone
\* through.  The code leaves the registration behind, and the fallback.
OffReverts ==
    done.name = "off" /\ "claude" \in ToSet(done.clients) => wiring["registered"] = Missing

\* Entries are removed by exact-match filtering (adapters.py:5): a command of the
\* user's stays, also in a group with one of ours.  The code drops the group.
HasGroup(settings) ==
    /\ settings \notin {Missing, Wrong} /\ settings.hooks \notin {Missing, Wrong}
    /\ Contains(settings.hooks, "mixed")
GroupsKept ==
    [][command # Idle /\ HasGroup(wiring["claude"]) => HasGroup(wiring'["claude"])]_vars

\* In the files of the clients the user's lines and entries are what the user
\* wrote, in that order, through every sequence of commands, failures and kills
\* (adapters.py: fail loud rather than lose the user's settings).  Hooks of a
\* wrong type, permissions with our prefix and groups that hold one of our
\* commands (GroupsKept) are not kept.
UserWorkKept ==
    /\ \A f \in TextFiles \ damaged : UserPart(wiring[f]) = own[f]
    /\ \A key \in {"hooks", "allow"} :
        wiring["claude"] \notin {Missing, Wrong} =>
            \/ wiring["claude"][key] = Wrong
            \/ Others(wiring["claude"][key]) = own[key]

\* An installation that went through is whole and of one piece, whatever was
\* there before: its parts agree on the memory provider, and the stack boots
\* from it, but for a granularity that install does not check.
ReadyBoots ==
    done.name = "install" =>
        /\ tree.key /\ tree.scripts
        /\ tree.compose = tree.env.provider
        /\ Boots \/ tree.env.granularity # "valid"

\* A start after an installation that went through leaves a server that runs the
\* environment on disk and checks the token that hooks and bridge read, or none
\* where the granularity keeps it from booting: also when another server was
\* running, and when the user had taken its token away so that install minted
\* another.  Nothing says so: it takes that every installation changes the
\* environment, without which docker compose up keeps the container.
StartServesInstall ==
    [][done.name = "install" /\ Start =>
        IF tree.env.granularity = "valid"
        THEN server' = [token |-> tree.token, env |-> tree.env]
        ELSE server' = Missing]_vars

\* The installer writes the token exactly once, before startup (auth.py:7): a
\* running server checks the token on disk, unless there is none.  The code writes
\* another under a running server when the file is gone.
TokenAgrees == server # Missing => tree.token \in {0, server.token}

\* Every value is minted exactly once, at install time (install_env.py:5): the
\* server's password is the database's.  The code mints another at every install,
\* and the database keeps its first.
PasswordAgrees == server # Missing => server.env.password = volume
=============================================================================

--------------------------- MODULE InstallerProofs ---------------------------
(***************************************************************************)
(* Theorems of Installer, for any number of commands, edits, kills and     *)
(* restarts (MaxActs only bounds TLC), any requests, lines and clients:    *)
(* the user's work is kept, a toggle that goes through is complete, an     *)
(* installation that does boots, and the next start serves it.             *)
(***************************************************************************)
EXTENDS Installer, ListTheorems

\* The fields of the tree and the numbers minted.
TreeShape ==
    \E token \in Nat : \E key, env, compose, scripts :
        tree = [token |-> token, key |-> key, env |-> env,
                compose |-> compose, scripts |-> scripts]
MintedShape == \E t, p \in Nat : minted = [tokens |-> t, passwords |-> p]
\* A server is a record of a token and an environment.
ServerShape == server # Missing => \E t, e : server = [token |-> t, env |-> e]
Shapes == TreeShape /\ MintedShape /\ ServerShape

\* The environment on disk always has the last password minted, and that of a
\* server is not newer.
PasswordsInOrder ==
    /\ tree.env # Missing => tree.env.password = minted.passwords
    /\ server # Missing => /\ server.env.password \in Nat
                           /\ server.env.password <= minted.passwords

\* A server has a token, which only the user takes away.
TokensInOrder ==
    "token" \notin UserEdits /\ server # Missing =>
        server.token # 0 /\ tree.token = server.token

CredentialsInv == Shapes /\ PasswordsInOrder /\ TokensInOrder

LEMMA TreeNow ==
    ASSUME TreeShape
    PROVE  tree.token \in Nat /\ \E key, env, compose, scripts :
                /\ tree = [token |-> tree.token, key |-> key, env |-> env,
                           compose |-> compose, scripts |-> scripts]
                /\ tree.env = env
<1>1. PICK token \in Nat :
        \E key, env, compose, scripts :
            tree = [token |-> token, key |-> key, env |-> env,
                    compose |-> compose, scripts |-> scripts]
  BY DEF TreeShape
<1>2. PICK key, env, compose, scripts :
        tree = [token |-> token, key |-> key, env |-> env,
                compose |-> compose, scripts |-> scripts]
  BY <1>1
<1>3. tree.token = token /\ tree.env = env
  BY <1>2
<1>4. tree = [token |-> tree.token, key |-> key, env |-> env,
              compose |-> compose, scripts |-> scripts]
  BY <1>2, <1>3
<1>5. QED BY <1>1, <1>3, <1>4

LEMMA TreeNext ==
    ASSUME NEW token \in Nat, NEW key, NEW env, NEW compose, NEW scripts,
           tree' = [token |-> token, key |-> key, env |-> env,
                    compose |-> compose, scripts |-> scripts]
    PROVE  TreeShape' /\ tree'.token = token /\ tree'.env = env
<1>1. tree'.token = token /\ tree'.env = env
  OBVIOUS
<1>2. TreeShape'
  BY DEF TreeShape
<1>3. QED BY <1>1, <1>2

LEMMA MintedNow ==
    ASSUME MintedShape
    PROVE  /\ minted.tokens \in Nat /\ minted.passwords \in Nat
           /\ minted = [tokens |-> minted.tokens, passwords |-> minted.passwords]
<1>1. PICK t, p \in Nat : minted = [tokens |-> t, passwords |-> p]
  BY DEF MintedShape
<1>2. minted.tokens = t /\ minted.passwords = p
  BY <1>1
<1>3. QED BY <1>1, <1>2

LEMMA MintedNext ==
    ASSUME NEW t \in Nat, NEW p \in Nat, minted' = [tokens |-> t, passwords |-> p]
    PROVE  MintedShape' /\ minted'.passwords = p
<1>1. MintedShape'
  BY DEF MintedShape
<1>2. minted'.passwords = p
  OBVIOUS
<1>3. QED BY <1>1, <1>2

\* A step that leaves tokens, environment, passwords and server alone.
LEMMA CredentialsUntouched ==
    ASSUME CredentialsInv, UNCHANGED <<server, minted>>,
           tree'.token = tree.token, tree'.env = tree.env, Shapes'
    PROVE  CredentialsInv'
BY DEF CredentialsInv, PasswordsInOrder, TokensInOrder

\* A step that leaves tree and server as they are.
LEMMA NothingTouched ==
    ASSUME CredentialsInv, UNCHANGED <<tree, server, minted>>
    PROVE  CredentialsInv'
BY DEF CredentialsInv, Shapes, TreeShape, MintedShape, ServerShape, PasswordsInOrder, TokensInOrder

\* The steps of a command that write other parts of the tree.
LEMMA OtherPartsWritten ==
    ASSUME CredentialsInv, UNCHANGED <<server, minted>>,
           \/ tree' = [tree EXCEPT !.key = TRUE]
           \/ \E provider : tree' = [tree EXCEPT !.compose = provider]
           \/ tree' = [tree EXCEPT !.scripts = TRUE]
    PROVE  CredentialsInv'
<1>1. PICK key, env, compose, scripts :
            /\ tree = [token |-> tree.token, key |-> key, env |-> env,
                       compose |-> compose, scripts |-> scripts]
            /\ tree.env = env
  BY TreeNow DEF CredentialsInv, Shapes
<1>2. tree.token \in Nat
  BY TreeNow DEF CredentialsInv, Shapes
<1>3. TreeShape' /\ tree'.token = tree.token /\ tree'.env = tree.env
  <2>1. CASE tree' = [tree EXCEPT !.key = TRUE]
    <3>1. PICK yes : tree' = [tree EXCEPT !.key = yes]
      BY <2>1, Zenon
    <3>2. tree' = [token |-> tree.token, key |-> yes, env |-> env,
                   compose |-> compose, scripts |-> scripts]
      BY <1>1, <3>1
    <3>3. QED BY <1>1, <1>2, <3>2, TreeNext
  <2>2. CASE \E provider : tree' = [tree EXCEPT !.compose = provider]
    <3>1. PICK provider : tree' = [tree EXCEPT !.compose = provider]
      BY <2>2
    <3>2. tree' = [token |-> tree.token, key |-> key, env |-> env,
                   compose |-> provider, scripts |-> scripts]
      BY <1>1, <3>1
    <3>3. QED BY <1>1, <1>2, <3>2, TreeNext
  <2>3. CASE tree' = [tree EXCEPT !.scripts = TRUE]
    <3>1. PICK yes : tree' = [tree EXCEPT !.scripts = yes]
      BY <2>3, Zenon
    <3>2. tree' = [token |-> tree.token, key |-> key, env |-> env,
                   compose |-> compose, scripts |-> yes]
      BY <1>1, <3>1
    <3>3. QED BY <1>1, <1>2, <3>2, TreeNext
  <2>4. QED BY <2>1, <2>2, <2>3
<1>4. Shapes'
  BY <1>3 DEF CredentialsInv, Shapes, MintedShape, ServerShape
<1>5. QED BY <1>3, <1>4, CredentialsUntouched

LEMMA StepKeepsCredentials ==
    ASSUME CredentialsInv, [InstallerNext]_vars
    PROVE  CredentialsInv'
<1>tree. PICK key, env, compose, scripts :
            /\ tree = [token |-> tree.token, key |-> key, env |-> env,
                       compose |-> compose, scripts |-> scripts]
            /\ tree.env = env
  BY TreeNow DEF CredentialsInv, Shapes
<1>numbers. /\ tree.token \in Nat /\ minted.tokens \in Nat /\ minted.passwords \in Nat
       /\ minted = [tokens |-> minted.tokens, passwords |-> minted.passwords]
  BY TreeNow, MintedNow DEF CredentialsInv, Shapes
<1>1. CASE Install \/ HarnessOn \/ HarnessOff
  BY <1>1, NothingTouched DEF Install, HarnessOn, HarnessOff, Run, history
<1>2. CASE Fail
  BY <1>2, NothingTouched DEF Fail, history
<1>3. CASE WireClient
  BY <1>2, <1>3, NothingTouched DEF WireClient, Succeed, history
<1>4. CASE CopyKeyFile
  BY <1>2, <1>4, OtherPartsWritten DEF CopyKeyFile, Succeed, history
<1>5. CASE WriteCompose
  BY <1>2, <1>5, OtherPartsWritten DEF WriteCompose, Succeed, history
<1>6. CASE WriteScripts
  BY <1>6, OtherPartsWritten DEF WriteScripts, Succeed, history
<1>7. CASE WriteToken
  <2> DEFINE token == TokenOf(tree.token, minted.tokens + 1)
  <2>1. /\ tree' = [tree EXCEPT !.token = token]
        /\ minted' = [minted EXCEPT !.tokens = IF token > @ THEN token ELSE @]
        /\ UNCHANGED server
    BY <1>7 DEF WriteToken, Succeed, history
  <2>2. token \in Nat /\ (tree.token # 0 => token = tree.token)
    BY <1>numbers DEF TokenOf
  <2> HIDE DEF token
  <2>3. tree' = [token |-> token, key |-> key, env |-> env,
                 compose |-> compose, scripts |-> scripts]
    BY <1>tree, <2>1
  <2>4. TreeShape' /\ tree'.token = token /\ tree'.env = tree.env
    BY <1>tree, <2>2, <2>3, TreeNext
  <2>5. PICK t \in Nat : minted' = [tokens |-> t, passwords |-> minted.passwords]
    BY <1>numbers, <2>1, <2>2
  <2>6. MintedShape' /\ minted'.passwords = minted.passwords
    BY <1>numbers, <2>5, MintedNext
  <2>7. QED BY <2>1, <2>2, <2>4, <2>6
            DEF CredentialsInv, Shapes, ServerShape, PasswordsInOrder, TokensInOrder
<1>8. CASE WriteEnv
  <2>1. CASE ~command.request.judge
    BY <1>2, <1>8, <2>1 DEF WriteEnv
  <2>2. CASE command.request.judge
    <3> DEFINE new == EnvOf(minted.passwords + 1, command.request)
    <3>1. /\ tree' = [tree EXCEPT !.env = new]
          /\ minted' = [minted EXCEPT !.passwords = @ + 1]
          /\ UNCHANGED server
      BY <1>8, <2>2 DEF WriteEnv, Succeed, history
    <3>2. new.password = minted.passwords + 1
      BY DEF EnvOf
    <3> HIDE DEF new
    <3>3. tree' = [token |-> tree.token, key |-> key, env |-> new,
                   compose |-> compose, scripts |-> scripts]
      BY <1>tree, <3>1
    <3>4. minted' = [tokens |-> minted.tokens, passwords |-> minted.passwords + 1]
      BY <1>numbers, <3>1
    <3>5. MintedShape' /\ minted'.passwords = minted.passwords + 1
      BY <1>numbers, <3>4, MintedNext
    <3>6. TreeShape' /\ tree'.token = tree.token /\ tree'.env = new
      BY <1>numbers, <3>3, TreeNext
    <3>7. Shapes' /\ TokensInOrder'
      BY <3>1, <3>5, <3>6 DEF CredentialsInv, Shapes, ServerShape, TokensInOrder
    <3>8. PasswordsInOrder'
      BY <1>numbers, <3>1, <3>2, <3>5, <3>6 DEF CredentialsInv, Shapes, ServerShape, PasswordsInOrder
    <3>9. QED BY <3>7, <3>8 DEF CredentialsInv
  <2>3. QED BY <2>1, <2>2
<1>9. CASE Start
  <2>1. tree.env # Missing /\ UNCHANGED <<tree, minted>>
    BY <1>9 DEF Start
  <2>2. tree.env.password \in Nat /\ tree.env.password = minted.passwords
    BY <1>numbers, <2>1 DEF CredentialsInv, PasswordsInOrder
  <2>shapes. TreeShape' /\ MintedShape'
    BY <2>1 DEF CredentialsInv, Shapes, TreeShape, MintedShape
  <2>3. CASE server # Missing /\ server.env = tree.env
    <3>1. UNCHANGED server
      BY <1>9, <2>3 DEF Start
    <3>2. QED BY <2>1, <3>1, NothingTouched
  <2>4. CASE ~(server # Missing /\ server.env = tree.env)
    <3>1. server' = IF Boots THEN [token |-> tree.token, env |-> tree.env] ELSE Missing
      BY <1>9, <2>4 DEF Start
    <3>2. server' # Missing => /\ server'.token = tree.token /\ tree.token # 0
                               /\ server'.env = tree.env
      BY <3>1 DEF Boots
    <3>3. PICK t, e : t = tree.token /\ e = tree.env
      OBVIOUS
    <3>4. server' = Missing \/ server' = [token |-> t, env |-> e]
      BY <3>1, <3>3
    <3>6. ServerShape'
      BY <3>4 DEF ServerShape
    <3>7. PasswordsInOrder'
      BY <2>1, <2>2, <3>2 DEF CredentialsInv, PasswordsInOrder
    <3>8. TokensInOrder'
      BY <2>1, <3>2 DEF CredentialsInv, TokensInOrder
    <3>9. QED BY <2>shapes, <3>6, <3>7, <3>8 DEF CredentialsInv, Shapes
  <2>5. QED BY <2>3, <2>4
<1>10. CASE RestartServer
  <2>1. /\ server # Missing /\ UNCHANGED <<tree, minted>>
        /\ server' = IF tree.token = 0 THEN Missing ELSE [server EXCEPT !.token = tree.token]
    BY <1>10 DEF RestartServer
  <2>2. TreeShape' /\ MintedShape'
    BY <2>1 DEF CredentialsInv, Shapes, TreeShape, MintedShape
  <2>3. CASE tree.token = 0
    BY <2>1, <2>2, <2>3 DEF CredentialsInv, Shapes, ServerShape, PasswordsInOrder, TokensInOrder
  <2>4. CASE tree.token # 0
    <3>1. server' = [server EXCEPT !.token = tree.token]
      BY <2>1, <2>4
    <3>2. server'.token = tree.token /\ server'.env = server.env
      BY <3>1, <2>1 DEF CredentialsInv, Shapes, ServerShape
    <3>3. ServerShape'
      BY <3>1, <2>1 DEF CredentialsInv, Shapes, ServerShape
    <3>4. QED BY <2>1, <2>2, <2>4, <3>2, <3>3
              DEF CredentialsInv, Shapes, PasswordsInOrder, TokensInOrder
  <2>5. QED BY <2>3, <2>4
<1>11. CASE StopStack
  <2>1. server' = Missing /\ UNCHANGED <<tree, minted>>
    BY <1>11 DEF StopStack
  <2>2. QED
    BY <2>1 DEF CredentialsInv, Shapes, TreeShape, MintedShape, ServerShape,
                PasswordsInOrder, TokensInOrder
<1>12. CASE WriteLine \/ CopyText \/ DeleteFile \/ LoseSentinel \/ EditSettings \/ GroupHook
  BY <1>12, NothingTouched
     DEF WriteLine, CopyText, DeleteFile, LoseSentinel, EditSettings, GroupHook, Edit
<1>13. CASE RemoveToken
  <2>1. /\ tree' = [tree EXCEPT !.token = 0] /\ "token" \in UserEdits
        /\ UNCHANGED <<server, minted>>
    BY <1>13 DEF RemoveToken, Edit
  <2>2. tree' = [token |-> 0, key |-> key, env |-> env,
                 compose |-> compose, scripts |-> scripts]
    BY <1>tree, <2>1
  <2>3. TreeShape' /\ tree'.token = 0 /\ tree'.env = tree.env
    BY <1>tree, <2>2, TreeNext
  <2>4. QED BY <2>1, <2>3
            DEF CredentialsInv, Shapes, ServerShape, MintedShape, PasswordsInOrder, TokensInOrder
<1>14. CASE UNCHANGED vars
  BY <1>14, NothingTouched DEF vars, history
<1>15. CASE Killed
  BY <1>2, <1>15 DEF Killed
<1>16. QED
  BY <1>1, <1>3, <1>4, <1>5, <1>6, <1>7, <1>8, <1>9, <1>10, <1>11, <1>12, <1>13,
     <1>14, <1>15
     DEF InstallerNext

LEMMA InitCredentials == InstallerInit => CredentialsInv
<1>1. SUFFICES ASSUME InstallerInit PROVE CredentialsInv
  OBVIOUS
<1>2. /\ tree = [token |-> 0, key |-> FALSE, env |-> Missing,
                 compose |-> Missing, scripts |-> FALSE]
      /\ minted = [tokens |-> 0, passwords |-> 0]
      /\ server = Missing
  BY <1>1 DEF InstallerInit
<1>3. TreeShape /\ MintedShape
  BY <1>2 DEF TreeShape, MintedShape
<1>4. tree.env = Missing
  BY <1>2
<1>5. QED BY <1>2, <1>3, <1>4 DEF CredentialsInv, Shapes, ServerShape, PasswordsInOrder, TokensInOrder

\* Unless the user removes its token, a running server checks the token that
\* hooks and bridge read: through installs that fail or are killed at any step,
\* starts, restarts and stops.
THEOREM TokensStayInAgreement ==
    ASSUME "token" \notin UserEdits
    PROVE  InstallerSpec => []TokenAgrees
<1>1. CredentialsInv /\ [InstallerNext]_vars => CredentialsInv'
  BY StepKeepsCredentials
<1>2. CredentialsInv => TokenAgrees
  BY DEF CredentialsInv, TokensInOrder, TokenAgrees
<1>3. QED BY InitCredentials, <1>1, <1>2, PTL DEF InstallerSpec
-----------------------------------------------------------------------------
(* The text of a sentinel block *)

\* A scan of a text has a run.
LEMMA ScanRuns ==
    ASSUME NEW text \in Text, NEW With \in Text
    PROVE  \E run : /\ run[0] = [kept |-> <<>>, held |-> <<>>]
                    /\ \A i \in 1..Len(text) : run[i] = Scanned(run[i - 1], text[i], With)
                    /\ Substituted(text, With) = run[Len(text)].kept \o run[Len(text)].held
<1> DEFINE V == [kept : Text, held : Text]
           n == Len(text)
           none == [kept |-> <<>>, held |-> <<>>]
           h == [i \in 1..n |-> [v \in V |-> Scanned(v, text[i], With)]]
           Is(f) == f = [u \in SUBSET (1..n) |->
                            IF u = {} THEN none
                            ELSE Scanned(f[u \ {Max(u)}], text[Max(u)], With)]
           fold == CHOOSE f : Is(f)
<1>1. DOMAIN text = 1..n /\ n \in Nat /\ none \in V
  BY DEF Text
<1>2. \A i \in 1..n : \A v \in V : /\ h[i][v] = Scanned(v, text[i], With)
                                   /\ h[i][v] \in V
  <2>1. SUFFICES ASSUME NEW i \in 1..n, NEW v \in V
                 PROVE  Scanned(v, text[i], With) \in V
    OBVIOUS
  <2>2. PICK l \in UserLines \cup Managed : l = text[i]
    BY DEF Text
  <2>3. /\ Append(v.kept, l) \in Text /\ v.kept \o With \in Text
        /\ <<>> \in Text /\ Append(v.held, l) \in Text
    BY DEF Text
  <2>4. /\ [v EXCEPT !.kept = Append(@, l)] \in V
        /\ [kept |-> v.kept \o With, held |-> <<>>] \in V
        /\ [v EXCEPT !.held = Append(@, l)] \in V
    BY <2>3
  <2>5. QED BY <2>2, <2>4 DEF Scanned
<1>3. PICK f : f \in [SUBSET (1..n) -> V] /\ Folding(f, n, none, h)
  <2>1. \A i \in 1..n : \A v \in V : h[i][v] \in V
    BY <1>2
  <2> HIDE DEF h, n, V, none
  <2>2. QED BY <1>1, <2>1, FoldExists
<1>4. Is(f)
  <2>1. ASSUME NEW u \in SUBSET (1..n), u # {}
        PROVE  Max(u) \in 1..n /\ f[u \ {Max(u)}] \in V
    BY <1>1, <1>3, <2>1, MaxIsThere
  <2> HIDE DEF h, V, none
  <2>2. QED BY <1>2, <1>3, <2>1 DEF Folding
<1>5. Is(fold)
  <2> HIDE DEF Is
  <2>1. QED BY <1>4
<1>6. Substituted(text, With) = fold[1..n].kept \o fold[1..n].held
  BY <1>1 DEF Substituted, FoldLeft, MapThenFoldSet
<1> DEFINE run == [i \in 0..n |-> fold[1..i]]
<1>7. run[0] = none
  <2>1. 1..0 = {} /\ 1..0 \in SUBSET (1..n) /\ 0 \in 0..n
    BY <1>1
  <2> HIDE DEF fold, none
  <2>2. QED BY <1>5, <2>1
<1>8. ASSUME NEW i \in 1..n PROVE run[i] = Scanned(run[i - 1], text[i], With)
  <2>1. i \in 0..n /\ i - 1 \in 0..n
    BY <1>1
  <2> HIDE DEF fold
  <2>2. 1..i \in SUBSET (1..n) /\ 1..i # {} /\ Max(1..i) = i /\ (1..i) \ {i} = 1..(i - 1)
    BY <1>1, Prefixed
  <2>3. fold[1..i] = Scanned(fold[(1..i) \ {i}], text[i], With)
    BY <1>5, <2>2
  <2>4. QED BY <2>1, <2>2, <2>3
<1>9. n \in 0..n
  BY <1>1
<1>10. run[n] = fold[1..n]
  BY <1>9
<1> HIDE DEF run, fold
<1>11. QED BY <1>6, <1>7, <1>8, <1>10

IsScan(run, text, With) ==
    /\ run[0] = [kept |-> <<>>, held |-> <<>>]
    /\ \A i \in 1..Len(text) : run[i] = Scanned(run[i - 1], text[i], With)

\* A round of the scan, by its three cases.
IsRound(st, l, With, next) ==
    /\ st.held = <<>> /\ l # "start" =>
            next.kept = Append(st.kept, l) /\ next.held = <<>>
    /\ st.held # <<>> /\ l = "end" =>
            next.kept = st.kept \o With /\ next.held = <<>>
    /\ (st.held = <<>> /\ l = "start") \/ (st.held # <<>> /\ l # "end") =>
            next.kept = st.kept /\ next.held = Append(st.held, l)

LEMMA Rounds ==
    ASSUME NEW st, st \in [kept : Text, held : Text],
           NEW l \in UserLines \cup Managed, NEW With \in Text,
           NEW next, next = Scanned(st, l, With)
    PROVE  next \in [kept : Text, held : Text] /\ IsRound(st, l, With, next)
<1> DEFINE V == [kept : Text, held : Text]
<1>1. PICK k \in Text, h \in Text : st = [kept |-> k, held |-> h]
  OBVIOUS
<1>2. st.kept = k /\ st.held = h
  BY <1>1
<1>3. Append(k, l) \in Text /\ k \o With \in Text /\ <<>> \in Text /\ Append(h, l) \in Text
  BY DEF Text
<1>4. CASE h = <<>> /\ l # "start"
  <2>1. next = [kept |-> Append(k, l), held |-> h]
    BY <1>1, <1>2, <1>4 DEF Scanned
  <2>2. next.kept = Append(k, l) /\ next.held = h /\ next \in V
    BY <1>3, <2>1
  <2>3. QED BY <1>2, <1>4, <2>2 DEF IsRound
<1>5. CASE h # <<>> /\ l = "end"
  <2>1. next = [kept |-> k \o With, held |-> <<>>]
    BY <1>1, <1>2, <1>5 DEF Scanned
  <2>2. next.kept = k \o With /\ next.held = <<>> /\ next \in V
    BY <1>3, <2>1
  <2>3. QED BY <1>2, <1>5, <2>2 DEF IsRound
<1>6. CASE (h = <<>> /\ l = "start") \/ (h # <<>> /\ l # "end")
  <2>1. next = [kept |-> k, held |-> Append(h, l)]
    BY <1>1, <1>2, <1>6 DEF Scanned
  <2>2. next.kept = k /\ next.held = Append(h, l) /\ next \in V
    BY <1>3, <2>1
  <2>3. QED BY <1>2, <1>6, <2>2 DEF IsRound
<1>7. QED BY <1>4, <1>5, <1>6

LEMMA ScanTypes ==
    ASSUME NEW text \in Text, NEW With \in Text, NEW run, IsScan(run, text, With)
    PROVE  \A i \in 0..Len(text) : run[i] \in [kept : Text, held : Text]
<1> DEFINE n == Len(text)
           I == {i \in 0..n : run[i] \in [kept : Text, held : Text]}
<1>1. n \in Nat /\ 0 \in I
  <2>1. n \in Nat /\ <<>> \in Text
    BY DEF Text
  <2>2. QED BY <2>1 DEF IsScan
<1>2. ASSUME NEW i \in 1..n, i - 1 \in I PROVE i \in I
  <2>1. i \in 0..n /\ text[i] \in UserLines \cup Managed
    BY <1>1 DEF Text
  <2>2. run[i - 1] \in [kept : Text, held : Text] /\ run[i] = Scanned(run[i - 1], text[i], With)
    BY <1>2 DEF IsScan
  <2>3. QED BY <2>1, <2>2, Rounds
<1>3. 0..n \subseteq I
  <2> HIDE DEF I, n
  <2>1. QED BY <1>1, <1>2, LoopInduction
<1>4. QED BY <1>3

\* The substitution never leaves a text, and a text with a sentinel keeps one
\* if the block has one.
LEMMA SubstitutedFacts ==
    ASSUME NEW text \in Text, NEW With \in Text
    PROVE  /\ Substituted(text, With) \in Text
           /\ Contains(text, "start") /\ Contains(With, "start") =>
                    Contains(Substituted(text, With), "start")
<1> DEFINE n == Len(text)
<1>1. PICK run : IsScan(run, text, With)
                 /\ Substituted(text, With) = run[n].kept \o run[n].held
  BY ScanRuns DEF IsScan
<1>2. n \in Nat /\ \A i \in 0..n : run[i].kept \in Text /\ run[i].held \in Text
  <2>1. n \in Nat
    BY DEF Text
  <2>2. QED BY <1>1, <2>1, ScanTypes
<1>3. run[n].kept \in Text /\ run[n].held \in Text
  BY <1>2
<1>4. Substituted(text, With) \in Text
  BY <1>1, <1>3 DEF Text
<1>5. ASSUME Contains(text, "start"), Contains(With, "start")
      PROVE  Contains(Substituted(text, With), "start")
  <2> DEFINE Shows(st) == Contains(st.kept, "start") \/ (st.held # <<>> /\ st.held[1] = "start")
             Seen(i) == \E j \in 1..i : text[j] = "start"
             I == {i \in 0..n : /\ Seen(i) => Shows(run[i])
                                /\ run[i].held # <<>> => run[i].held[1] = "start"}
  <2>1. 0 \in I
    BY <1>1, <1>2 DEF IsScan
  <2>2. ASSUME NEW i \in 1..n, i - 1 \in I PROVE i \in I
    <3> DEFINE st == run[i - 1]
               l == text[i]
    <3>1. /\ i \in 0..n /\ i - 1 \in 0..n /\ l \in UserLines \cup Managed
          /\ st \in [kept : Text, held : Text] /\ run[i] = Scanned(st, l, With)
      <4>1. i \in 0..n /\ i - 1 \in 0..n /\ l \in UserLines \cup Managed
        BY <1>2 DEF Text
      <4>2. st \in [kept : Text, held : Text]
        BY <1>1, <4>1, ScanTypes
      <4>3. QED BY <1>1, <4>1, <4>2 DEF IsScan
    <3>2. /\ Seen(i - 1) => Shows(st)
          /\ st.held # <<>> => st.held[1] = "start"
          /\ st.kept \in Text /\ st.held \in Text
      BY <2>2, <3>1
    <3>3. Seen(i) => Seen(i - 1) \/ l = "start"
      BY <1>2
    <3> HIDE DEF st, l, Seen
    <3>round. IsRound(st, l, With, run[i])
      BY <3>1, Rounds
    <3>4. CASE st.held = <<>> /\ l # "start"
      <4>1. run[i].kept = Append(st.kept, l) /\ run[i].held = <<>>
        BY <3>4, <3>round DEF IsRound
      <4>2. Contains(st.kept, "start") => Contains(Append(st.kept, l), "start")
        BY <3>1, <3>2, ContainsFacts DEF Text
      <4>3. QED BY <3>1, <3>2, <3>3, <3>4, <4>1, <4>2
    <3>5. CASE st.held # <<>> /\ l = "end"
      <4>1. run[i].kept = st.kept \o With /\ run[i].held = <<>>
        BY <3>5, <3>round DEF IsRound
      <4>2. Contains(st.kept \o With, "start")
        BY <1>5, <3>1, <3>2, ContainsFacts DEF Text
      <4>3. QED BY <3>1, <4>1, <4>2
    <3>6. CASE (st.held = <<>> /\ l = "start") \/ (st.held # <<>> /\ l # "end")
      <4>1. run[i].kept = st.kept /\ run[i].held = Append(st.held, l)
        BY <3>6, <3>round DEF IsRound
      <4>2. Append(st.held, l) # <<>> /\ Append(st.held, l)[1] = "start"
        <5>1. CASE st.held = <<>>
          BY <3>6, <5>1
        <5>2. CASE st.held # <<>>
          <6>1. 1 \in 1..Len(st.held)
            BY <3>2, <5>2 DEF Text
          <6>2. QED BY <3>1, <3>2, <5>2, <6>1 DEF Text
        <5>3. QED BY <5>1, <5>2
      <4>3. QED BY <3>1, <4>1, <4>2
    <3>7. QED BY <3>4, <3>5, <3>6
  <2>3. n \in I
    <3> HIDE DEF I, n
    <3>1. QED BY <1>2, <2>1, <2>2, LoopInduction
  <2>4. Seen(n)
    BY <1>5 DEF Contains
  <2>5. Shows(run[n])
    BY <2>3, <2>4
  <2>6. Contains(run[n].kept, "start") \/ Contains(run[n].held, "start")
    BY <1>3, <2>5, ContainsFacts DEF Text
  <2>7. QED
    <3>1. "start" \in UserLines \cup Managed
      BY DEF Managed
    <3>2. QED BY <1>1, <1>3, <2>6, <3>1, ContainsFacts DEF Text
<1>6. QED BY <1>4, <1>5

\* A text whose blocks are whole: start, block and end only occur together.
Whole(text) ==
    \A k \in 1..Len(text) :
        /\ text[k] = "start" =>
             k + 2 <= Len(text) /\ text[k + 1] = "block" /\ text[k + 2] = "end"
        /\ text[k] = "block" => k > 1 /\ text[k - 1] = "start"
        /\ text[k] = "end" => k > 2 /\ text[k - 1] = "block"

LEMMA WholeConcat ==
    ASSUME NEW s \in Text, NEW t \in Text, Whole(s), Whole(t)
    PROVE  Whole(s \o t)
<1> DEFINE m == Len(s)
           n == Len(t)
           c == s \o t
<1>1. m \in Nat /\ n \in Nat /\ Len(c) = m + n
  BY DEF Text
<1>2. \A k \in 1..m : c[k] = s[k]
  BY DEF Text
<1>3. \A k \in 1..n : c[m + k] = t[k]
  BY DEF Text
<1> HIDE DEF c, m, n
<1>4. ASSUME NEW k \in 1..(m + n)
      PROVE  /\ c[k] = "start" =>
                    k + 2 <= m + n /\ c[k + 1] = "block" /\ c[k + 2] = "end"
             /\ c[k] = "block" => k > 1 /\ c[k - 1] = "start"
             /\ c[k] = "end" => k > 2 /\ c[k - 1] = "block"
  <2>1. CASE k <= m
    <3>1. k \in 1..m /\ c[k] = s[k]
      BY <1>1, <1>2, <2>1
    <3>2. /\ s[k] = "start" => k + 2 <= m /\ s[k + 1] = "block" /\ s[k + 2] = "end"
          /\ s[k] = "block" => k > 1 /\ s[k - 1] = "start"
          /\ s[k] = "end" => k > 2 /\ s[k - 1] = "block"
      BY <3>1 DEF Whole, m
    <3>3. ASSUME s[k] = "start" PROVE k + 2 <= m + n /\ c[k + 1] = "block" /\ c[k + 2] = "end"
      <4>1. k + 1 \in 1..m /\ k + 2 \in 1..m
        BY <1>1, <3>1, <3>2, <3>3
      <4>2. QED BY <1>1, <1>2, <3>2, <3>3, <4>1
    <3>4. ASSUME s[k] = "block" \/ s[k] = "end" PROVE k - 1 \in 1..m
      BY <1>1, <3>1, <3>2, <3>4
    <3>5. QED BY <1>2, <3>1, <3>2, <3>3, <3>4
  <2>2. CASE k > m
    <3>1. PICK j \in 1..n : k = m + j
      <4>1. k - m \in 1..n /\ k = m + (k - m)
        BY <1>1, <2>2
      <4>2. QED BY <4>1
    <3>2. c[k] = t[j]
      BY <1>3, <3>1
    <3>3. /\ t[j] = "start" => j + 2 <= n /\ t[j + 1] = "block" /\ t[j + 2] = "end"
          /\ t[j] = "block" => j > 1 /\ t[j - 1] = "start"
          /\ t[j] = "end" => j > 2 /\ t[j - 1] = "block"
      BY DEF Whole, n
    <3>4. ASSUME t[j] = "start" PROVE k + 2 <= m + n /\ c[k + 1] = "block" /\ c[k + 2] = "end"
      <4>1. j + 1 \in 1..n /\ j + 2 \in 1..n /\ k + 1 = m + (j + 1) /\ k + 2 = m + (j + 2)
        BY <1>1, <3>1, <3>3, <3>4
      <4>2. c[m + (j + 1)] = "block" /\ c[m + (j + 2)] = "end"
        BY <1>3, <3>3, <3>4, <4>1
      <4>3. QED BY <1>1, <3>1, <3>3, <3>4, <4>1, <4>2
    <3>5. ASSUME t[j] = "block" \/ t[j] = "end" PROVE c[k - 1] = t[j - 1] /\ k >= j
      <4>2. j - 1 \in 1..n /\ k - 1 = m + (j - 1) 
        BY <1>1, <3>1, <3>3, <3>5
      <4>3. c[m + (j - 1)] = t[j - 1]
        BY <1>3, <4>2
      <4>4. k >= j
        BY <1>1, <3>1
      <4>5. QED BY <4>2, <4>3, <4>4
    <3>6. QED BY <1>1, <3>1, <3>2, <3>3, <3>4, <3>5
  <2>3. QED BY <1>1, <2>1, <2>2
<1>5. Len(c) = m + n
  BY <1>1
<1>6. Whole(c)
  BY <1>4, <1>5 DEF Whole
<1>7. QED BY <1>6 DEF c

\* The block is whole and has nothing of the user's.
LEMMA BlockFacts ==
    /\ Block \in Text /\ Whole(Block) /\ Contains(Block, "start")
    /\ <<>> \in Text /\ Whole(<<>>) /\ <<>> \in Seq(UserLines)
    /\ Only(Block, UserLines) = <<>> /\ Only(<<>>, UserLines) = <<>>
<1>1. /\ "start" \in UserLines \cup Managed /\ "block" \in UserLines \cup Managed
      /\ "end" \in UserLines \cup Managed
      /\ "start" \notin UserLines /\ "block" \notin UserLines /\ "end" \notin UserLines
  BY WiringAssumption DEF Managed
<1>2. Block \in Text /\ Len(Block) = 3
      /\ Block[1] = "start" /\ Block[2] = "block" /\ Block[3] = "end"
  BY <1>1 DEF Block, Text
<1>3. Whole(Block) /\ Contains(Block, "start")
  BY <1>2 DEF Whole, Contains
<1>4. <<>> \in Text /\ Whole(<<>>) /\ <<>> \in Seq(UserLines)
  BY DEF Text, Whole
<1>5. Only(<<>>, UserLines) = <<>>
  BY OnlyOfNone
<1>6. Only(Block, UserLines) = <<>>
  <2>1. Len(Block) = 3 /\ Block \in Seq(UserLines \cup Managed)
    BY <1>2 DEF Text
  <2>2. ASSUME NEW i \in 1..3, Only(Upto(Block, i - 1), UserLines) = <<>>
        PROVE  Only(Upto(Block, i), UserLines) = <<>>
    <3>1. /\ Upto(Block, i) = Append(Upto(Block, i - 1), Block[i])
          /\ Upto(Block, i - 1) \in Seq(UserLines \cup Managed)
      <4>1. i \in 1..Len(Block) /\ i - 1 \in 0..Len(Block)
        BY <2>1
      <4>2. QED BY <2>1, <4>1, UptoFacts
    <3>2. Block[i] \in UserLines \cup Managed /\ Block[i] \notin UserLines
      BY <1>1, <1>2
    <3> HIDE DEF Upto
    <3>3. QED BY <2>2, <3>1, <3>2, OnlyAppend DEF Kept
  <2>3. Upto(Block, 0) = <<>> /\ Upto(Block, 3) = Block
    BY <2>1, UptoFacts
  <2>4. Only(Upto(Block, 3), UserLines) = <<>>
    BY <1>5, <2>2, <2>3
  <2>5. QED BY <2>3, <2>4
<1>7. QED BY <1>2, <1>3, <1>4, <1>5, <1>6

\* A line of the user is a whole text.
LEMMA LineFacts ==
    ASSUME NEW l \in UserLines
    PROVE  /\ <<l>> \in Text /\ Whole(<<l>>) /\ <<l>> \in Seq(UserLines)
           /\ Only(<<l>>, UserLines) = <<l>>
<1>1. l \notin Managed /\ l \in UserLines \cup Managed
  BY WiringAssumption
<1>2. <<l>> \in Text /\ <<l>> \in Seq(UserLines) /\ Len(<<l>>) = 1 /\ <<l>>[1] = l
  BY <1>1 DEF Text
<1>3. Whole(<<l>>)
  BY <1>1, <1>2 DEF Whole, Managed
<1>4. <<l>> = Append(<<>>, l) /\ <<>> \in Seq(UserLines)
  OBVIOUS
<1>5. Only(<<l>>, UserLines) = <<l>>
  <2>1. Only(Append(<<>>, l), UserLines) = Kept(Only(<<>>, UserLines), l, UserLines)
    BY <1>4, OnlyAppend
  <2>2. QED BY <1>4, <2>1, OnlyOfNone DEF Kept
<1>6. QED BY <1>2, <1>3, <1>5

\* What is held after a line of a whole text.
HeldAfter(l) == CASE l = "start" -> <<"start">>
                  [] l = "block" -> Append(<<"start">>, "block")
                  [] OTHER -> <<>>

\* In a whole text the lines before and after a line of a block are the block's.
LEMMA WholeAround ==
    ASSUME NEW text \in Text, Whole(text), NEW i \in 1..Len(text)
    PROVE  /\ text[i] \in UserLines \cup Managed
           /\ text[i] = "block" => i - 1 \in 1..Len(text) /\ text[i - 1] = "start"
           /\ text[i] = "end" => i - 1 \in 1..Len(text) /\ text[i - 1] = "block"
           /\ text[i] \in UserLines \cup {"start"} /\ i > 1 => 
                    text[i - 1] # "start" /\ text[i - 1] # "block"
           /\ i = Len(text) => text[i] # "start" /\ text[i] # "block"
<1> DEFINE n == Len(text)
<1>1. n \in Nat /\ \A k \in 1..n : text[k] \in UserLines \cup Managed
  BY DEF Text
<1>2. \A k \in 1..n : 
        /\ text[k] = "start" =>
             k + 2 <= n /\ text[k + 1] = "block" /\ text[k + 2] = "end"
        /\ text[k] = "block" => k > 1 /\ text[k - 1] = "start"
        /\ text[k] = "end" => k > 2 /\ text[k - 1] = "block"
  BY DEF Whole
<1> HIDE DEF n
<1>3. i \in 1..n /\ n = Len(text)
  BY DEF n
<1>4. "start" \notin UserLines /\ "block" \notin UserLines /\ "end" \notin UserLines
  BY WiringAssumption DEF Managed
<1>5. ASSUME text[i] \in UserLines \cup {"start"}, i > 1
      PROVE  text[i - 1] # "start" /\ text[i - 1] # "block"
  <2>1. i - 1 \in 1..n /\ (i - 1) + 1 = i
    BY <1>1, <1>3, <1>5
  <2>2. text[i - 1] # "start"
    BY <1>2, <1>4, <1>5, <2>1
  <2>3. ASSUME text[i - 1] = "block" PROVE FALSE
    <3>1. i - 1 > 1 /\ text[(i - 1) - 1] = "start"
      BY <1>2, <2>1, <2>3
    <3>2. (i - 1) - 1 \in 1..n /\ ((i - 1) - 1) + 2 = i
      BY <1>1, <2>1, <3>1
    <3>3. text[((i - 1) - 1) + 2] = "end"
      BY <1>2, <3>1, <3>2
    <3>4. QED BY <1>4, <1>5, <3>2, <3>3
  <2>4. QED BY <2>2, <2>3
<1>6. ASSUME i = n PROVE text[i] # "start" /\ text[i] # "block"
  <2>1. text[i] # "start"
    BY <1>1, <1>2, <1>3, <1>6
  <2>2. ASSUME text[i] = "block" PROVE FALSE
    <3>1. i - 1 \in 1..n /\ text[i - 1] = "start"
      BY <1>1, <1>2, <1>3, <2>2
    <3>2. QED BY <1>1, <1>2, <1>6, <3>1
  <2>3. QED BY <2>1, <2>2
<1>7. ASSUME text[i] = "block" \/ text[i] = "end" PROVE i - 1 \in 1..n
  BY <1>1, <1>2, <1>3, <1>7
<1>8. QED BY <1>1, <1>2, <1>3, <1>5, <1>6, <1>7

\* Of a whole text the substitution keeps every line of the user and no other,
\* and puts whole blocks where the blocks were.
LEMMA WholeSubstituted ==
    ASSUME NEW text \in Text, Whole(text), NEW With \in {<<>>, Block}
    PROVE  /\ Whole(Substituted(text, With))
           /\ Only(Substituted(text, With), UserLines) = Only(text, UserLines)
           /\ With = <<>> => Substituted(text, With) \in Seq(UserLines)
<1> DEFINE n == Len(text)
           Good(i, st) == /\ st.held = IF i = 0 THEN <<>> ELSE HeldAfter(text[i])
                          /\ Whole(st.kept)
                          /\ Only(st.kept, UserLines) = Only(Upto(text, i), UserLines)
                          /\ With = <<>> => st.kept \in Seq(UserLines)
<1>with. With \in Text /\ Whole(With) /\ Only(With, UserLines) = <<>>
  BY BlockFacts
<1>1. PICK run : IsScan(run, text, With)
                 /\ Substituted(text, With) = run[n].kept \o run[n].held
  BY <1>with, ScanRuns DEF IsScan
<1>2. n \in Nat /\ \A i \in 0..n : run[i] \in [kept : Text, held : Text]
  <2>1. n \in Nat
    BY DEF Text
  <2>2. QED BY <1>with, <1>1, <2>1, ScanTypes
<1> DEFINE I == {i \in 0..n : Good(i, run[i])}
<1>3. 0 \in I
  <2>1. run[0].kept = <<>> /\ run[0].held = <<>> /\ 0 \in 0..n
    BY <1>1, <1>2 DEF IsScan
  <2>2. Upto(text, 0) = <<>>
    BY UptoFacts DEF Text
  <2>3. QED BY <2>1, <2>2, BlockFacts
<1>4. ASSUME NEW i \in 1..n, i - 1 \in I PROVE i \in I
  <2> DEFINE st == run[i - 1]
             l == text[i]
             u == Upto(text, i - 1)
  <2>1. /\ i \in 0..n /\ i - 1 \in 0..n /\ Good(i - 1, st)
        /\ st \in [kept : Text, held : Text] /\ run[i] = Scanned(st, l, With)
    BY <1>1, <1>2, <1>4 DEF IsScan
  <2>2. /\ l \in UserLines \cup Managed
        /\ l = "block" => i > 1 /\ text[i - 1] = "start"
        /\ l = "end" => i > 1 /\ text[i - 1] = "block"
        /\ l \in UserLines \cup {"start"} /\ i > 1 => 
                    text[i - 1] # "start" /\ text[i - 1] # "block"
    BY <1>2, WholeAround
  <2>3. /\ u \in Text /\ Upto(text, i) = Append(u, l)
    BY <1>2, <2>1, UptoFacts DEF Text
  <2>round. IsRound(st, l, With, run[i])
    BY <1>with, <2>1, <2>2, Rounds
  <2>4. /\ st.held = (IF i - 1 = 0 THEN <<>> ELSE HeldAfter(text[i - 1]))
        /\ Whole(st.kept) /\ st.kept \in Text
        /\ Only(st.kept, UserLines) = Only(u, UserLines)
        /\ With = <<>> => st.kept \in Seq(UserLines)
    BY <2>1
  <2>5. ASSUME Only(run[i].kept, UserLines) = Only(Append(u, l), UserLines),
               run[i].held = HeldAfter(l), Whole(run[i].kept), 
               With = <<>> => run[i].kept \in Seq(UserLines)
        PROVE  i \in I
    <3>1. i # 0 /\ i \in 0..n
      BY <1>2
    <3>2. Only(run[i].kept, UserLines) = Only(Upto(text, i), UserLines)
      BY <2>3, <2>5
    <3>3. Good(i, run[i])
      BY <2>5, <3>1, <3>2
    <3> HIDE DEF Good
    <3>4. QED BY <3>1, <3>3
  <2>6. Only(Append(u, l), UserLines) = Kept(Only(u, UserLines), l, UserLines)
    BY <2>2, <2>3, OnlyAppend DEF Text
  <2> HIDE DEF st, l, u, I, n
  <2>names. /\ "start" \notin UserLines /\ "block" \notin UserLines /\ "end" \notin UserLines
            /\ "start" # "block" /\ "start" # "end" /\ "block" # "end"
    BY WiringAssumption DEF Managed
  <2>7. CASE l \in UserLines
    <3>1. st.held = <<>>
      BY <2>2, <2>4, <2>7 DEF HeldAfter
    <3>2. run[i].kept = Append(st.kept, l) /\ run[i].held = <<>>
      BY <2>7, <2>names, <2>round, <3>1 DEF IsRound
    <3>3. Append(st.kept, l) = st.kept \o <<l>>
      BY <2>4 DEF Text
    <3>4. Whole(run[i].kept)
      BY <2>4, <2>7, <3>2, <3>3, LineFacts, WholeConcat
    <3>5. Only(Append(st.kept, l), UserLines) = Kept(Only(st.kept, UserLines), l, UserLines)
      BY <2>2, <2>4, OnlyAppend DEF Text
    <3>6. HeldAfter(l) = <<>>
      BY <2>7, <2>names DEF HeldAfter
    <3>7. With = <<>> => Append(st.kept, l) \in Seq(UserLines)
      BY <2>4, <2>7
    <3>8. QED BY <2>4, <2>5, <2>6, <3>2, <3>4, <3>5, <3>6, <3>7
  <2>8. CASE l = "start"
    <3>1. st.held = <<>>
      BY <2>2, <2>4, <2>8 DEF HeldAfter
    <3>2. run[i].kept = st.kept /\ run[i].held = <<"start">>
      BY <2>8, <2>round, <3>1 DEF IsRound
    <3>3. QED BY <2>4, <2>5, <2>6, <2>8, <2>names, <3>2 DEF Kept, HeldAfter
  <2>9. CASE l = "block"
    <3>1. st.held = <<"start">>
      BY <2>2, <2>4, <2>9 DEF HeldAfter
    <3>2. run[i].kept = st.kept /\ run[i].held = Append(<<"start">>, "block")
      BY <2>9, <2>round, <3>1 DEF IsRound
    <3>3. QED BY <2>4, <2>5, <2>6, <2>9, <2>names, <3>2 DEF Kept, HeldAfter
  <2>10. CASE l = "end"
    <3>1. st.held # <<>>
      BY <2>2, <2>4, <2>10 DEF HeldAfter
    <3>2. run[i].kept = st.kept \o With /\ run[i].held = <<>>
      BY <2>10, <2>round, <3>1 DEF IsRound
    <3>3. Whole(run[i].kept)
      BY <1>with, <2>4, <3>2, WholeConcat
    <3>4. Only(st.kept \o With, UserLines) = Only(st.kept, UserLines)
      <4> DEFINE S == UserLines \cup Managed
      <4>0. st.kept \in Seq(S) /\ With \in Seq(S)
        BY <1>with, <2>4 DEF Text
      <4> HIDE DEF S
      <4>1. Only(st.kept \o With, UserLines) = Only(st.kept, UserLines) \o <<>>
        <5>1. PICK s \in Seq(S), t \in Seq(S) : s = st.kept /\ t = With
          BY <4>0
        <5>2. Only(s \o t, UserLines) = Only(s, UserLines) \o Only(t, UserLines)
          BY OnlyConcat
        <5>3. QED BY <1>with, <5>1, <5>2
      <4>2. Only(st.kept, UserLines) \in Seq((UserLines \cup Managed) \cap UserLines)
        BY <2>4, OnlyType DEF Text
      <4>3. QED BY <4>1, <4>2
    <3>5. With = <<>> => st.kept \o With \in Seq(UserLines)
      BY <2>4
    <3>6. QED BY <2>4, <2>5, <2>6, <2>10, <2>names, <3>2, <3>3, <3>4, <3>5 DEF Kept, HeldAfter
  <2>11. QED BY <2>2, <2>7, <2>8, <2>9, <2>10 DEF Managed
<1>5. Good(n, run[n])
  <2>1. n \in I
    <3> HIDE DEF I, n
    <3>1. QED BY <1>2, <1>3, <1>4, LoopInduction
  <2>2. QED BY <2>1
<1>6. run[n].held = <<>>
  <2>1. CASE n = 0
    BY <1>5, <2>1
  <2>2. CASE n # 0
    <3>1. n \in 1..n
      BY <1>2, <2>2
    <3>2. text[n] # "start" /\ text[n] # "block"
      BY <3>1, WholeAround
    <3>3. QED BY <1>5, <2>2, <3>2 DEF HeldAfter
  <2>3. QED BY <2>1, <2>2
<1>7. Substituted(text, With) = run[n].kept
  <2>1. run[n].kept \in Text
    BY <1>2
  <2>2. QED BY <1>1, <1>6, <2>1 DEF Text
<1>8. Upto(text, n) = text
  BY UptoFacts DEF Text
<1>9. QED BY <1>5, <1>7, <1>8

-----------------------------------------------------------------------------
(* The adapters *)

Files == TextFiles \cup {"claude", "fallback", "registered", "mcp"}

\* What the files of the clients can be.
Shaped(w) ==
    /\ w = [f \in Files |-> w[f]]
    /\ \A f \in TextFiles : w[f] \in Text \cup {Missing}
    /\ w["claude"] \in Settings \cup {Missing, Wrong}

\* A text file is written with care for the user's lines.
Cared(old, new) ==
    Whole(Lines(old)) => Whole(Lines(new)) /\ UserPart(new) = UserPart(old)

\* What a client's wiring is made of.
Touched(client) == CASE client = "claude" -> {"claude", "fallback", "registered"}
                     [] client = "codex" -> {"config", "agents", "override"}
                     [] client = "generic" -> {"mcp", "instructions"}

LEMMA LinesOf ==
    /\ \A text \in Text : Lines(text) = text
    /\ Lines(Missing) = <<>> /\ <<>> \in Text
    /\ \A text \in Text \cup {Missing} : Lines(text) \in Text
<1>1. Missing \notin Text /\ <<>> \in Text
  BY WiringAssumption DEF Text
<1>2. QED BY <1>1 DEF Lines

\* replace_sentinel_block and remove_sentinel_block.
LEMMA ReplaceFacts ==
    ASSUME NEW text \in Text
    PROVE  /\ ReplaceSentinelBlock(text) \in Text
           /\ Contains(ReplaceSentinelBlock(text), "start")
           /\ Whole(text) => /\ Whole(ReplaceSentinelBlock(text))
                             /\ Only(ReplaceSentinelBlock(text), UserLines) = Only(text, UserLines)
<1>1. CASE HasBlock(text)
  <2>1. ReplaceSentinelBlock(text) = Substituted(text, Block)
    BY <1>1 DEF ReplaceSentinelBlock
  <2>2. Contains(text, "start")
    <3>1. PICK j \in DOMAIN text : text[j] = "start"
      BY <1>1 DEF HasBlock
    <3>2. DOMAIN text = 1..Len(text)
      BY DEF Text
    <3>3. QED BY <3>1, <3>2 DEF Contains
  <2>3. Block \in Text /\ Contains(Block, "start")
    BY BlockFacts
  <2>4. Substituted(text, Block) \in Text /\ Contains(Substituted(text, Block), "start")
    BY <2>2, <2>3, SubstitutedFacts
  <2>5. Whole(text) => /\ Whole(Substituted(text, Block))
                       /\ Only(Substituted(text, Block), UserLines) = Only(text, UserLines)
    BY WholeSubstituted
  <2>6. QED BY <2>1, <2>4, <2>5
<1>2. CASE ~HasBlock(text)
  <2>1. ReplaceSentinelBlock(text) = text \o Block
    BY <1>2 DEF ReplaceSentinelBlock
  <2>2. PICK s \in Text, b \in Text : s = text /\ b = Block
    BY BlockFacts
  <2>3. s \o b \in Text
    BY DEF Text
  <2>4. Contains(s \o b, "start")
    <3>1. "start" \in UserLines \cup Managed /\ Contains(b, "start")
      BY <2>2, BlockFacts DEF Managed
    <3>2. QED BY <3>1, ContainsFacts DEF Text
  <2>5. Whole(s) => Whole(s \o b)
    BY <2>2, BlockFacts, WholeConcat
  <2>6. Only(s \o b, UserLines) = Only(s, UserLines)
    <3>1. Only(s \o b, UserLines) = Only(s, UserLines) \o Only(b, UserLines)
      BY OnlyConcat DEF Text
    <3>2. Only(s, UserLines) \in Seq((UserLines \cup Managed) \cap UserLines)
      BY OnlyType DEF Text
    <3>3. Only(s, UserLines) \o <<>> = Only(s, UserLines)
      BY <3>2
    <3>4. QED BY <2>2, <3>1, <3>3, BlockFacts
  <2>7. QED BY <2>1, <2>2, <2>3, <2>4, <2>5, <2>6
<1>3. QED BY <1>1, <1>2

LEMMA RemoveFacts ==
    ASSUME NEW text \in Text
    PROVE  /\ RemoveSentinelBlock(text) \in Text
           /\ Whole(text) => /\ Whole(RemoveSentinelBlock(text))
                             /\ Only(RemoveSentinelBlock(text), UserLines) = Only(text, UserLines)
                             /\ ToSet(RemoveSentinelBlock(text)) \cap Managed = {}
<1>1. <<>> \in Text
  BY BlockFacts
<1>2. RemoveSentinelBlock(text) = Substituted(text, <<>>)
  BY DEF RemoveSentinelBlock
<1>3. Substituted(text, <<>>) \in Text
  BY <1>1, SubstitutedFacts
<1>4. ASSUME Whole(text)
      PROVE  /\ Whole(Substituted(text, <<>>))
             /\ Only(Substituted(text, <<>>), UserLines) = Only(text, UserLines)
             /\ ToSet(Substituted(text, <<>>)) \cap Managed = {}
  <2>1. /\ Whole(Substituted(text, <<>>))
        /\ Only(Substituted(text, <<>>), UserLines) = Only(text, UserLines)
        /\ Substituted(text, <<>>) \in Seq(UserLines)
    BY <1>4, WholeSubstituted
  <2>2. ToSet(Substituted(text, <<>>)) \subseteq UserLines
    BY <2>1 DEF ToSet
  <2>3. QED BY <2>1, <2>2, WiringAssumption
<1>5. QED BY <1>2, <1>3, <1>4

\* One file is given a block, the others are left alone.
LEMMA WithBlockFacts ==
    ASSUME NEW w, Shaped(w), NEW file \in TextFiles, NEW r, r = WithBlock(w, file)
    PROVE  /\ Shaped(r)
           /\ \A f \in Files \ {file} : r[f] = w[f]
           /\ Lines(r[file]) # <<>> /\ ContainsSentinel(r[file])
           /\ Cared(w[file], r[file])
<1> DEFINE old == Lines(w[file])
           new == ReplaceSentinelBlock(old)
<1>1. old \in Text /\ new \in Text /\ Lines(new) = new
  BY LinesOf, ReplaceFacts DEF Shaped
<1>2. r = [w EXCEPT ![file] = new]
  BY DEF WithBlock
<1>3. /\ file \in Files /\ file # "claude" /\ "claude" \in Files
      /\ TextFiles \subseteq Files
  BY DEF Files, TextFiles
<1>4. Contains(new, "start") /\ new # <<>>
      /\ (Whole(old) => Whole(new) /\ Only(new, UserLines) = Only(old, UserLines))
  <2>1. Contains(new, "start") /\ (Whole(old) => Whole(new) /\ Only(new, UserLines) = Only(old, UserLines))
    BY <1>1, ReplaceFacts
  <2>2. Len(<<>>) = 0
    OBVIOUS
  <2>3. QED BY <2>1, <2>2 DEF Contains
<1>5. Lines(w[file]) = old
  OBVIOUS
<1> HIDE DEF old, new
<1>6. r[file] = new /\ r = [f \in Files |-> r[f]] /\ \A f \in Files \ {file} : r[f] = w[f]
  BY <1>2, <1>3 DEF Shaped
<1>7. Shaped(r)
  BY <1>1, <1>3, <1>6 DEF Shaped
<1>8. Cared(w[file], r[file])
  BY <1>1, <1>4, <1>5, <1>6 DEF Cared, UserPart
<1>9. QED BY <1>1, <1>4, <1>6, <1>7, <1>8 DEF ContainsSentinel

\* A block is taken from one file, the others are left alone.
LEMMA WithoutBlockFacts ==
    ASSUME NEW w, Shaped(w), NEW file \in TextFiles, NEW r, r = WithoutBlock(w, file)
    PROVE  /\ Shaped(r)
           /\ \A f \in Files \ {file} : r[f] = w[f]
           /\ Cared(w[file], r[file])
           /\ Whole(Lines(w[file])) => ToSet(Lines(r[file])) \cap Managed = {}
<1> DEFINE new == IF w[file] = Missing THEN Missing ELSE RemoveSentinelBlock(w[file])
<1>1. w[file] \in Text \cup {Missing}
  BY DEF Shaped
<1>2. /\ new \in Text \cup {Missing} /\ Cared(w[file], new)
      /\ Whole(Lines(w[file])) => ToSet(Lines(new)) \cap Managed = {}
  <2>1. CASE w[file] = Missing
    <3>1. ToSet(Lines(Missing)) = {}
      BY LinesOf DEF ToSet
    <3>2. QED BY <2>1, <3>1 DEF Cared
  <2>2. CASE w[file] # Missing
    <3>1. PICK text \in Text : w[file] = text
      BY <1>1, <2>2
    <3>2. /\ new = RemoveSentinelBlock(text) /\ new \in Text
          /\ Lines(new) = new /\ Lines(text) = text
      BY <2>2, <3>1, RemoveFacts, LinesOf
    <3>3. Whole(text) => /\ Whole(new) /\ Only(new, UserLines) = Only(text, UserLines)
                         /\ ToSet(new) \cap Managed = {}
      BY <3>2, RemoveFacts
    <3> HIDE DEF new
    <3>4. QED BY <3>1, <3>2, <3>3 DEF Cared, UserPart
  <2>3. QED BY <2>1, <2>2
<1>3. r = [w EXCEPT ![file] = new]
  BY DEF WithoutBlock
<1>4. /\ file \in Files /\ file # "claude" /\ "claude" \in Files
      /\ TextFiles \subseteq Files
  BY DEF Files, TextFiles
<1> HIDE DEF new
<1>5. r[file] = new /\ r = [f \in Files |-> r[f]] /\ \A f \in Files \ {file} : r[f] = w[f]
  BY <1>3, <1>4 DEF Shaped
<1>6. Shaped(r)
  BY <1>2, <1>4, <1>5 DEF Shaped
<1>7. QED BY <1>2, <1>5, <1>6

\* What a list of Claude's settings holds of the user's.
OwnOf(settings, key) ==
    IF settings \in {Missing, Wrong} THEN <<>> ELSE Others(settings[key])

\* Clean and Complete of any files.
SettingsCleanOf(settings) ==
    /\ settings # Wrong
    /\ settings # Missing =>
        \A key \in {"hooks", "allow"} :
            settings[key] \in {Missing, Wrong} \/ ToSet(settings[key]) \subseteq {"own"}

CleanIn(w, broken, client) ==
    /\ ~Installed(w, client)
    /\ client = "claude" => SettingsCleanOf(w["claude"])
    /\ client = "generic" => w["mcp"] # "ours"
    /\ \A f \in FilesOf(client) \ broken : ToSet(Lines(w[f])) \cap Managed = {}

Marked == {"ours", "mixed", "granted"}
CompleteIn(w, client) ==
    /\ Installed(w, client)
    /\ client = "claude" =>
        /\ w["fallback"] = "ours"
        /\ \A key \in {"hooks", "allow"} : Only(w["claude"][key], Marked) = <<"ours">>

\* An entry that is not kept is replaced by another that is not.
LEMMA EntryReplaced ==
    ASSUME NEW S, NEW s \in Seq(S), NEW i \in DOMAIN s, NEW e \in S, NEW keep,
           s[i] \notin keep, e \notin keep
    PROVE  [s EXCEPT ![i] = e] \in Seq(S) /\ Only([s EXCEPT ![i] = e], keep) = Only(s, keep)
<1> DEFINE n == Len(s)
           new == [s EXCEPT ![i] = e]
           I == {k \in 0..n : Only(Upto(new, k), keep) = Only(Upto(s, k), keep)}
<1>1. n \in Nat /\ new \in Seq(S) /\ Len(new) = n
  OBVIOUS
<1>2. \A k \in 1..n : /\ s[k] \in S /\ new[k] \in S
                      /\ new[k] = s[k] \/ (new[k] \notin keep /\ s[k] \notin keep)
  OBVIOUS
<1> HIDE DEF new
<1>3. 0 \in I
  BY <1>1, UptoFacts
<1>4. ASSUME NEW k \in 1..n, k - 1 \in I PROVE k \in I
  <2>1. PICK r \in Seq(S), t \in Seq(S) : r = Upto(new, k - 1) /\ t = Upto(s, k - 1)
    <3>1. k - 1 \in 0..n
      BY <1>1
    <3>2. QED BY <1>1, <3>1, UptoFacts
  <2>2. Upto(new, k) = Append(r, new[k]) /\ Upto(s, k) = Append(t, s[k])
    BY <1>1, <2>1, UptoFacts
  <2>3. Only(r, keep) = Only(t, keep)
    BY <1>4, <2>1
  <2>4. /\ Only(Upto(new, k), keep) = Kept(Only(r, keep), new[k], keep)
        /\ Only(Upto(s, k), keep) = Kept(Only(t, keep), s[k], keep)
    BY <1>2, <2>2, OnlyAppend
  <2>5. Only(Upto(new, k), keep) = Only(Upto(s, k), keep)
    BY <1>2, <2>3, <2>4 DEF Kept
  <2>6. QED BY <1>1, <2>5
<1>5. n \in I
  <2> HIDE DEF I
  <2>1. QED BY <1>1, <1>3, <1>4, LoopInduction
<1>6. Only(Upto(new, n), keep) = Only(Upto(s, n), keep)
  BY <1>5
<1>7. Upto(new, n) = new /\ Upto(s, n) = s
  BY <1>1, UptoFacts
<1>8. Only(new, keep) = Only(s, keep)
  BY <1>6, <1>7
<1>9. QED BY <1>1, <1>8 DEF new

\* The entries that are not ours, and ours added to them.
LEMMA OthersFacts ==
    ASSUME NEW entries \in Entries \cup {Missing, Wrong}
    PROVE  /\ Others(entries) \in Seq({"own"}) /\ Others(entries) \in Entries
           /\ Others(Others(entries)) = Others(entries)
           /\ ToSet(Others(entries)) \subseteq {"own"}
           /\ Append(Others(entries), "ours") \in Entries
           /\ Others(Append(Others(entries), "ours")) = Others(entries)
           /\ "ours" \in ToSet(Append(Others(entries), "ours"))
           /\ Only(Append(Others(entries), "ours"), Marked) = <<"ours">>
<1> DEFINE list == IF entries \in {Missing, Wrong} THEN <<>> ELSE entries
           S == {"own", "ours", "mixed", "granted"}
<1>1. list \in Seq(S)
  BY DEF Entries
<1> HIDE DEF list
<1>2. Only(list, {"own"}) \in Seq(S \cap {"own"})
  BY <1>1, OnlyType
<1>3. S \cap {"own"} = {"own"}
  OBVIOUS
<1>4. Others(entries) = Only(list, {"own"})
  BY DEF Others, list
<1>5. PICK o \in Seq({"own"}) : o = Others(entries)
  BY <1>2, <1>3, <1>4
<1>6. o \in Entries /\ Append(o, "ours") \in Entries /\ o \in Seq(S)
  BY DEF Entries
<1>7. \A e \in Entries : Others(e) = Only(e, {"own"})
  BY WiringAssumption DEF Others
<1>8. Only(o, {"own"}) = o
  BY OnlyAll
<1>9. ToSet(o) \subseteq {"own"}
  BY DEF ToSet
<1>10. "ours" \in ToSet(Append(o, "ours"))
  <2>1. Len(o) + 1 \in DOMAIN Append(o, "ours") /\ Append(o, "ours")[Len(o) + 1] = "ours"
    OBVIOUS
  <2>2. QED BY <2>1 DEF ToSet
<1>11. Only(Append(o, "ours"), {"own"}) = Kept(Only(o, {"own"}), "ours", {"own"})
  BY <1>6, OnlyAppend
<1>12. Kept(o, "ours", {"own"}) = o
  BY DEF Kept
<1>13. Only(Append(o, "ours"), Marked) = <<"ours">>
  <2>1. Only(o, Marked) \in Seq({"own"} \cap Marked)
    BY OnlyType
  <2>2. {"own"} \cap Marked = {}
    BY DEF Marked
  <2>3. Only(o, Marked) = <<>>
    BY <2>1, <2>2
  <2>4. Only(Append(o, "ours"), Marked) = Kept(<<>>, "ours", Marked)
    BY <1>6, <2>3, OnlyAppend
  <2>5. QED BY <2>4 DEF Kept, Marked
<1>14. QED BY <1>5, <1>6, <1>7, <1>8, <1>9, <1>10, <1>11, <1>12, <1>13

LEMMA OthersOfNone == Others(Missing) = <<>> /\ Others(Wrong) = <<>> /\ Others(<<>>) = <<>>
BY OnlyOfNone DEF Others

LEMMA SettingsFacts ==
    ASSUME NEW a \in Settings
    PROVE  /\ a \notin {Missing, Wrong}
           /\ a.hooks \in Entries \cup {Missing, Wrong} /\ a.allow \in Entries \cup {Missing, Wrong}
           /\ a["hooks"] = a.hooks /\ a["allow"] = a.allow
BY WiringAssumption DEF Settings

LEMMA SettingsWithFacts ==
    ASSUME NEW a \in Settings \cup {Missing, Wrong}, NEW b, b = SettingsWith(a), b # Failed
    PROVE  /\ b \in Settings /\ b.hooks \in Entries /\ "ours" \in ToSet(b.hooks)
           /\ \A key \in {"hooks", "allow"} : /\ OwnOf(b, key) = OwnOf(a, key)
                                             /\ Only(b[key], Marked) = <<"ours">>
<1>1. a # Wrong
  BY WiringAssumption DEF SettingsWith
<1>2. PICK x \in Entries \cup {Missing, Wrong}, y \in Entries \cup {Missing, Wrong} :
        /\ b = [hooks |-> Append(Others(x), "ours"), allow |-> Append(Others(y), "ours")]
        /\ OwnOf(a, "hooks") = Others(x) /\ OwnOf(a, "allow") = Others(y)
  <2>1. CASE a = Missing
    <3>1. Others(Missing) = <<>> /\ OwnOf(a, "hooks") = <<>> /\ OwnOf(a, "allow") = <<>>
      BY <2>1, OthersOfNone DEF OwnOf
    <3>2. Append(<<>>, "ours") = <<"ours">>
      OBVIOUS
    <3>3. b = [hooks |-> Append(Others(Missing), "ours"), allow |-> Append(Others(Missing), "ours")]
      BY <1>1, <2>1, <3>1, <3>2 DEF SettingsWith
    <3>4. QED BY <3>1, <3>3
  <2>2. CASE a \in Settings
    <3>1. a \notin {Missing, Wrong}
      BY <2>2, SettingsFacts
    <3>2. b = [hooks |-> Append(Others(a.hooks), "ours"), allow |-> Append(Others(a.allow), "ours")]
      BY <3>1 DEF SettingsWith
    <3>3. OwnOf(a, "hooks") = Others(a.hooks) /\ OwnOf(a, "allow") = Others(a.allow)
      BY <2>2, <3>1, SettingsFacts DEF OwnOf
    <3>4. QED BY <2>2, <3>2, <3>3, SettingsFacts
  <2>3. QED BY <1>1, <2>1, <2>2
<1>3. PICK hooks \in Entries, allow \in Entries :
          /\ hooks = Append(Others(x), "ours") /\ allow = Append(Others(y), "ours")
          /\ Others(hooks) = Others(x) /\ Others(allow) = Others(y)
          /\ "ours" \in ToSet(hooks)
          /\ Only(hooks, Marked) = <<"ours">> /\ Only(allow, Marked) = <<"ours">>
  BY OthersFacts
<1>4. b = [hooks |-> hooks, allow |-> allow]
  BY <1>2, <1>3
<1>5. b \in Settings /\ b.hooks = hooks /\ b.allow = allow
  BY <1>4 DEF Settings
<1>6. \A key \in {"hooks", "allow"} : OwnOf(b, key) = OwnOf(a, key)
  BY <1>2, <1>3, <1>5, SettingsFacts DEF OwnOf
<1>7. b["hooks"] = hooks /\ b["allow"] = allow
  BY <1>5, SettingsFacts
<1>8. QED BY <1>3, <1>5, <1>6, <1>7

LEMMA SettingsWithoutFacts ==
    ASSUME NEW a \in Settings \cup {Missing, Wrong}, NEW b, b = SettingsWithout(a), b # Failed
    PROVE  /\ b \in Settings \cup {Missing} /\ SettingsCleanOf(b)
           /\ \A key \in {"hooks", "allow"} : OwnOf(b, key) = OwnOf(a, key)
<1>1. a # Wrong
  BY WiringAssumption DEF SettingsWithout
<1>2. CASE a = Missing
  BY <1>2, WiringAssumption DEF SettingsWithout, SettingsCleanOf
<1>3. CASE a \in Settings
  <2>1. \A e \in Entries \cup {Missing, Wrong} :
            /\ WithoutOurs(e) \in Entries \cup {Missing, Wrong}
            /\ Others(WithoutOurs(e)) = Others(e)
            /\ WithoutOurs(e) \in {Missing, Wrong} \/ ToSet(WithoutOurs(e)) \subseteq {"own"}
    BY OthersFacts DEF WithoutOurs
  <2>2. PICK hooks \in Entries \cup {Missing, Wrong}, allow \in Entries \cup {Missing, Wrong} :
            hooks = WithoutOurs(a.hooks) /\ allow = WithoutOurs(a.allow)
    BY <1>3, <2>1, SettingsFacts
  <2>3. b = [hooks |-> hooks, allow |-> allow]
    BY <1>3, <2>2, SettingsFacts DEF SettingsWithout
  <2>4. b \in Settings /\ b.hooks = hooks /\ b.allow = allow
    BY <2>3 DEF Settings
  <2>5. /\ Others(hooks) = Others(a.hooks) /\ Others(allow) = Others(a.allow)
        /\ hooks \in {Missing, Wrong} \/ ToSet(hooks) \subseteq {"own"}
        /\ allow \in {Missing, Wrong} \/ ToSet(allow) \subseteq {"own"}
    BY <1>3, <2>1, <2>2, SettingsFacts
  <2>6. \A key \in {"hooks", "allow"} : OwnOf(b, key) = OwnOf(a, key)
    BY <1>3, <2>4, <2>5, SettingsFacts DEF OwnOf
  <2>7. SettingsCleanOf(b)
    BY <2>4, <2>5, SettingsFacts DEF SettingsCleanOf
  <2>8. QED BY <2>4, <2>6, <2>7
<1>4. QED BY <1>1, <1>2, <1>3

\* Whether a client is wired, or clean, depends on its own files.
LEMMA Elsewhere ==
    ASSUME NEW client \in Clients, NEW w, NEW r, \A f \in Touched(client) : r[f] = w[f], NEW broken
    PROVE  /\ CompleteIn(r, client) <=> CompleteIn(w, client)
           /\ CleanIn(r, broken, client) <=> CleanIn(w, broken, client)
<1>1. Installed(r, client) <=> Installed(w, client)
  <2>1. CASE client = "claude"
    BY <2>1 DEF Installed, Touched
  <2>2. CASE client = "codex"
    <3>1. r["config"] = w["config"] /\ r["agents"] = w["agents"] /\ r["override"] = w["override"]
      BY <2>2 DEF Touched
    <3>2. Active(r) = Active(w) /\ r[Active(r)] = w[Active(w)]
      BY <3>1 DEF Active
    <3>3. QED BY <2>2, <3>1, <3>2 DEF Installed
  <2>3. CASE client = "generic"
    BY <2>3 DEF Installed, Touched
  <2>4. QED BY <2>1, <2>2, <2>3 DEF Clients
<1>2. \A f \in FilesOf(client) : r[f] = w[f]
  BY DEF FilesOf, Touched, Clients
<1>3. /\ client = "claude" => r["claude"] = w["claude"] /\ r["fallback"] = w["fallback"]
      /\ client = "generic" => r["mcp"] = w["mcp"]
  BY DEF Touched
<1>4. QED BY <1>1, <1>2, <1>3 DEF CleanIn, CompleteIn

LEMMA CaredTwice ==
    ASSUME NEW a, NEW b, NEW c, Cared(a, b), Cared(b, c) PROVE Cared(a, c)
BY DEF Cared

\* An adapter keeps the shape of the files, the user's part of each text that
\* is whole and of the settings, and leaves other clients alone.
Careful(w, r, client) ==
    /\ Shaped(r)
    /\ \A f \in Files \ Touched(client) : r[f] = w[f]
    /\ \A f \in TextFiles : Cared(w[f], r[f])
    /\ \A key \in {"hooks", "allow"} : OwnOf(r["claude"], key) = OwnOf(w["claude"], key)

\* Files that are the same are cared for.
WrittenOnly(w, r, written) ==
    /\ \A f \in Files \ written : r[f] = w[f]
    /\ written \subseteq TextFiles \cup {"mcp"}
    /\ \A f \in written \cap TextFiles : Cared(w[f], r[f])

LEMMA CaredElsewhere ==
    ASSUME NEW w, NEW r, NEW written, WrittenOnly(w, r, written)
    PROVE  /\ \A f \in TextFiles : Cared(w[f], r[f])
           /\ r["claude"] = w["claude"]
<1>1. "claude" \in Files \ written /\ TextFiles \subseteq Files
  BY DEF Files, TextFiles, WrittenOnly
<1>2. \A a : Cared(a, a)
  BY DEF Cared
<1>3. QED BY <1>1, <1>2 DEF WrittenOnly

\* What belongs to Claude is written, the texts left alone.
LEMMA ClaudeWritten ==
    ASSUME NEW w, Shaped(w), NEW b \in Settings \cup {Missing},
           \A key \in {"hooks", "allow"} : OwnOf(b, key) = OwnOf(w["claude"], key),
           NEW r, r = [f \in Files |-> r[f]], r["claude"] = b,
           \A f \in Files \ Touched("claude") : r[f] = w[f]
    PROVE  Careful(w, r, "claude")
<1>1. \A f \in TextFiles : f \in Files \ Touched("claude")
  BY DEF Files, TextFiles, Touched
<1>2. Shaped(r)
  BY <1>1 DEF Shaped
<1>3. \A f \in TextFiles : Cared(w[f], r[f])
  BY <1>1 DEF Cared
<1>4. QED BY <1>2, <1>3 DEF Careful

\* The generic client's MCP file is written.
WithMcp(w, mcp) == [w EXCEPT !["mcp"] = mcp]

LEMMA McpWritten ==
    ASSUME NEW w, Shaped(w), NEW mcp, NEW r, r = WithMcp(w, mcp)
    PROVE  Shaped(r) /\ r["mcp"] = mcp /\ \A f \in Files \ {"mcp"} : r[f] = w[f]
<1>1. "mcp" \in Files /\ "mcp" # "claude" /\ "mcp" \notin TextFiles
      /\ TextFiles \subseteq Files /\ "claude" \in Files
  BY DEF Files, TextFiles
<1>2. r["mcp"] = mcp /\ r = [f \in Files |-> r[f]] /\ \A f \in Files \ {"mcp"} : r[f] = w[f]
  BY <1>1 DEF Shaped, WithMcp
<1>3. QED BY <1>1, <1>2 DEF Shaped

LEMMA WiredFacts ==
    ASSUME NEW w, Shaped(w), NEW client \in Clients, NEW registers, NEW r,
           r = Wired(w, client, registers), r # Failed
    PROVE  Careful(w, r, client) /\ CompleteIn(r, client)
<1>1. CASE client = "claude"
  <2>1. PICK b : b = SettingsWith(w["claude"])
    OBVIOUS
  <2>2. PICK g : b # Failed /\ r = [w EXCEPT !["claude"] = b, !["fallback"] = "ours", !["registered"] = g]
    BY <1>1, <2>1 DEF Wired, WiredClaude
  <2>3. /\ b \in Settings /\ b.hooks \in Entries /\ "ours" \in ToSet(b.hooks)
        /\ \A key \in {"hooks", "allow"} : /\ OwnOf(b, key) = OwnOf(w["claude"], key)
                                          /\ Only(b[key], Marked) = <<"ours">>
    BY <2>1, <2>2, SettingsWithFacts DEF Shaped
  <2>4. /\ r = [f \in Files |-> r[f]] /\ r["claude"] = b /\ r["fallback"] = "ours"
        /\ \A f \in Files \ Touched("claude") : r[f] = w[f]
    <3>1. {"claude", "fallback", "registered"} \subseteq Files
      BY DEF Files
    <3>2. w = [f \in Files |-> w[f]]
      BY DEF Shaped
    <3>3. QED BY <2>2, <3>1, <3>2 DEF Touched
  <2>5. Careful(w, r, "claude")
    BY <2>3, <2>4, ClaudeWritten
  <2>6. b \notin {Missing, Wrong} /\ b.hooks \notin {Missing, Wrong}
    BY <2>3, WiringAssumption
  <2>7. Installed(r, "claude")
    BY <2>3, <2>4, <2>6 DEF Installed
  <2>8. QED BY <1>1, <2>3, <2>4, <2>5, <2>7 DEF CompleteIn
<1>2. CASE client = "codex"
  <2>1. PICK one : one = WithBlock(w, "config")
    OBVIOUS
  <2>2. /\ Shaped(one) /\ \A f \in Files \ {"config"} : one[f] = w[f]
        /\ ContainsSentinel(one["config"]) /\ Cared(w["config"], one["config"])
    BY <2>1, WithBlockFacts DEF TextFiles
  <2>3. PICK active \in {"agents", "override"} :
            active = Active(w) /\ (active = "override" <=> Lines(w["override"]) # <<>>)
    BY DEF Active
  <2>4. r = WithBlock(one, active)
    BY <1>2, <2>1, <2>3 DEF Wired
  <2>5. /\ Shaped(r) /\ \A f \in Files \ {active} : r[f] = one[f]
        /\ Lines(r[active]) # <<>> /\ ContainsSentinel(r[active])
        /\ Cared(one[active], r[active])
    BY <2>2, <2>4, WithBlockFacts DEF TextFiles
  <2>6. /\ "config" \in Files /\ "override" \in Files /\ "config" # "override"
        /\ active \in Files /\ active # "config"
    BY <2>3 DEF Files, TextFiles
  <2>7. Active(r) = active
    BY <2>2, <2>3, <2>5, <2>6 DEF Active
  <2>8. r["config"] = one["config"] /\ one[active] = w[active]
    BY <2>2, <2>5, <2>6
  <2>9. Installed(r, "codex")
    BY <2>2, <2>5, <2>7, <2>8 DEF Installed
  <2>10. \A f \in Files \ {"config", "agents", "override"} : r[f] = w[f]
    BY <2>2, <2>3, <2>5
  <2>11. Cared(w["config"], r["config"]) /\ Cared(w[active], r[active])
    BY <2>2, <2>5, <2>8
  <2>12. \A f \in Files \ {"config", active} : r[f] = w[f]
    BY <2>2, <2>5
  <2>13. {"config", active} \subseteq TextFiles \cup {"mcp"} 
         /\ {"config", active} \cap TextFiles = {"config", active}
    BY <2>3 DEF TextFiles
  <2>14. (\A f \in TextFiles : Cared(w[f], r[f])) /\ r["claude"] = w["claude"]
    <3>1. WrittenOnly(w, r, {"config", active})
      BY <2>11, <2>12, <2>13 DEF WrittenOnly
    <3>2. QED BY <3>1, CaredElsewhere
  <2>15. Touched("codex") = {"config", "agents", "override"}
    BY DEF Touched
  <2>16. QED BY <1>2, <2>5, <2>9, <2>10, <2>14, <2>15 DEF Careful, CompleteIn
<1>3. CASE client = "generic"
  <2>1. PICK one : one = WithMcp(w, "ours")
    OBVIOUS
  <2>2. Shaped(one) /\ one["mcp"] = "ours" /\ \A f \in Files \ {"mcp"} : one[f] = w[f]
    BY <2>1, McpWritten
  <2>3. r = WithBlock(one, "instructions")
    BY <1>3, <2>1 DEF Wired, WithMcp
  <2>4. /\ Shaped(r) /\ \A f \in Files \ {"instructions"} : r[f] = one[f]
        /\ ContainsSentinel(r["instructions"])
        /\ Cared(one["instructions"], r["instructions"])
    BY <2>2, <2>3, WithBlockFacts DEF TextFiles
  <2>5. /\ "mcp" \in Files /\ "instructions" \in Files /\ "mcp" # "instructions"
    BY DEF Files, TextFiles
  <2>6. r["mcp"] = "ours" /\ one["instructions"] = w["instructions"]
    BY <2>2, <2>4, <2>5
  <2>7. Installed(r, "generic")
    BY <2>4, <2>6 DEF Installed
  <2>8. \A f \in Files \ {"mcp", "instructions"} : r[f] = w[f]
    BY <2>2, <2>4
  <2>9. {"mcp", "instructions"} \subseteq TextFiles \cup {"mcp"}
        /\ {"mcp", "instructions"} \cap TextFiles = {"instructions"}
    BY DEF TextFiles
  <2>10. (\A f \in TextFiles : Cared(w[f], r[f])) /\ r["claude"] = w["claude"]
    <3>1. WrittenOnly(w, r, {"mcp", "instructions"})
      BY <2>4, <2>6, <2>8, <2>9 DEF WrittenOnly
    <3>2. QED BY <3>1, CaredElsewhere
  <2>11. Touched("generic") = {"mcp", "instructions"}
    BY DEF Touched
  <2>12. QED BY <1>3, <2>4, <2>7, <2>8, <2>10, <2>11 DEF Careful, CompleteIn
<1>4. QED BY <1>1, <1>2, <1>3 DEF Clients

LEMMA UnwiredFacts ==
    ASSUME NEW w, Shaped(w), NEW client \in Clients, NEW r, r = Unwired(w, client), r # Failed,
           NEW broken, broken \subseteq {"agents", "override"},
           \A f \in TextFiles \ broken : Whole(Lines(w[f]))
    PROVE  Careful(w, r, client) /\ CleanIn(r, broken, client)
<1>1. CASE client = "claude"
  <2>1. PICK b : b = SettingsWithout(w["claude"])
    OBVIOUS
  <2>2. b # Failed /\ r = [w EXCEPT !["claude"] = b]
    BY <1>1, <2>1 DEF Unwired, UnwiredClaude
  <2>3. /\ b \in Settings \cup {Missing} /\ SettingsCleanOf(b)
        /\ \A key \in {"hooks", "allow"} : OwnOf(b, key) = OwnOf(w["claude"], key)
    BY <2>1, <2>2, SettingsWithoutFacts DEF Shaped
  <2>4. /\ r = [f \in Files |-> r[f]] /\ r["claude"] = b
        /\ \A f \in Files \ Touched("claude") : r[f] = w[f]
    BY <2>2 DEF Shaped, Files, Touched
  <2>5. Careful(w, r, "claude")
    BY <2>3, <2>4, ClaudeWritten
  <2>6. ~Installed(r, "claude")
    <3>1. b # Missing => b["hooks"] = b.hooks
      BY <2>3, SettingsFacts
    <3>2. QED BY <2>3, <2>4, <3>1 DEF Installed, SettingsCleanOf
  <2>7. QED BY <1>1, <2>3, <2>4, <2>5, <2>6 DEF CleanIn, FilesOf
<1>2. CASE client = "codex"
  <2>1. PICK one : one = WithoutBlock(w, "config")
    OBVIOUS
  <2>2. PICK two : two = WithoutBlock(one, "agents")
    OBVIOUS
  <2>3. r = WithoutBlock(two, "override")
    BY <1>2, <2>1, <2>2 DEF Unwired
  <2>4. /\ Shaped(one) /\ \A f \in Files \ {"config"} : one[f] = w[f]
        /\ Cared(w["config"], one["config"])
        /\ Whole(Lines(w["config"])) => ToSet(Lines(one["config"])) \cap Managed = {}
    BY <2>1, WithoutBlockFacts DEF TextFiles
  <2>5. /\ Shaped(two) /\ \A f \in Files \ {"agents"} : two[f] = one[f]
        /\ Cared(one["agents"], two["agents"])
        /\ Whole(Lines(one["agents"])) => ToSet(Lines(two["agents"])) \cap Managed = {}
    BY <2>2, <2>4, WithoutBlockFacts DEF TextFiles
  <2>6. /\ Shaped(r) /\ \A f \in Files \ {"override"} : r[f] = two[f]
        /\ Cared(two["override"], r["override"])
        /\ Whole(Lines(two["override"])) => ToSet(Lines(r["override"])) \cap Managed = {}
    BY <2>3, <2>5, WithoutBlockFacts DEF TextFiles
  <2>7. /\ "config" \in Files /\ "override" \in Files /\ "agents" \in Files
        /\ "config" # "override" /\ "config" # "agents" /\ "agents" # "override"
    BY DEF Files, TextFiles
  <2>8. /\ r["config"] = one["config"] /\ one["agents"] = w["agents"]
        /\ r["agents"] = two["agents"] /\ two["override"] = w["override"]
    BY <2>4, <2>5, <2>6, <2>7
  <2>9. \A f \in {"config", "agents", "override"} :
            /\ Cared(w[f], r[f])
            /\ Whole(Lines(w[f])) => ToSet(Lines(r[f])) \cap Managed = {}
    BY <2>4, <2>5, <2>6, <2>8
  <2>10. \A f \in Files \ {"config", "agents", "override"} : r[f] = w[f]
    BY <2>4, <2>5, <2>6
  <2>11. {"config", "agents", "override"} \subseteq TextFiles
    BY DEF TextFiles
  <2>12. (\A f \in TextFiles : Cared(w[f], r[f])) /\ r["claude"] = w["claude"]
    <3>1. WrittenOnly(w, r, {"config", "agents", "override"})
      BY <2>9, <2>10, <2>11 DEF WrittenOnly
    <3>2. QED BY <3>1, CaredElsewhere
  <2>13. Careful(w, r, "codex")
    BY <2>6, <2>10, <2>12 DEF Careful, Touched
  <2>14. \A f \in FilesOf("codex") \ broken : ToSet(Lines(r[f])) \cap Managed = {}
    BY <2>9, <2>11 DEF FilesOf
  <2>15. ~Installed(r, "codex")
    <3>1. ToSet(Lines(r["config"])) \cap Managed = {}
      BY <2>14 DEF FilesOf
    <3>2. ~ContainsSentinel(r["config"])
      <4>1. Lines(r["config"]) \in Text
        BY <2>6, <2>11, LinesOf DEF Shaped
      <4>2. DOMAIN Lines(r["config"]) = 1..Len(Lines(r["config"]))
        BY <4>1 DEF Text
      <4>3. QED BY <3>1, <4>2 DEF ContainsSentinel, Contains, ToSet, Managed
    <3>3. QED BY <3>2 DEF Installed
  <2>16. QED BY <1>2, <2>13, <2>14, <2>15 DEF CleanIn
<1>3. CASE client = "generic"
  <2>1. PICK mcp : mcp = IF w["mcp"] = Missing THEN Missing ELSE "empty"
    OBVIOUS
  <2>2. PICK one : one = WithMcp(w, mcp)
    OBVIOUS
  <2>3. Shaped(one) /\ one["mcp"] = mcp /\ \A f \in Files \ {"mcp"} : one[f] = w[f]
    BY <2>2, McpWritten
  <2>4. r = WithoutBlock(one, "instructions")
    BY <1>3, <2>1, <2>2 DEF Unwired, UnwiredGeneric, WithMcp
  <2>5. /\ Shaped(r) /\ \A f \in Files \ {"instructions"} : r[f] = one[f]
        /\ Cared(one["instructions"], r["instructions"])
        /\ Whole(Lines(one["instructions"])) => ToSet(Lines(r["instructions"])) \cap Managed = {}
    BY <2>3, <2>4, WithoutBlockFacts DEF TextFiles
  <2>6. "mcp" \in Files /\ "instructions" \in Files /\ "mcp" # "instructions"
    BY DEF Files, TextFiles
  <2>7. r["mcp"] = mcp /\ one["instructions"] = w["instructions"]
    BY <2>3, <2>5, <2>6
  <2>8. ~Installed(r, "generic")
    BY <2>1, <2>7, WiringAssumption DEF Installed
  <2>9. \A f \in Files \ {"mcp", "instructions"} : r[f] = w[f]
    BY <2>3, <2>5
  <2>10. {"mcp", "instructions"} \subseteq TextFiles \cup {"mcp"}
         /\ {"mcp", "instructions"} \cap TextFiles = {"instructions"}
    BY DEF TextFiles
  <2>11. (\A f \in TextFiles : Cared(w[f], r[f])) /\ r["claude"] = w["claude"]
    <3>1. WrittenOnly(w, r, {"mcp", "instructions"})
      BY <2>5, <2>7, <2>9, <2>10 DEF WrittenOnly
    <3>2. QED BY <3>1, CaredElsewhere
  <2>12. Careful(w, r, "generic")
    BY <2>5, <2>9, <2>11 DEF Careful, Touched
  <2>13. \A f \in FilesOf("generic") \ broken : ToSet(Lines(r[f])) \cap Managed = {}
    BY <2>5, <2>7, <2>10 DEF FilesOf
  <2>14. r["mcp"] # "ours"
    BY <2>1, <2>7, WiringAssumption
  <2>15. QED BY <1>3, <2>8, <2>12, <2>13, <2>14 DEF CleanIn
<1>4. QED BY <1>1, <1>2, <1>3 DEF Clients

-----------------------------------------------------------------------------
(* The files through the whole program *)

OwnShape ==
    /\ own = [f \in TextFiles \cup {"hooks", "allow"} |-> own[f]]
    /\ \A f \in TextFiles : own[f] \in Seq(UserLines)

TextsKept ==
    \A f \in TextFiles \ damaged :
        Whole(Lines(wiring[f])) /\ UserPart(wiring[f]) = own[f]

SettingsKept == \A key \in {"hooks", "allow"} : OwnOf(wiring["claude"], key) = own[key]

\* Only the files of Codex's instructions are the user's to damage.
FilesInv ==
    /\ Shaped(wiring) /\ OwnShape /\ TextsKept /\ SettingsKept
    /\ damaged \subseteq {"agents", "override"}

\* A text without one of its lines is a text.
LEMMA RemoveFirstType ==
    ASSUME NEW text \in Text, NEW l PROVE RemoveFirst(text, l) \in Text
<1> DEFINE n == Len(text)
           places == {i \in 1..n : text[i] = l}
<1>1. n \in Nat
  BY DEF Text
<1>2. CASE places = {}
  BY <1>2 DEF RemoveFirst
<1>3. CASE places # {}
  <2>1. Min(places) \in places
    <3>1. places \subseteq Nat
      BY <1>1
    <3> HIDE DEF places
    <3>2. QED BY <1>3, <3>1, MinIsThere
  <2>2. PICK i \in 1..n : i = Min(places)
    BY <2>1
  <2>3. RemoveFirst(text, l) = SubSeq(text, 1, i - 1) \o SubSeq(text, i + 1, n)
    BY <1>3, <2>2 DEF RemoveFirst, RemoveAt, SelectInSeq
  <2>4. SubSeq(text, 1, i - 1) \in Text
    BY <1>1 DEF Text
  <2>5. SubSeq(text, i + 1, n) \in Text
    BY <1>1 DEF Text
  <2>6. QED BY <2>3, <2>4, <2>5 DEF Text
<1>4. QED BY <1>2, <1>3

\* The user changes one text.
LEMMA TextEdited ==
    ASSUME FilesInv, NEW f \in TextFiles, NEW t \in Text \cup {Missing}, NEW o \in Seq(UserLines),
           wiring' = [wiring EXCEPT ![f] = t], own' = [own EXCEPT ![f] = o],
           f \in damaged' \/ (Whole(Lines(t)) /\ UserPart(t) = o),
           \A g \in TextFiles \ {f} : g \in damaged => g \in damaged',
           damaged' \subseteq {"agents", "override"}
    PROVE  FilesInv'
<1>1. /\ f \in Files /\ TextFiles \subseteq Files /\ "claude" \in Files /\ f # "claude"
      /\ f \notin {"hooks", "allow"}
  BY DEF Files, TextFiles
<1>2. /\ wiring'[f] = t /\ wiring' = [g \in Files |-> wiring'[g]]
      /\ \A g \in Files \ {f} : wiring'[g] = wiring[g]
  BY <1>1 DEF FilesInv, Shaped
<1>3. Shaped(wiring')
  BY <1>1, <1>2 DEF FilesInv, Shaped
<1>4. /\ own'[f] = o /\ own' = [g \in TextFiles \cup {"hooks", "allow"} |-> own'[g]]
      /\ \A g \in (TextFiles \cup {"hooks", "allow"}) \ {f} : own'[g] = own[g]
  BY <1>1 DEF FilesInv, OwnShape
<1>5. OwnShape'
  BY <1>4 DEF FilesInv, OwnShape
<1>6. TextsKept'
  <2>1. ASSUME NEW g \in TextFiles \ damaged'
        PROVE  Whole(Lines(wiring'[g])) /\ UserPart(wiring'[g]) = own'[g]
    <3>1. CASE g = f
      BY <1>2, <1>4, <3>1
    <3>2. CASE g # f
      BY <1>1, <1>2, <1>4, <3>2 DEF FilesInv, TextsKept
    <3>3. QED BY <3>1, <3>2
  <2>2. QED BY <2>1 DEF TextsKept
<1>7. SettingsKept'
  BY <1>1, <1>2, <1>4 DEF FilesInv, SettingsKept
<1>8. QED BY <1>3, <1>5, <1>6, <1>7 DEF FilesInv

\* The user changes Claude's settings.
LEMMA SettingsEdited ==
    ASSUME FilesInv, NEW b \in Settings \cup {Missing, Wrong}, NEW hooks, NEW allow,
           wiring' = [wiring EXCEPT !["claude"] = b],
           own' = [own EXCEPT !["hooks"] = hooks, !["allow"] = allow],
           OwnOf(b, "hooks") = hooks, OwnOf(b, "allow") = allow, UNCHANGED damaged
    PROVE  FilesInv'
<1>1. /\ TextFiles \subseteq Files /\ "claude" \in Files /\ "claude" \notin TextFiles
      /\ "hooks" \notin TextFiles /\ "allow" \notin TextFiles
  BY DEF Files, TextFiles
<1>2. /\ wiring'["claude"] = b /\ wiring' = [g \in Files |-> wiring'[g]]
      /\ \A g \in Files \ {"claude"} : wiring'[g] = wiring[g]
  BY <1>1 DEF FilesInv, Shaped
<1>3. Shaped(wiring')
  BY <1>1, <1>2 DEF FilesInv, Shaped
<1>4. /\ own'["hooks"] = hooks /\ own'["allow"] = allow
      /\ own' = [g \in TextFiles \cup {"hooks", "allow"} |-> own'[g]]
      /\ \A g \in TextFiles : own'[g] = own[g]
  BY <1>1 DEF FilesInv, OwnShape
<1>5. OwnShape'
  BY <1>4 DEF FilesInv, OwnShape
<1>6. TextsKept'
  BY <1>1, <1>2, <1>4 DEF FilesInv, TextsKept
<1>7. SettingsKept'
  BY <1>2, <1>4 DEF SettingsKept
<1>8. QED BY <1>3, <1>5, <1>6, <1>7 DEF FilesInv

\* An adapter has written.
LEMMA FilesWired ==
    ASSUME FilesInv, NEW client \in Clients, Careful(wiring, wiring', client), UNCHANGED <<own, damaged>>
    PROVE  FilesInv'
<1>1. TextsKept'
  BY DEF FilesInv, TextsKept, Careful, Cared
<1>2. SettingsKept'
  BY DEF FilesInv, SettingsKept, Careful
<1>3. QED BY <1>1, <1>2 DEF FilesInv, OwnShape, Careful

LEMMA FilesUntouched ==
    ASSUME FilesInv, UNCHANGED <<wiring, own, damaged>> PROVE FilesInv'
BY DEF FilesInv, OwnShape, TextsKept, SettingsKept

\* The user's lines of a text with another before or behind it.
LEMMA TextsJoined ==
    ASSUME NEW s \in Text, NEW t \in Text
    PROVE  /\ s \o t \in Text
           /\ Whole(s) /\ Whole(t) => Whole(s \o t)
           /\ UserPart(s \o t) = UserPart(s) \o UserPart(t)
<1>1. s \o t \in Text
  BY DEF Text
<1>2. Whole(s) /\ Whole(t) => Whole(s \o t)
  BY WholeConcat
<1>3. Only(s \o t, UserLines) = Only(s, UserLines) \o Only(t, UserLines)
  BY OnlyConcat DEF Text
<1>4. \A text \in Text : UserPart(text) = Only(text, UserLines)
  BY LinesOf DEF UserPart
<1>5. QED BY <1>1, <1>2, <1>3, <1>4

LEMMA EditKeepsTexts ==
    ASSUME FilesInv, WriteLine \/ CopyText \/ DeleteFile \/ LoseSentinel
    PROVE  FilesInv'
<1>files. {"agents", "override"} \subseteq TextFiles
  BY DEF TextFiles
<1>texts. \A f \in TextFiles : /\ wiring[f] \in Text \cup {Missing}
                               /\ Lines(wiring[f]) \in Text /\ own[f] \in Seq(UserLines)
                               /\ UserPart(Lines(wiring[f])) = UserPart(wiring[f])
  <2>1. \A f \in TextFiles : wiring[f] \in Text \cup {Missing} /\ own[f] \in Seq(UserLines)
    BY DEF FilesInv, Shaped, OwnShape
  <2>2. \A f \in TextFiles : Lines(wiring[f]) \in Text
    BY <2>1, LinesOf
  <2>3. QED BY <2>1, <2>2, LinesOf DEF UserPart
<1>1. CASE WriteLine
  <2>1. PICK f \in {"agents", "override"}, l \in UserLines, first \in BOOLEAN :
            /\ wiring' = [wiring EXCEPT ![f] = IF first THEN <<l>> \o Lines(@) ELSE Append(Lines(@), l)]
            /\ own' = [own EXCEPT ![f] = IF first THEN <<l>> \o @ ELSE Append(@, l)]
    BY <1>1 DEF WriteLine
  <2>2. UNCHANGED damaged
    BY <1>1 DEF WriteLine
  <2>3. PICK old \in Text, mine \in Seq(UserLines) :
            old = Lines(wiring[f]) /\ mine = own[f]
    BY <1>files, <1>texts
  <2>4. PICK line \in Text :
            line = <<l>> /\ Whole(line) /\ UserPart(line) = <<l>> /\ line \in Seq(UserLines)
    BY LineFacts, LinesOf DEF UserPart
  <2>5. /\ Append(old, l) = old \o line /\ Append(mine, l) = mine \o line
        /\ line \o mine \in Seq(UserLines) /\ mine \o line \in Seq(UserLines)
    BY <2>4 DEF Text
  <2>6. PICK new \in Text, next \in Seq(UserLines) :
            /\ new = IF first THEN line \o old ELSE old \o line
            /\ next = IF first THEN line \o mine ELSE mine \o line
    BY <2>5, TextsJoined
  <2>7. wiring' = [wiring EXCEPT ![f] = new] /\ own' = [own EXCEPT ![f] = next]
    BY <2>1, <2>3, <2>4, <2>5, <2>6
  <2>8. f \notin damaged => Whole(old) /\ UserPart(old) = mine
    BY <1>files, <1>texts, <2>3 DEF FilesInv, TextsKept
  <2>9. f \notin damaged => Whole(Lines(new)) /\ UserPart(new) = next
    <3>1. Lines(new) = new
      BY LinesOf
    <3>2. Whole(line) /\ UserPart(line) = line
      BY <2>4
    <3>3. Whole(old) => Whole(line \o old) /\ Whole(old \o line)
      BY <3>2, TextsJoined
    <3>4. UserPart(line \o old) = UserPart(line) \o UserPart(old)
      BY TextsJoined
    <3>5. UserPart(old \o line) = UserPart(old) \o UserPart(line)
      BY TextsJoined
    <3>6. CASE first
      BY <2>6, <2>8, <3>1, <3>2, <3>3, <3>4, <3>6
    <3>7. CASE ~first
      BY <2>6, <2>8, <3>1, <3>2, <3>3, <3>5, <3>7
    <3>8. QED BY <3>6, <3>7
  <2>10. f \in TextFiles
    BY <1>files
  <2>11. damaged' \subseteq {"agents", "override"}
    BY <2>2 DEF FilesInv
  <2>12. QED BY <2>2, <2>7, <2>9, <2>10, <2>11, TextEdited
<1>2. CASE CopyText
  <2>1. /\ wiring["agents"] # Missing
        /\ wiring' = [wiring EXCEPT !["override"] = Lines(@) \o wiring["agents"]]
        /\ own' = [own EXCEPT !["override"] = @ \o own["agents"]]
        /\ damaged' = IF "agents" \in damaged THEN damaged \cup {"override"} ELSE damaged
    BY <1>2 DEF CopyText
  <2>2. PICK a \in Text, b \in Text, mine \in Seq(UserLines), more \in Seq(UserLines) :
            /\ a = Lines(wiring["override"]) /\ b = wiring["agents"]
            /\ mine = own["override"] /\ more = own["agents"]
    BY <1>files, <1>texts, <2>1
  <2>3. PICK new \in Text, next \in Seq(UserLines) : new = a \o b /\ next = mine \o more
    <3>1. a \o b \in Text
      BY TextsJoined
    <3>2. mine \o more \in Seq(UserLines)
      OBVIOUS
    <3>3. QED BY <3>1, <3>2
  <2>4. wiring' = [wiring EXCEPT !["override"] = new] /\ own' = [own EXCEPT !["override"] = next]
    BY <2>1, <2>2, <2>3
  <2>5. /\ Lines(wiring["agents"]) = b /\ UserPart(wiring["agents"]) = UserPart(b)
        /\ UserPart(wiring["override"]) = UserPart(a) /\ Lines(new) = new
    BY <1>files, <1>texts, <2>2, LinesOf
  <2>6. "override" \notin damaged' => "override" \notin damaged /\ "agents" \notin damaged
    BY <2>1
  <2>7. "override" \notin damaged' =>
            Whole(a) /\ UserPart(a) = mine /\ Whole(b) /\ UserPart(b) = more
    BY <1>files, <2>2, <2>5, <2>6 DEF FilesInv, TextsKept
  <2>8. "override" \notin damaged' => Whole(Lines(new)) /\ UserPart(new) = next
    <3>1. UserPart(a \o b) = UserPart(a) \o UserPart(b)
      BY TextsJoined
    <3>2. Whole(a) /\ Whole(b) => Whole(a \o b)
      BY TextsJoined
    <3>3. QED BY <2>3, <2>5, <2>7, <3>1, <3>2
  <2>9. "override" \in TextFiles /\ \A g \in TextFiles \ {"override"} : g \in damaged => g \in damaged'
    BY <1>files, <2>1
  <2>10. damaged' \subseteq {"agents", "override"}
    BY <2>1 DEF FilesInv
  <2>11. QED BY <2>4, <2>8, <2>9, <2>10, TextEdited
<1>3. CASE DeleteFile
  <2>1. PICK f \in {"agents", "override"} :
            /\ wiring' = [wiring EXCEPT ![f] = Missing]
            /\ own' = [own EXCEPT ![f] = <<>>]
            /\ damaged' = damaged \ {f}
    BY <1>3 DEF DeleteFile
  <2>2. Whole(Lines(Missing)) /\ UserPart(Missing) = <<>>
    BY LinesOf, BlockFacts DEF UserPart
  <2>3. PICK none \in Seq(UserLines) : none = <<>>
    BY BlockFacts
  <2>4. PICK gone \in Text \cup {Missing} : gone = Missing
    OBVIOUS
  <2>5. f \in TextFiles /\ \A g \in TextFiles \ {f} : g \in damaged => g \in damaged'
    BY <1>files, <2>1
  <2>6. damaged' \subseteq {"agents", "override"}
    BY <2>1 DEF FilesInv
  <2>7. QED BY <2>1, <2>2, <2>3, <2>4, <2>5, <2>6, TextEdited
<1>4. CASE LoseSentinel
  <2>1. PICK f \in {"agents", "override"}, l \in {"start", "end"} :
            /\ Contains(Lines(wiring[f]), l)
            /\ wiring' = [wiring EXCEPT ![f] = RemoveFirst(@, l)]
            /\ damaged' = damaged \cup {f} /\ UNCHANGED own
    BY <1>4 DEF LoseSentinel
  <2>2. wiring[f] # Missing
    BY <2>1, LinesOf DEF Contains
  <2>3. PICK old \in Text : old = wiring[f]
    BY <1>files, <1>texts, <2>2
  <2>4. PICK new \in Text : new = RemoveFirst(old, l)
    BY RemoveFirstType
  <2>5. f \in TextFiles /\ own[f] \in Seq(UserLines) /\ f \in damaged'
        /\ \A g \in TextFiles \ {f} : g \in damaged => g \in damaged'
    BY <1>files, <1>texts, <2>1
  <2>6. own' = [own EXCEPT ![f] = own[f]]
    BY <2>1 DEF FilesInv, OwnShape
  <2>7. wiring' = [wiring EXCEPT ![f] = new]
    BY <2>1, <2>3, <2>4
  <2>8. damaged' \subseteq {"agents", "override"}
    BY <2>1 DEF FilesInv
  <2>9. QED BY <2>5, <2>6, <2>7, <2>8, TextEdited
<1>5. QED BY <1>1, <1>2, <1>3, <1>4

LEMMA EditKeepsSettings ==
    ASSUME FilesInv, EditSettings
    PROVE  FilesInv'
<1> DEFINE now == IF wiring["claude"] = Missing THEN [hooks |-> Missing, allow |-> Missing]
                  ELSE wiring["claude"]
<1>1. /\ wiring["claude"] # Wrong /\ UNCHANGED damaged
      /\ wiring["claude"] \in Settings \cup {Missing, Wrong}
  BY DEF EditSettings, FilesInv, Shaped
<1>2. PICK h \in Entries \cup {Missing, Wrong}, a \in Entries \cup {Missing, Wrong} :
        /\ now = [hooks |-> h, allow |-> a]
        /\ Others(h) = own["hooks"] /\ Others(a) = own["allow"]
  <2>1. OwnOf(wiring["claude"], "hooks") = own["hooks"] /\ OwnOf(wiring["claude"], "allow") = own["allow"]
    BY DEF FilesInv, SettingsKept
  <2>2. CASE wiring["claude"] = Missing
    BY <2>1, <2>2, OthersOfNone DEF OwnOf
  <2>3. CASE wiring["claude"] # Missing
    <3>1. PICK s \in Settings : s = wiring["claude"] /\ now = s
      BY <1>1, <2>3
    <3>2. /\ s = [hooks |-> s.hooks, allow |-> s.allow]
          /\ s.hooks \in Entries \cup {Missing, Wrong} /\ s.allow \in Entries \cup {Missing, Wrong}
      BY DEF Settings
    <3>3. Others(s.hooks) = own["hooks"] /\ Others(s.allow) = own["allow"]
      BY <2>1, <3>1, SettingsFacts DEF OwnOf
    <3>4. QED BY <3>1, <3>2, <3>3
  <2>4. QED BY <2>2, <2>3
<1> HIDE DEF now
<1>own. own = [own EXCEPT !["hooks"] = own["hooks"], !["allow"] = own["allow"]]
  BY DEF FilesInv, OwnShape
<1>one. \A hooks : [own EXCEPT !["hooks"] = hooks]
                   = [own EXCEPT !["hooks"] = hooks, !["allow"] = own["allow"]]
  BY DEF FilesInv, OwnShape, TextFiles
<1>two. \A allow : [own EXCEPT !["allow"] = allow]
                   = [own EXCEPT !["hooks"] = own["hooks"], !["allow"] = allow]
  BY DEF FilesInv, OwnShape, TextFiles
<1>made. ASSUME NEW hooks \in Entries \cup {Missing, Wrong}, NEW allow \in Entries \cup {Missing, Wrong},
                NEW ownHooks, NEW ownAllow, Others(hooks) = ownHooks, Others(allow) = ownAllow,
                wiring' = [wiring EXCEPT !["claude"] = [hooks |-> hooks, allow |-> allow]],
                own' = [own EXCEPT !["hooks"] = ownHooks, !["allow"] = ownAllow]
         PROVE  FilesInv'
  <2>1. PICK b \in Settings : b = [hooks |-> hooks, allow |-> allow]
    BY DEF Settings
  <2>2. OwnOf(b, "hooks") = ownHooks /\ OwnOf(b, "allow") = ownAllow
    <3>1. b.hooks = hooks /\ b.allow = allow
      BY <2>1
    <3>2. QED BY <1>made, <3>1, SettingsFacts DEF OwnOf
  <2>3. QED BY <1>1, <1>made, <2>1, <2>2, SettingsEdited
<1>3. CASE \E key \in {"hooks", "allow"}, e \in {"own", "granted"} :
                /\ now[key] # Wrong /\ (e = "granted" => key = "allow")
                /\ wiring' = [wiring EXCEPT !["claude"] = [now EXCEPT ![key] = Append(Lines(@), e)]]
                /\ own' = [own EXCEPT ![key] = IF e = "own" THEN Append(@, e) ELSE @]
  <2>1. PICK key \in {"hooks", "allow"}, e \in {"own", "granted"} :
                /\ now[key] # Wrong
                /\ wiring' = [wiring EXCEPT !["claude"] = [now EXCEPT ![key] = Append(Lines(@), e)]]
                /\ own' = [own EXCEPT ![key] = IF e = "own" THEN Append(@, e) ELSE @]
    BY <1>3
  <2>2. ASSUME NEW x \in Entries \cup {Missing}
        PROVE  /\ Append(Lines(x), e) \in Entries
               /\ Others(Append(Lines(x), e)) = IF e = "own" THEN Append(Others(x), e) ELSE Others(x)
    <3>1. PICK list \in Entries : list = Lines(x) /\ Others(x) = Only(list, {"own"})
      <4>1. Lines(x) \in Entries
        BY DEF Lines, Entries
      <4>2. Others(x) = Only(Lines(x), {"own"})
        BY WiringAssumption DEF Others, Lines
      <4>3. QED BY <4>1, <4>2
    <3>2. Append(list, e) \in Entries
      BY DEF Entries
    <3>3. Others(Append(list, e)) = Only(Append(list, e), {"own"})
      BY <3>2, WiringAssumption DEF Others
    <3>4. Only(Append(list, e), {"own"}) = Kept(Only(list, {"own"}), e, {"own"})
      BY OnlyAppend DEF Entries
    <3>5. QED BY <3>1, <3>2, <3>3, <3>4 DEF Kept
  <2>3. CASE key = "hooks"
    <3>1. PICK new \in Entries : new = Append(Lines(h), e)
                /\ Others(new) = IF e = "own" THEN Append(own["hooks"], e) ELSE own["hooks"]
      BY <1>2, <2>1, <2>2, <2>3
    <3>2. wiring' = [wiring EXCEPT !["claude"] = [hooks |-> new, allow |-> a]]
      <4>1. [now EXCEPT !["hooks"] = Append(Lines(@), e)] = [hooks |-> new, allow |-> a]
        <5>1. now["hooks"] = h
          BY <1>2
        <5>2. [now EXCEPT !["hooks"] = Append(Lines(@), e)] = [now EXCEPT !["hooks"] = new]
          BY <3>1, <5>1
        <5>3. QED BY <1>2, <5>2
      <4>2. QED BY <2>1, <2>3, <4>1
    <3>3. own' = [own EXCEPT !["hooks"] = Others(new), !["allow"] = own["allow"]]
      BY <1>one, <2>1, <2>3, <3>1 DEF FilesInv, OwnShape
    <3>4. QED BY <1>2, <1>made, <3>1, <3>2, <3>3
  <2>4. CASE key = "allow"
    <3>1. PICK new \in Entries : new = Append(Lines(a), e)
                /\ Others(new) = IF e = "own" THEN Append(own["allow"], e) ELSE own["allow"]
      BY <1>2, <2>1, <2>2, <2>4
    <3>2. wiring' = [wiring EXCEPT !["claude"] = [hooks |-> h, allow |-> new]]
      <4>1. [now EXCEPT !["allow"] = Append(Lines(@), e)] = [hooks |-> h, allow |-> new]
        <5>1. now["allow"] = a
          BY <1>2
        <5>2. [now EXCEPT !["allow"] = Append(Lines(@), e)] = [now EXCEPT !["allow"] = new]
          BY <3>1, <5>1
        <5>3. QED BY <1>2, <5>2
      <4>2. QED BY <2>1, <2>4, <4>1
    <3>3. own' = [own EXCEPT !["hooks"] = own["hooks"], !["allow"] = Others(new)]
      BY <1>two, <2>1, <2>4, <3>1 DEF FilesInv, OwnShape
    <3>4. QED BY <1>2, <1>made, <3>1, <3>2, <3>3
  <2>5. QED BY <2>3, <2>4
<1>4. CASE /\ wiring' = [wiring EXCEPT !["claude"] = [now EXCEPT !.allow = Wrong]]
           /\ own' = [own EXCEPT !["allow"] = <<>>]
  <2>1. [now EXCEPT !.allow = Wrong] = [hooks |-> h, allow |-> Wrong]
    BY <1>2
  <2>2. own' = [own EXCEPT !["hooks"] = own["hooks"], !["allow"] = <<>>]
    BY <1>4, <1>two
  <2>3. wiring' = [wiring EXCEPT !["claude"] = [hooks |-> h, allow |-> Wrong]]
    BY <1>4, <2>1
  <2>4. PICK wrong \in Entries \cup {Missing, Wrong} : wrong = Wrong /\ Others(wrong) = <<>>
    BY OthersOfNone
  <2>5. QED BY <1>2, <1>made, <2>2, <2>3, <2>4
<1>5. CASE /\ wiring' = [wiring EXCEPT !["claude"] = [now EXCEPT !.hooks = Wrong]]
           /\ own' = [own EXCEPT !["hooks"] = <<>>]
  <2>1. [now EXCEPT !.hooks = Wrong] = [hooks |-> Wrong, allow |-> a]
    BY <1>2
  <2>2. own' = [own EXCEPT !["hooks"] = <<>>, !["allow"] = own["allow"]]
    BY <1>5, <1>one
  <2>3. wiring' = [wiring EXCEPT !["claude"] = [hooks |-> Wrong, allow |-> a]]
    BY <1>5, <2>1
  <2>4. PICK wrong \in Entries \cup {Missing, Wrong} : wrong = Wrong /\ Others(wrong) = <<>>
    BY OthersOfNone
  <2>5. QED BY <1>2, <1>made, <2>2, <2>3, <2>4
<1>6. CASE /\ wiring' = [wiring EXCEPT !["claude"] = Wrong]
           /\ own' = [own EXCEPT !["hooks"] = <<>>, !["allow"] = <<>>]
  <2>1. OwnOf(Wrong, "hooks") = <<>> /\ OwnOf(Wrong, "allow") = <<>>
    BY DEF OwnOf
  <2>2. QED BY <1>1, <1>6, <2>1, SettingsEdited
<1>7. QED BY <1>3, <1>4, <1>5, <1>6 DEF EditSettings, now

\* The user's command in one of our groups takes none of the user's entries away.
LEMMA GroupKeepsSettings ==
    ASSUME FilesInv, GroupHook
    PROVE  FilesInv'
<1>1. PICK s \in Settings : s = wiring["claude"]
  <2>1. wiring["claude"] \notin {Missing, Wrong}
    BY DEF GroupHook
  <2>2. QED BY <2>1 DEF FilesInv, Shaped
<1>2. PICK h \in Entries, a \in Entries \cup {Missing, Wrong} : s = [hooks |-> h, allow |-> a]
  <2>1. s.hooks \notin {Missing, Wrong}
    BY <1>1 DEF GroupHook
  <2>2. QED BY <2>1 DEF Settings
<1>3. PICK i \in DOMAIN h :
        /\ h[i] = "ours"
        /\ wiring' = [wiring EXCEPT !["claude"].hooks = [h EXCEPT ![i] = "mixed"]]
  <2>1. wiring["claude"].hooks = h
    BY <1>1, <1>2
  <2>2. QED BY <2>1 DEF GroupHook
<1>4. PICK new \in Entries : new = [h EXCEPT ![i] = "mixed"] /\ Only(new, {"own"}) = Only(h, {"own"})
  <2>1. h[i] \notin {"own"} /\ "mixed" \notin {"own"}
    BY <1>3
  <2>2. PICK S : S = {"own", "ours", "mixed", "granted"} /\ Entries = Seq(S) /\ "mixed" \in S
    BY DEF Entries
  <2>3. PICK keep : keep = {"own"}
    OBVIOUS
  <2>4. PICK e \in S : e = "mixed"
    BY <2>2
  <2>5. /\ [h EXCEPT ![i] = e] \in Seq(S)
        /\ Only([h EXCEPT ![i] = e], keep) = Only(h, keep)
    <3>1. h \in Seq(S) /\ h[i] \notin keep /\ e \notin keep /\ i \in DOMAIN h
      BY <2>1, <2>2, <2>3, <2>4
    <3>2. QED BY <3>1, EntryReplaced
  <2>6. QED BY <2>2, <2>3, <2>4, <2>5
<1>5. Others(new) = Others(h)
  BY <1>4, WiringAssumption DEF Others
<1>6. PICK b \in Settings : b = [hooks |-> new, allow |-> a]
  BY DEF Settings
<1>7. wiring' = [wiring EXCEPT !["claude"] = b]
  <2>1. [s EXCEPT !.hooks = new] = b
    BY <1>2, <1>6
  <2>2. wiring' = [wiring EXCEPT !["claude"] = [s EXCEPT !.hooks = new]]
    BY <1>1, <1>3, <1>4
  <2>3. QED BY <2>1, <2>2
<1>8. OwnOf(b, "hooks") = own["hooks"] /\ OwnOf(b, "allow") = own["allow"]
  <2>1. OwnOf(s, "hooks") = own["hooks"] /\ OwnOf(s, "allow") = own["allow"]
    BY <1>1 DEF FilesInv, SettingsKept
  <2>2. s.hooks = h /\ s.allow = a /\ b.hooks = new /\ b.allow = a
    BY <1>2, <1>6
  <2>3. QED BY <1>5, <2>1, <2>2, SettingsFacts DEF OwnOf
<1>9. own' = [own EXCEPT !["hooks"] = own["hooks"], !["allow"] = own["allow"]] /\ UNCHANGED damaged
  BY DEF GroupHook, history, FilesInv, OwnShape
<1>10. QED BY <1>7, <1>8, <1>9, SettingsEdited

LEMMA StepKeepsFiles ==
    ASSUME FilesInv, [InstallerNext]_vars
    PROVE  FilesInv'
<1>1. CASE Install \/ HarnessOn \/ HarnessOff
  BY <1>1, FilesUntouched DEF Install, HarnessOn, HarnessOff, Run, history
<1>2. CASE Fail
  BY <1>2, FilesUntouched DEF Fail, history
<1>3. CASE WriteToken \/ CopyKeyFile \/ WriteEnv \/ WriteCompose \/ WriteScripts
  BY <1>2, <1>3, FilesUntouched
     DEF WriteToken, CopyKeyFile, WriteEnv, WriteCompose, WriteScripts, Succeed, history
<1>4. CASE WireClient
  <2>1. Step \in Clients
    BY <1>4 DEF WireClient
  <2>2. PICK client \in Clients : client = Step
    BY <2>1
  <2>3. PICK registers, result :
            /\ result = IF command.name = "off" THEN Unwired(wiring, client)
                        ELSE Wired(wiring, client, registers)
            /\ IF result = Failed THEN Fail
               ELSE wiring' = result /\ Succeed /\ UNCHANGED <<tree, minted>>
    BY <1>4, <2>2 DEF WireClient
  <2>4. CASE result = Failed
    BY <1>2, <2>3, <2>4
  <2>5. CASE result # Failed
    <3>1. wiring' = result /\ UNCHANGED <<own, damaged>>
      BY <2>3, <2>5 DEF Succeed, history
    <3>2. /\ Shaped(wiring) /\ \A f \in TextFiles \ damaged : Whole(Lines(wiring[f]))
          /\ damaged \subseteq {"agents", "override"}
      BY DEF FilesInv, TextsKept
    <3>3. Careful(wiring, result, client)
      BY <2>3, <2>5, <3>2, WiredFacts, UnwiredFacts
    <3>4. QED BY <3>1, <3>3, FilesWired
  <2>6. QED BY <2>4, <2>5
<1>5. CASE Start \/ RestartServer \/ StopStack \/ RemoveToken
  BY <1>5, FilesUntouched DEF Start, RestartServer, StopStack, RemoveToken, history
<1>6. CASE WriteLine \/ CopyText \/ DeleteFile \/ LoseSentinel
  BY <1>6, EditKeepsTexts
<1>7. CASE EditSettings
  BY <1>7, EditKeepsSettings
<1>8. CASE UNCHANGED vars
  BY <1>8, FilesUntouched DEF vars, history
<1>9. CASE Killed
  BY <1>2, <1>9 DEF Killed
<1>10. CASE GroupHook
  BY <1>10, GroupKeepsSettings
<1>11. QED
  BY <1>1, <1>3, <1>4, <1>5, <1>6, <1>7, <1>8, <1>9, <1>10 DEF InstallerNext

LEMMA InitFiles == InstallerInit => FilesInv
<1>1. SUFFICES ASSUME InstallerInit PROVE FilesInv
  OBVIOUS
<1>2. /\ wiring = [f \in Files |-> Missing]
      /\ own = [f \in TextFiles \cup {"hooks", "allow"} |-> <<>>] /\ damaged = {}
  BY <1>1 DEF InstallerInit, Files
<1>3. TextFiles \subseteq Files /\ "claude" \in Files
  BY DEF Files
<1>4. (\A f \in Files : wiring[f] = Missing) /\ Shaped(wiring)
  BY <1>2, <1>3 DEF Shaped
<1>5. \A f \in TextFiles \cup {"hooks", "allow"} : own[f] = <<>>
  BY <1>2
<1>6. OwnShape
  BY <1>2, <1>5, BlockFacts DEF OwnShape
<1>7. Whole(Lines(Missing)) /\ UserPart(Missing) = <<>>
  BY LinesOf, BlockFacts DEF UserPart
<1>8. TextsKept
  BY <1>3, <1>4, <1>5, <1>7 DEF TextsKept
<1>9. SettingsKept
  BY <1>3, <1>4, <1>5 DEF SettingsKept, OwnOf
<1>10. QED BY <1>2, <1>4, <1>6, <1>8, <1>9 DEF FilesInv

\* The user's lines and entries stay what the user wrote, in that order, in every
\* file whose sentinels the user did not break: through installs, toggles, kills
\* and edits in any order.
THEOREM UserWorkStays == InstallerSpec => []UserWorkKept
<1>1. FilesInv => UserWorkKept
  BY DEF FilesInv, TextsKept, SettingsKept, OwnOf, UserWorkKept
<1>2. QED BY <1>1, InitFiles, StepKeepsFiles, PTL DEF InstallerSpec
-----------------------------------------------------------------------------
(* Commands *)

\* What the command leaves with a client, and each of its steps in the tree.  An
\* environment just written is newer than that of any server.
Left(name, client) ==
    IF name = "off" THEN CleanIn(wiring, damaged, client) ELSE CompleteIn(wiring, client)

Parts == {"token", "key", "env", "compose", "scripts"}
PartDone(part, request) ==
    CASE part = "token" -> tree.token # 0
      [] part = "key" -> tree.key = TRUE
      [] part = "env" -> /\ tree.env.provider = request.provider
                         /\ server # Missing => server.env # tree.env
      [] part = "compose" -> tree.compose = request.provider /\ tree.compose \in Providers
      [] part = "scripts" -> tree.scripts = TRUE

\* A command is underway: what is not among its steps any more is done.
Underway(name, todo, request, clients) ==
    /\ command = [name |-> name, todo |-> todo, request |-> request, clients |-> clients]
    /\ name \in {"install", "on", "off"}
    /\ todo \in Seq(Parts \cup Clients) /\ todo # <<>> /\ clients \in Seq(Clients)
    /\ done = NotDone
    /\ \A client \in ToSet(clients) : client \in ToSet(todo) \/ Left(name, client)
    /\ name = "install" => \A part \in Parts : part \in ToSet(todo) \/ PartDone(part, request)

\* A command that went through has done all of its steps.
Fulfilled(name, clients) ==
    /\ done = [name |-> name, clients |-> clients] /\ name \in {"install", "on", "off"}
    /\ clients \in Seq(Clients)
    /\ \A client \in ToSet(clients) : Left(name, client)
    /\ name = "install" => \E request : \A part \in Parts : PartDone(part, request)

CommandInv ==
    \/ \E name, todo, request, clients : Underway(name, todo, request, clients)
    \/ command = Idle /\ done = NotDone
    \/ command = Idle /\ \E name, clients : Fulfilled(name, clients)

\* A step done, and what was done before not undone, brings a command on.
LEMMA StepSucceeds ==
    ASSUME NEW name, NEW todo, NEW request, NEW clients, Underway(name, todo, request, clients),
           Succeed,
           \A client \in Clients : \/ client # Step /\ (Left(name, client) => Left(name, client)')
                                   \/ client = Step /\ Left(name, client)',
           name = "install" =>
             \A part \in Parts : \/ part # Step /\ (PartDone(part, request) => PartDone(part, request)')
                                 \/ part = Step /\ PartDone(part, request)'
    PROVE  CommandInv'
<1>1. /\ command.todo = todo /\ command.name = name /\ command.clients = clients
      /\ Step = Head(todo)
  BY DEF Underway, Step
<1>2. /\ todo \in Seq(Parts \cup Clients) /\ todo # <<>>
      /\ clients \in Seq(Clients) /\ ToSet(clients) \subseteq Clients
      /\ name \in {"install", "on", "off"}
  BY DEF Underway, ToSet
<1>3. /\ Tail(todo) \in Seq(Parts \cup Clients)
      /\ Len(todo) = 1 => ToSet(Tail(todo)) = {}
      /\ Len(todo) # 1 => Tail(todo) # <<>>
      /\ \A x \in ToSet(todo) : x = Head(todo) \/ x \in ToSet(Tail(todo))
  BY <1>2, HeadAndTail
<1>4. \A client \in ToSet(clients) : client \in ToSet(Tail(todo)) \/ Left(name, client)'
  BY <1>1, <1>2, <1>3 DEF Underway
<1>5. name = "install" =>
        \A part \in Parts : part \in ToSet(Tail(todo)) \/ PartDone(part, request)'
  BY <1>1, <1>3 DEF Underway
<1>6. CASE Len(todo) = 1
  <2>1. command' = Idle /\ done' = [name |-> name, clients |-> clients]
    BY <1>1, <1>6 DEF Succeed
  <2>2. Fulfilled(name, clients)'
    BY <1>2, <1>3, <1>4, <1>5, <1>6, <2>1 DEF Fulfilled
  <2>3. QED BY <2>1, <2>2 DEF CommandInv
<1>7. CASE Len(todo) # 1
  <2>1. command' = [command EXCEPT !.todo = Tail(todo)] /\ done' = NotDone
    BY <1>1, <1>7 DEF Succeed
  <2>2. command' = [name |-> name, todo |-> Tail(todo), request |-> request, clients |-> clients]
    BY <2>1 DEF Underway
  <2>3. Underway(name, Tail(todo), request, clients)'
    BY <1>2, <1>3, <1>4, <1>5, <1>7, <2>1, <2>2 DEF Underway
  <2>4. QED BY <2>3 DEF CommandInv
<1>8. QED BY <1>6, <1>7

\* A step of the tree: clients and other parts stay as they are.
LEMMA PartSucceeds ==
    ASSUME NEW name, NEW todo, NEW request, NEW clients, Underway(name, todo, request, clients),
           Succeed, UNCHANGED wiring, Step \notin Clients,
           \A part \in Parts : \/ part # Step /\ (PartDone(part, request) => PartDone(part, request)')
                               \/ part = Step /\ (name = "install" => PartDone(part, request)')
    PROVE  CommandInv'
<1>1. \A client \in Clients : client # Step /\ (Left(name, client) => Left(name, client)')
  BY DEF Left, Succeed, history
<1>2. QED BY <1>1, StepSucceeds

\* The fields of the tree when one is written.
LEMMA TreeWritten ==
    ASSUME TreeShape, NEW v
    PROVE  /\ \A t : t = [tree EXCEPT !.token = v] =>
                t.token = v /\ t.key = tree.key /\ t.env = tree.env /\ t.compose = tree.compose /\ t.scripts = tree.scripts
           /\ \A t : t = [tree EXCEPT !.key = v] =>
                t.token = tree.token /\ t.key = v /\ t.env = tree.env /\ t.compose = tree.compose /\ t.scripts = tree.scripts
           /\ \A t : t = [tree EXCEPT !.env = v] =>
                t.token = tree.token /\ t.key = tree.key /\ t.env = v /\ t.compose = tree.compose /\ t.scripts = tree.scripts
           /\ \A t : t = [tree EXCEPT !.compose = v] =>
                t.token = tree.token /\ t.key = tree.key /\ t.env = tree.env /\ t.compose = v /\ t.scripts = tree.scripts
           /\ \A t : t = [tree EXCEPT !.scripts = v] =>
                t.token = tree.token /\ t.key = tree.key /\ t.env = tree.env /\ t.compose = tree.compose /\ t.scripts = v
<1>1. PICK token, key, env, compose, scripts :
        tree = [token |-> token, key |-> key, env |-> env, compose |-> compose, scripts |-> scripts]
  BY DEF TreeShape
<1>2. QED BY <1>1

LEMMA CommandUntouched ==
    ASSUME CommandInv, UNCHANGED <<command, done, wiring, damaged, server>>,
           tree' = tree
    PROVE  CommandInv'
<1>1. \A name, client : Left(name, client)' <=> Left(name, client)
  BY DEF Left
<1>2. \A part, request : PartDone(part, request)' <=> PartDone(part, request)
  BY DEF PartDone
<1>3. ASSUME NEW name, NEW todo, NEW request, NEW clients, Underway(name, todo, request, clients)
      PROVE  Underway(name, todo, request, clients)'
  BY <1>1, <1>2, <1>3 DEF Underway
<1>4. ASSUME NEW name, NEW clients, Fulfilled(name, clients)
      PROVE  Fulfilled(name, clients)'
  BY <1>1, <1>2, <1>4 DEF Fulfilled
<1>5. QED BY <1>3, <1>4 DEF CommandInv

\* A new command has all of its steps to do.
LEMMA CommandBegins ==
    ASSUME Install \/ HarnessOn \/ HarnessOff
    PROVE  CommandInv'
<1>1. \A clients \in ClientLists : 
        clients \in Seq(Clients) /\ clients \in Seq(Parts \cup Clients) /\ clients # <<>>
  BY InstallerAssumption
<1>2. ASSUME NEW clients \in ClientLists, NEW steps \in Seq(Parts)
      PROVE  /\ steps \o clients \in Seq(Parts \cup Clients) /\ steps \o clients # <<>>
             /\ ToSet(clients) \subseteq ToSet(steps \o clients)
             /\ ToSet(steps) \subseteq ToSet(steps \o clients)
  <2> DEFINE m == Len(steps)
             n == Len(clients)
             all == steps \o clients
  <2>1. /\ m \in Nat /\ n \in Nat /\ all \in Seq(Parts \cup Clients) /\ Len(all) = m + n
        /\ DOMAIN all = 1..(m + n) /\ DOMAIN steps = 1..m /\ DOMAIN clients = 1..n
        /\ (\A i \in 1..m : all[i] = steps[i])
        /\ (\A i \in 1..n : all[m + i] = clients[i])
    BY <1>1
  <2>2. n # 0
    BY <1>1
  <2> HIDE DEF m, n, all
  <2>3. all # <<>>
    <3>1. Len(<<>>) = 0
      OBVIOUS
    <3>2. QED BY <2>1, <2>2, <3>1
  <2>4. ToSet(steps) \subseteq ToSet(all)
    <3>1. \A i \in 1..m : i \in 1..(m + n)
      BY <2>1
    <3>2. QED BY <2>1, <3>1 DEF ToSet
  <2>5. ToSet(clients) \subseteq ToSet(all)
    <3>1. \A i \in 1..n : m + i \in 1..(m + n)
      BY <2>1
    <3>2. QED BY <2>1, <3>1 DEF ToSet
  <2>6. QED BY <2>1, <2>3, <2>4, <2>5 DEF all
<1>3. ASSUME NEW name \in {"install", "on", "off"}, NEW todo \in Seq(Parts \cup Clients), todo # <<>>,
             NEW request, NEW clients \in Seq(Clients), ToSet(clients) \subseteq ToSet(todo),
             name = "install" => Parts \subseteq ToSet(todo),
             Run(name, todo, request, clients)
      PROVE  CommandInv'
  <2>1. Underway(name, todo, request, clients)'
    BY <1>3 DEF Underway, Run
  <2>2. QED BY <2>1 DEF CommandInv
<1>4. CASE Install
  <2>1. PICK request \in Requests, clients \in ClientLists :
            Run("install", InstallSteps \o clients, request, clients)
    BY <1>4 DEF Install
  <2>2. InstallSteps \in Seq(Parts) /\ ToSet(InstallSteps) = Parts
    BY DEF InstallSteps, Parts, ToSet
  <2>3. PICK steps \in Seq(Parts) : steps = InstallSteps
    BY <2>2
  <2>4. PICK todo \in Seq(Parts \cup Clients) :
            /\ todo = InstallSteps \o clients /\ todo # <<>>
            /\ ToSet(clients) \subseteq ToSet(todo) /\ Parts \subseteq ToSet(todo)
    BY <1>2, <2>2, <2>3
  <2>5. Run("install", todo, request, clients)
    BY <2>1, <2>4
  <2>6. QED BY <1>1, <1>3, <2>4, <2>5
<1>5. CASE HarnessOn
  <2>1. PICK clients \in ClientLists : Run("on", <<"scripts">> \o clients, Missing, clients)
    BY <1>5 DEF HarnessOn
  <2>2. PICK steps \in Seq(Parts) : steps = <<"scripts">>
    <3>1. PICK part \in Parts : part = "scripts"
      BY DEF Parts
    <3>2. <<part>> \in Seq(Parts)
      OBVIOUS
    <3>3. QED BY <3>1, <3>2
  <2>3. QED BY <1>1, <1>2, <1>3, <2>1, <2>2
<1>6. CASE HarnessOff
  <2>1. PICK clients \in ClientLists : Run("off", clients, Missing, clients)
    BY <1>6 DEF HarnessOff
  <2>2. QED BY <1>1, <1>3, <2>1
<1>7. QED BY <1>4, <1>5, <1>6

\* A command that fails, or is killed, leaves nothing to be relied on.
LEMMA CommandFails ==
    ASSUME CommandInv, command # Idle, Fail
    PROVE  CommandInv'
<1>1. done = NotDone
  BY DEF CommandInv, Underway
<1>2. QED BY <1>1 DEF CommandInv, Fail

\* Whatever the user and the daemon do, no claim is made any more.
LEMMA CommandForgotten ==
    ASSUME CommandInv, command = Idle, UNCHANGED command, done' = NotDone
    PROVE  CommandInv'
BY DEF CommandInv

LEMMA ClientsApart ==
    \A c, d \in Clients : c # d => Touched(c) \subseteq Files \ Touched(d)
BY DEF Clients, Touched, Files, TextFiles

LEMMA WireClientBringsOn ==
    ASSUME FilesInv, CommandInv, WireClient
    PROVE  CommandInv'
<1>1. command # Idle /\ Step \in Clients
  BY DEF WireClient
<1>2. PICK name, todo, request, clients : Underway(name, todo, request, clients)
  BY <1>1 DEF CommandInv
<1>3. command.name = name
  BY <1>2 DEF Underway
<1>4. PICK client \in Clients : client = Step
  BY <1>1
<1>5. PICK registers, result :
        /\ result = IF name = "off" THEN Unwired(wiring, client) ELSE Wired(wiring, client, registers)
        /\ IF result = Failed THEN Fail
           ELSE wiring' = result /\ Succeed /\ UNCHANGED <<tree, minted>>
  BY <1>3, <1>4 DEF WireClient
<1>6. CASE result = Failed
  BY <1>1, <1>5, <1>6, CommandFails
<1>7. CASE result # Failed
  <2>1. wiring' = result /\ Succeed /\ UNCHANGED <<tree, damaged, server>>
    BY <1>5, <1>7 DEF Succeed, history
  <2>2. /\ Shaped(wiring) /\ \A f \in TextFiles \ damaged : Whole(Lines(wiring[f]))
        /\ damaged \subseteq {"agents", "override"}
    BY DEF FilesInv, TextsKept
  <2>3. CASE name = "off"
    <3>1. Careful(wiring, result, client) /\ CleanIn(result, damaged, client)
      BY <1>5, <1>7, <2>2, <2>3, UnwiredFacts
    <3>2. Careful(wiring, wiring', client) /\ Left(name, client)'
      BY <2>1, <2>3, <3>1 DEF Left
    <3>3. ASSUME NEW c \in Clients, c # client, Left(name, c) PROVE Left(name, c)'
      <4>1. \A f \in Touched(c) : wiring'[f] = wiring[f]
        BY <3>2, <3>3, ClientsApart DEF Careful
      <4>2. CleanIn(wiring', damaged, c) <=> CleanIn(wiring, damaged, c)
        BY <4>1, Elsewhere
      <4>3. QED BY <2>1, <2>3, <3>3, <4>2 DEF Left
    <3>4. \A part \in Parts : part # Step /\ (PartDone(part, request) => PartDone(part, request)')
      BY <1>1, <2>1 DEF PartDone, Parts, Clients
    <3>5. QED BY <1>2, <1>4, <2>1, <3>2, <3>3, <3>4, StepSucceeds
  <2>4. CASE name # "off"
    <3>1. Careful(wiring, result, client) /\ CompleteIn(result, client)
      BY <1>5, <1>7, <2>2, <2>4, WiredFacts
    <3>2. Careful(wiring, wiring', client) /\ Left(name, client)'
      BY <2>1, <2>4, <3>1 DEF Left
    <3>3. ASSUME NEW c \in Clients, c # client, Left(name, c) PROVE Left(name, c)'
      <4>1. \A f \in Touched(c) : wiring'[f] = wiring[f]
        BY <3>2, <3>3, ClientsApart DEF Careful
      <4>2. CompleteIn(wiring', c) <=> CompleteIn(wiring, c)
        BY <4>1, Elsewhere
      <4>3. QED BY <2>1, <2>4, <3>3, <4>2 DEF Left
    <3>4. \A part \in Parts : part # Step /\ (PartDone(part, request) => PartDone(part, request)')
      BY <1>1, <2>1 DEF PartDone, Parts, Clients
    <3>5. QED BY <1>2, <1>4, <2>1, <3>2, <3>3, <3>4, StepSucceeds
  <2>5. QED BY <2>3, <2>4
<1>8. QED BY <1>6, <1>7

LEMMA PartBringsOn ==
    ASSUME TreeShape, minted.tokens \in Nat, minted.passwords \in Nat, PasswordsInOrder, CommandInv,
           WriteToken \/ CopyKeyFile \/ WriteEnv \/ WriteCompose \/ WriteScripts
    PROVE  CommandInv'
<1>1. command # Idle /\ Step \notin Clients
  BY DEF WriteToken, CopyKeyFile, WriteEnv, WriteCompose, WriteScripts, At, Clients
<1>2. PICK name, todo, request, clients : Underway(name, todo, request, clients)
  BY <1>1 DEF CommandInv
<1>3. command.request = request
  BY <1>2 DEF Underway
<1>server. UNCHANGED server
  BY DEF WriteToken, CopyKeyFile, WriteEnv, WriteCompose, WriteScripts, Fail, Succeed
<1>4. CASE Fail
  BY <1>1, <1>4, CommandFails
<1>5. ASSUME NEW part \in Parts, Step = part, Succeed, UNCHANGED wiring,
             name = "install" => PartDone(part, request)',
             \A p \in Parts \ {part} : PartDone(p, request) => PartDone(p, request)'
      PROVE  CommandInv'
  BY <1>1, <1>2, <1>5, PartSucceeds
<1>6. CASE WriteToken
  <2>1. PICK token : token = TokenOf(tree.token, minted.tokens + 1)
    OBVIOUS
  <2>2. Step = "token" /\ tree' = [tree EXCEPT !.token = token] /\ Succeed /\ UNCHANGED wiring
    BY <1>6, <2>1 DEF WriteToken, At
  <2>3. token # 0
    BY <2>1 DEF TokenOf
  <2>4. /\ tree'.token = token /\ tree'.key = tree.key /\ tree'.env = tree.env
        /\ tree'.compose = tree.compose /\ tree'.scripts = tree.scripts
    BY <2>2, TreeWritten
  <2>5. QED BY <1>server, <1>5, <2>2, <2>3, <2>4 DEF PartDone, Parts
<1>7. CASE CopyKeyFile /\ ~Fail
  <2>1. PICK yes : yes = TRUE
    OBVIOUS
  <2>2. Step = "key" /\ tree' = [tree EXCEPT !.key = yes] /\ Succeed /\ UNCHANGED wiring
    BY <1>7, <2>1, Zenon DEF CopyKeyFile, At
  <2>4. /\ tree'.token = tree.token /\ tree'.key = yes /\ tree'.env = tree.env
        /\ tree'.compose = tree.compose /\ tree'.scripts = tree.scripts
    BY <2>2, TreeWritten
  <2>5. QED BY <1>server, <1>5, <2>1, <2>2, <2>4 DEF PartDone, Parts
<1>8. CASE WriteEnv /\ ~Fail
  <2>1. PICK env : env = EnvOf(minted.passwords + 1, request)
    OBVIOUS
  <2>2. Step = "env" /\ tree' = [tree EXCEPT !.env = env] /\ Succeed /\ UNCHANGED wiring
    BY <1>3, <1>8, <2>1 DEF WriteEnv, At
  <2>3. env.provider = request.provider /\ env.password = minted.passwords + 1
    BY <2>1 DEF EnvOf
  <2>new. server # Missing => server.env # env
    BY <2>3 DEF PasswordsInOrder
  <2>4. /\ tree'.token = tree.token /\ tree'.key = tree.key /\ tree'.env = env
        /\ tree'.compose = tree.compose /\ tree'.scripts = tree.scripts
    BY <2>2, TreeWritten
  <2>5. QED BY <1>server, <1>5, <2>2, <2>3, <2>new, <2>4 DEF PartDone, Parts
<1>9. CASE WriteCompose /\ ~Fail
  <2>1. /\ Step = "compose" /\ tree' = [tree EXCEPT !.compose = request.provider]
        /\ request.provider \in Providers /\ Succeed /\ UNCHANGED wiring
    BY <1>3, <1>9 DEF WriteCompose, At
  <2>4. /\ tree'.token = tree.token /\ tree'.key = tree.key /\ tree'.env = tree.env
        /\ tree'.compose = request.provider /\ tree'.scripts = tree.scripts
    BY <2>1, TreeWritten
  <2>5. QED BY <1>server, <1>5, <2>1, <2>4 DEF PartDone, Parts
<1>10. CASE WriteScripts
  <2>1. PICK yes : yes = TRUE
    OBVIOUS
  <2>2. Step = "scripts" /\ tree' = [tree EXCEPT !.scripts = yes] /\ Succeed /\ UNCHANGED wiring
    BY <1>10, <2>1, Zenon DEF WriteScripts, At
  <2>4. /\ tree'.token = tree.token /\ tree'.key = tree.key /\ tree'.env = tree.env
        /\ tree'.compose = tree.compose /\ tree'.scripts = yes
    BY <2>2, TreeWritten
  <2>5. QED BY <1>server, <1>5, <2>1, <2>2, <2>4 DEF PartDone, Parts
<1>11. QED BY <1>4, <1>6, <1>7, <1>8, <1>9, <1>10

LEMMA StepKeepsCommand ==
    ASSUME TreeShape, minted.tokens \in Nat, minted.passwords \in Nat, PasswordsInOrder,
           FilesInv, CommandInv, [InstallerNext]_vars
    PROVE  CommandInv'
<1>1. CASE Install \/ HarnessOn \/ HarnessOff
  BY <1>1, CommandBegins
<1>2. CASE WriteToken \/ CopyKeyFile \/ WriteEnv \/ WriteCompose \/ WriteScripts
  BY <1>2, PartBringsOn
<1>3. CASE WireClient
  BY <1>3, WireClientBringsOn
<1>4. CASE Killed
  BY <1>4, CommandFails DEF Killed
<1>5. CASE Start \/ RestartServer \/ StopStack
  BY <1>5, CommandForgotten DEF Start, RestartServer, StopStack, Act
<1>6. CASE \/ WriteLine \/ CopyText \/ DeleteFile \/ LoseSentinel
           \/ EditSettings \/ GroupHook \/ RemoveToken
  BY <1>6, CommandForgotten
     DEF WriteLine, CopyText, DeleteFile, LoseSentinel, EditSettings, GroupHook, RemoveToken, Edit, Act
<1>7. CASE UNCHANGED vars
  BY <1>7, CommandUntouched DEF vars, history
<1>8. QED BY <1>1, <1>2, <1>3, <1>4, <1>5, <1>6, <1>7 DEF InstallerNext

LEMMA CommandPromises ==
    ASSUME CommandInv
    PROVE  /\ ToggleIsComplete /\ ReadyBoots
           /\ done.name = "install" => command = Idle /\ (server # Missing => server.env # tree.env)
<1> DEFINE Newer == done.name = "install" => command = Idle /\ (server # Missing => server.env # tree.env)
<1>1. CASE done = NotDone
  <2>1. done.name = "none" /\ ToSet(done.clients) = {}
    BY <1>1 DEF NotDone, ToSet
  <2>2. QED BY <2>1 DEF ToggleIsComplete, ReadyBoots
<1>2. ASSUME NEW name, NEW clients, Fulfilled(name, clients), command = Idle
      PROVE  ToggleIsComplete /\ ReadyBoots /\ Newer
  <2>1. done.name = name /\ done.clients = clients
    BY <1>2 DEF Fulfilled
  <2>3. ToggleIsComplete
    <3>1. SUFFICES ASSUME NEW client \in ToSet(clients)
                   PROVE  IF name = "off" THEN Clean(client) ELSE Complete(client)
      BY <2>1 DEF ToggleIsComplete
    <3>2. Left(name, client)
      BY <1>2, <3>1 DEF Fulfilled
    <3>3. CASE name = "off"
      <4>1. CleanIn(wiring, damaged, client)
        BY <3>2, <3>3 DEF Left
      <4>2. Clean(client)
        BY <4>1 DEF CleanIn, Clean, SettingsCleanOf, SettingsClean
      <4>3. QED BY <3>3, <4>2
    <3>4. CASE name # "off"
      <4>1. CompleteIn(wiring, client)
        BY <3>2, <3>4 DEF Left
      <4>2. Complete(client)
        BY <4>1 DEF CompleteIn, Complete, Marked
      <4>3. QED BY <3>4, <4>2
    <3>5. QED BY <3>3, <3>4
  <2>4. ASSUME name = "install" PROVE ReadyBoots /\ Newer
    <3>1. PICK request : \A part \in Parts : PartDone(part, request)
      BY <1>2, <2>4 DEF Fulfilled
    <3>2. /\ PartDone("token", request) /\ PartDone("key", request) /\ PartDone("env", request)
          /\ PartDone("compose", request) /\ PartDone("scripts", request)
      BY <3>1 DEF Parts
    <3>3. /\ tree.token # 0 /\ tree.key = TRUE /\ tree.scripts = TRUE
          /\ tree.compose = tree.env.provider /\ tree.env.provider \in Providers
          /\ server # Missing => server.env # tree.env
      BY <3>2 DEF PartDone
    <3>4. QED BY <1>2, <3>3 DEF ReadyBoots, Boots
  <2>5. QED BY <2>1, <2>3, <2>4 DEF ReadyBoots
<1>3. CASE \E name, todo, request, clients : Underway(name, todo, request, clients)
  <2>1. done = NotDone
    BY <1>3 DEF Underway
  <2>2. QED BY <1>1, <2>1
<1>4. QED BY <1>1, <1>2, <1>3 DEF CommandInv

LEMMA InitCommand == InstallerInit => CommandInv
BY DEF InstallerInit, CommandInv

LEMMA InstallerInvariant == InstallerSpec => [](CredentialsInv /\ FilesInv /\ CommandInv)
<1>1. InstallerInit => CredentialsInv /\ FilesInv /\ CommandInv
  BY InitCredentials, InitFiles, InitCommand
<1>2. CredentialsInv /\ FilesInv /\ CommandInv /\ [InstallerNext]_vars
        => (CredentialsInv /\ FilesInv /\ CommandInv)'
  <2>1. CredentialsInv => /\ TreeShape /\ minted.tokens \in Nat /\ minted.passwords \in Nat
                          /\ PasswordsInOrder
    BY MintedNow DEF CredentialsInv, Shapes
  <2>2. QED BY <2>1, StepKeepsCredentials, StepKeepsFiles, StepKeepsCommand
<1>3. QED BY <1>1, <1>2, PTL DEF InstallerSpec

\* When harness off has gone through its clients are off and the files it cleans
\* hold nothing of BetterAI, and when install or harness on has, their clients are
\* on and each entry is there once: whatever the user moved, copied, grouped or
\* deleted before, for any list of clients.
THEOREM TogglesStayComplete == InstallerSpec => []ToggleIsComplete
BY InstallerInvariant, CommandPromises, PTL

\* An installation that went through is whole and of one piece, and the stack
\* boots from it, whatever earlier installations failed or were killed.
THEOREM InstallsBoot == InstallerSpec => []ReadyBoots
BY InstallerInvariant, CommandPromises, PTL

\* The start after an installation that went through leaves a server that runs the
\* environment on disk and checks the token there, whatever server was running
\* and whatever the user had removed.
THEOREM StartsServeTheInstall == InstallerSpec => StartServesInstall
<1> DEFINE Served == IF tree.env.granularity = "valid"
                     THEN server' = [token |-> tree.token, env |-> tree.env]
                     ELSE server' = Missing
<1>1. ASSUME CommandInv, done.name = "install", Start
      PROVE  Served
  <2>1. ReadyBoots /\ (server # Missing => server.env # tree.env)
    BY <1>1, CommandPromises
  <2>2. server' = IF Boots THEN [token |-> tree.token, env |-> tree.env] ELSE Missing
    BY <1>1, <2>1 DEF Start
  <2>3. Boots <=> tree.env.granularity = "valid"
    BY <1>1, <2>1 DEF ReadyBoots, Boots
  <2>4. QED BY <2>2, <2>3
<1>2. CommandInv => [done.name = "install" /\ Start => Served]_vars
  BY <1>1
<1>3. QED BY <1>2, InstallerInvariant, PTL DEF StartServesInstall
=============================================================================

------------------------------ MODULE SkillFile ------------------------------
(***************************************************************************)
(* SkillFile: one file of the corpus, as its writers leave it and as the   *)
(* reader judges it.  The reader refuses the whole corpus for one invalid  *)
(* file, so what a tool writes must be what the reader accepts.            *)
(*                                                                         *)
(* Of a facet (a frontmatter key) only its origin and its soundness count: *)
(* a sound value of the author, one the schema refuses, a sound one of the *)
(* classifier, or none.  A level is the value of the one setting.          *)
(***************************************************************************)
EXTENDS Integers, FiniteSets

CONSTANTS
    Facets,         \* _CLASSIFIABLE without artifact_type
    Demanded,       \* those the schema demands: id, title, category
    Absent          \* no such key

Values == {"author", "unsound", "model", Absent}
Types == {"rule", "skill"}

\* The values of the setting: a mode and its argument.
Modes == {"default", "none", "tokens", "lines", "other"}
Arguments == {"zero", "few", "many", "padded", "junk", Absent}
Level == [mode : Modes, argument : Arguments]

ASSUME SkillFileAssumption ==
    /\ Demanded \subseteq Facets
    /\ Absent \notin Types \cup {"author", "intents"} /\ Absent \notin Level

Markdown == [type : Types \cup {"other", Absent},
             facet : [Facets -> Values],
             hints : {"intents", "paths", "no mapping", Absent}, \* applies_when
             severity : Values,
             schema : SUBSET Level,         \* what the option's spec admits
             level : Level \cup {Absent},
             body : {"empty", "plain", "sections"},
             extra : BOOLEAN]               \* check, related, created
-----------------------------------------------------------------------------
(* The schema and the reader *)

\* invalid_setting: the option is declared and admits the value.
Admits(file, level) == level \in file.schema

\* CorpusReader's verdict (Artifact).  The type comes from the directory.
Accepts(file) ==
    /\ \A f \in Facets : file.facet[f] # "unsound"
    /\ \A f \in Demanded : file.facet[f] # Absent
    /\ file.severity # "unsound" /\ file.hints # "no mapping"
    /\ file.level # Absent => Admits(file, file.level)

Refused == {}

\* Mutant: the file is written before it is parsed.
Unchecked(file) == {file}

\* What a tool that validates before it writes leaves to be written.
IfAccepted(file) == IF Accepts(file) THEN {file} ELSE Refused

\* missing_rule_sections: a check of the writers, not of the reader.
HasSections(file) == file.type = "rule" => file.body = "sections"
-----------------------------------------------------------------------------
(* add_skill: the outcomes, given what the classifier answers *)

MissingFacets(md) ==
    {f \in Facets : md.facet[f] = Absent}
    \cup {x \in {"artifact_type"} : md.type = Absent}
    \cup {x \in {"intents"} : md.hints # "intents"}
    \cup {x \in {"severity"} : md.type = "rule" /\ md.severity = Absent}

\* Mutant: the classifier's answer wins over the author.
Overruled(md, answer) ==
    [md EXCEPT !.facet = [f \in Facets |-> IF answer[f] # Absent THEN answer[f] ELSE @[f]],
               !.type = IF @ = Absent THEN answer["artifact_type"] ELSE @,
               !.hints = "intents",
               !.severity = IF @ = Absent /\ md.type = "rule" THEN answer["severity"] ELSE @]

\* _facets: the answer fills what was missing and nothing else.  Hints that
\* are not a mapping cannot take the intents.
Classified(md, answer) ==
    [md EXCEPT !.facet = [f \in Facets |-> IF @[f] = Absent THEN answer[f] ELSE @[f]],
               !.type = IF @ = Absent THEN answer["artifact_type"] ELSE @,
               !.hints = "intents",
               !.severity = IF @ = Absent /\ md.type = "rule" THEN answer["severity"] ELSE @]

AnswersAll(md, answer) ==
    /\ \A x \in MissingFacets(md) : answer[x] # Absent
    /\ md.hints # "no mapping"

Added(md, answer) ==
    IF md.body = "empty" \/ md.type = "other" THEN Refused
    ELSE IF MissingFacets(md) # {} /\ ~AnswersAll(md, answer) THEN Refused
    ELSE LET file == IF MissingFacets(md) = {} THEN md ELSE Classified(md, answer)
         IN  IF file.type \in Types /\ HasSections(file) THEN IfAccepted(file) ELSE Refused
-----------------------------------------------------------------------------
(* The other writers *)

\* edit_skill: the spec replaces the file.  The write model (ArtifactInput)
\* refuses an empty body and has no keys beyond its own, so a rendered spec
\* loses them, and the settings with them when the caller leaves them out.
Edited(spec) ==
    IF spec.type \in Types /\ spec.body # "empty" /\ HasSections(spec)
    THEN IfAccepted([spec EXCEPT !.extra = FALSE]) ELSE Refused

\* POST /ingest: an item of the distiller becomes a spec; a severity that is
\* not a rule's is dropped and there are never settings.
Distilled(item) ==
    Edited([item EXCEPT !.severity = IF item.type = "rule" THEN @ ELSE Absent,
                        !.schema = {}, !.level = Absent])

\* configure_skill: only the setting changes.
Configured(file, level) ==
    IF file.schema # {} /\ Admits(file, level)
    THEN IfAccepted([file EXCEPT !.level = level]) ELSE Refused
-----------------------------------------------------------------------------
(* The comment policy that rides every prompt *)

\* A leading zero is no obstacle to int(), but to the pattern below.
Positive(argument) == argument \in {"few", "many", "padded"}

\* parse_comment_policy understands the level.
Understood(level) ==
    \/ level.mode \in {"default", "none"} /\ level.argument = Absent
    \/ level.mode \in {"tokens", "lines"} /\ Positive(level.argument)

\* The pattern concise-comments declares for its level.
ShippedSchema ==
    {l \in Level : \/ l.mode \in {"default", "none"} /\ l.argument = Absent
                   \/ l.mode \in {"tokens", "lines"} /\ l.argument \in {"few", "many"}}

\* Mutant: the seed of the environment wins.
SeedFirst(readable, file, seed) == seed

\* _resolve_comment_policy: the skill's level if the corpus can be read and there
\* is one that can be understood, else the seed of the environment.
CommentPolicy(readable, file, seed) ==
    IF readable /\ file.level # Absent /\ Understood(file.level) THEN file.level ELSE seed
=============================================================================

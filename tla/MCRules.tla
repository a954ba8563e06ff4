------------------------------- MODULE MCRules -------------------------------
(***************************************************************************)
(* The small inputs the run of Rules enumerates.                           *)
(***************************************************************************)
EXTENDS Rules

CONSTANTS Text1, Text2, Text3, Near, Far

Texts == {Text1, Text2, Text3}
SomeAspects == {<<>>, <<Text2>>, <<Text2, Text3>>, <<Blank, Text3, Text2, Text1, Blank>>}

\* Of every artifact at most one hit per text: unscored, without a keyword,
\* and two that qualify.
Variants(i) ==
    {[id |-> i, sim |-> Unscored, word |-> TRUE, score |-> 3],
     [id |-> i, sim |-> Threshold, word |-> FALSE, score |-> 3],
     [id |-> i, sim |-> Threshold, word |-> TRUE, score |-> 1],
     [id |-> i, sim |-> Threshold + 1, word |-> TRUE, score |-> 2]}
Maybe(i) == {<<>>} \cup {<<h>> : h \in Variants(i)}
Answers == {a \o b : a \in Maybe(Near), b \in Maybe(Far)}
SomeIndexes == [Texts -> Answers]

Forced(i) == [id |-> i, sim |-> Unscored, word |-> FALSE, score |-> 0]
SomeForced == {<<>>, <<Forced(Far)>>, <<Forced(Far), Forced(Near)>>}

ShortPlans == UNION {[1..n -> Lines] : n \in 0..4}

ShortPaths == [abs : BOOLEAN, segs : UNION {[1..n -> Segments] : n \in 0..3}]

\* Everything about the facets, or everything about the setting.
Described == [type : Types \cup {"other", Absent}, facet : [Facets -> Values],
              hints : {"intents", "paths", "no mapping", Absent}, severity : Values,
              schema : {{}}, level : {Absent},
              body : {"empty", "plain", "sections"}, extra : {TRUE}]
Configurable == [type : Types, facet : [Facets -> {"author"}], hints : {"intents"},
                 severity : {Absent}, schema : {{}, ShippedSchema, Level},
                 level : Level \cup {Absent}, body : {"plain", "sections"}, extra : BOOLEAN]
SomeSkills == Described \cup Configurable

\* The classifier gives all it can, or fails in one point.
Answer(t) == [x \in Facets \cup {"artifact_type", "intents", "severity"} |->
                IF x = "artifact_type" THEN t ELSE "model"]
SomeAnswers ==
    {Answer(t) : t \in Types \cup {"other", Absent}}
    \cup {[Answer("rule") EXCEPT ![x] = v] : x \in Facets \cup {"intents", "severity"},
                                             v \in {"unsound", Absent}}
=============================================================================

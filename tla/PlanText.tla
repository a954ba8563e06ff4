------------------------------ MODULE PlanText ------------------------------
(***************************************************************************)
(* PlanText: what the harness reads out of the text of a plan, and how the *)
(* paths in it are compared with those of tool calls.  HookGates takes     *)
(* both as given: FilesToTouch for the parse, equality for the match.      *)
(*                                                                         *)
(* A plan is a sequence of lines, of which only the kind counts.  Blank    *)
(* lines are left out; the hash ignores those at either end.               *)
(***************************************************************************)
EXTENDS Integers, FiniteSets, Lists

CONSTANTS Segments, Up      \* what is between the slashes of a path; ".."

ASSUME PlanTextAssumption == Up \in Segments

Headings == {"files", "audit", "section"}       \* lines that start with "## "
Lines == Headings \cup
         {"indented",           \* ... after white space
          "title",              \* "# ", a heading or a comment in code
          "item", "other item", \* "- path", for two paths
          "no path",            \* "- " and no path
          "justify", "prose"}

Path == [abs : BOOLEAN, segs : Seq(Segments)]
-----------------------------------------------------------------------------
(* parse_files_to_touch *)

\* _section_lines, of a plan that has the section.
SectionLines(plan) ==
    LET start == SelectInSeq(plan, LAMBDA l : l = "files")
        rest == SubSeq(plan, start + 1, Len(plan))
        stop == SelectInSeq(rest, LAMBDA l : l \in Headings)
    IN  IF stop = 0 THEN rest ELSE SubSeq(rest, 1, stop - 1)

NoManifest == [ok |-> FALSE, entries |-> <<>>]

\* A justification marks the entry before it.
WithLine(parsed, line) ==
    LET n == Len(parsed.entries)
    IN  CASE ~parsed.ok -> parsed
          [] line \in {"item", "other item"} ->
                [parsed EXCEPT !.entries = Append(@, [path |-> line, justified |-> FALSE])]
          [] line = "no path" \/ (line = "justify" /\ n = 0) -> NoManifest
          [] line = "justify" /\ n # 0 -> [parsed EXCEPT !.entries[n].justified = TRUE]
          [] OTHER -> parsed

ParseFilesToTouch(plan) ==
    IF ~Contains(plan, "files") THEN NoManifest
    ELSE LET parsed == FoldLeft(WithLine, [ok |-> TRUE, entries |-> <<>>],
                                SectionLines(plan))
         IN  IF parsed.entries = <<>> THEN NoManifest ELSE parsed
-----------------------------------------------------------------------------
(* What retrieval sees of a plan *)

\* A line of the plan: the audit begins and ends at a line of ends.
PastLine(st, line, ends) ==
    LET skip == IF line \in ends THEN line = "audit" ELSE st.skip
    IN  [skip |-> skip, kept |-> IF skip THEN st.kept ELSE Append(st.kept, line)]

\* The lines outside the audit.
Outside(plan, ends) ==
    FoldLeft(LAMBDA st, l : PastLine(st, l, ends), [skip |-> FALSE, kept |-> <<>>], plan).kept

\* Mutant: only a title ends the audit.
StripToTitle(plan) == Outside(plan, {"audit", "title"})

\* strip_skill_audit: any heading of the first two levels ends the audit.
StripSkillAudit(plan) == Outside(plan, Headings \cup {"indented", "title"})

\* A heading begins a section, any other line is added to the last one.
WithSection(done, line) ==
    IF line \in Headings \cup {"indented"}
    THEN Append(done, [heading |-> line, body |-> <<>>])
    ELSE [done EXCEPT ![Len(done)].body = Append(@, line)]

\* plan_sections: the preamble only if there is one.
PlanSections(plan) ==
    LET preamble == [heading |-> "preamble", body |-> <<>>]
        all == FoldLeft(WithSection, <<preamble>>, plan)
    IN  Only(all, ToSet(all) \ {preamble})

\* format_plan_skills: the heading, a row per match, the proposal and the
\* instruction, none of which starts with "#".
SkillAudit(matches) == <<"audit">> \o [k \in 1..matches + 2 |-> "prose"]
-----------------------------------------------------------------------------
(* Paths *)

\* normalize_path, which no caller gives a working directory: ".." takes back
\* a segment, and at the root does nothing.
WithSegment(p, seg) ==
    LET last == IF p.segs = <<>> THEN Up ELSE Last(p.segs)
    IN  CASE seg # Up              -> [p EXCEPT !.segs = Append(@, seg)]
          [] seg = Up /\ last # Up -> [p EXCEPT !.segs = Front(@)]
          [] seg = Up /\ last = Up -> [p EXCEPT !.segs = IF p.abs THEN @ ELSE Append(@, Up)]

Normalized(p) == FoldLeft(WithSegment, [abs |-> p.abs, segs |-> <<>>], p.segs)

\* Mutant: a suffix is enough, whatever is absolute.
MatchesBySuffix(entry, path) ==
    LET e == Normalized(entry)
        c == Normalized(path)
    IN  e = c \/ (e.segs # <<>> /\ IsSuffix(e.segs, c.segs))

\* _entry_matches for an entry that names a file.
EntryMatches(entry, path) ==
    LET e == Normalized(entry)
        c == Normalized(path)
    IN  \/ e = c
        \/ ~e.abs /\ e.segs # <<>> /\ IsStrictSuffix(e.segs, c.segs)
        \/ ~e.abs /\ c.abs /\ e.segs # <<>> /\ e.segs = c.segs
        \/ ~c.abs /\ c.segs # <<>> /\ IsStrictSuffix(c.segs, e.segs)
        \/ ~c.abs /\ e.abs /\ c.segs # <<>> /\ e.segs = c.segs

\* _under_dir: an entry "dir/**" covers the directory and all below it.  A
\* relative one may be anywhere in the path.
DirectoryMatches(dir, path) ==
    LET d == Normalized(dir)
        c == Normalized(path)
    IN  \/ d.abs = c.abs /\ IsPrefix(d.segs, c.segs)
        \/ /\ ~d.abs
           /\ \E k \in 1..Len(c.segs) :
                /\ k > 1 \/ c.abs
                /\ k + Len(d.segs) <= Len(c.segs)
                /\ SubSeq(c.segs, k, k + Len(d.segs) - 1) = d.segs
-----------------------------------------------------------------------------
(* Reference definitions *)

\* For some directories they may be relative to, both are one file.
MayBeSame(p, q) ==
    \/ p = q
    \/ p.abs /\ ~q.abs /\ IsSuffix(q.segs, p.segs)
    \/ ~p.abs /\ q.abs /\ IsSuffix(p.segs, q.segs)
    \/ ~p.abs /\ ~q.abs /\ (IsSuffix(p.segs, q.segs) \/ IsSuffix(q.segs, p.segs))

Climbs(p) == Contains(Normalized(p).segs, Up)
=============================================================================

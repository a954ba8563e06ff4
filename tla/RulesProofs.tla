----------------------------- MODULE RulesProofs -----------------------------
(***************************************************************************)
(* Theorems about the pure functions of the harness, for any corpus files, *)
(* classifier answers, plans and paths.  The inputs are the states of      *)
(* Rules, so what is proved of every input is an invariant of RulesSpec.   *)
(***************************************************************************)
EXTENDS Rules, ListTheorems

\* What is probed is one of the inputs.
Inputs ==
    /\ Is("search") => probe.index \in Indexes
    /\ Is("plan") => probe.plan \in Plans
    /\ Is("paths") => probe.entry \in Paths /\ probe.path \in Paths
    /\ Is("skill") => probe.file \in Skills

LEMMA InputsStay == RulesSpec => []Inputs
<1>1. RulesInit => Inputs
  BY DEF RulesInit, Inputs, Is, None
<1>2. Inputs /\ [RulesNext]_probe => Inputs'
  <2>1. SUFFICES ASSUME Inputs, [RulesNext]_probe PROVE Inputs'
    OBVIOUS
  <2>2. CASE ProbeSearch
    BY <2>2 DEF ProbeSearch, Inputs, Is
  <2>3. CASE ProbePlan
    BY <2>3 DEF ProbePlan, Inputs, Is
  <2>4. CASE ProbePaths
    BY <2>4 DEF ProbePaths, Inputs, Is
  <2>5. CASE ProbeSkill
    BY <2>5 DEF ProbeSkill, Inputs, Is
  <2>6. CASE Forget
    BY <2>6 DEF Forget, Inputs, Is, None
  <2>7. CASE UNCHANGED probe
    BY <2>1, <2>7 DEF Inputs, Is
  <2>8. QED BY <2>1, <2>2, <2>3, <2>4, <2>5, <2>6, <2>7 DEF RulesNext
<1>3. QED BY <1>1, <1>2, PTL DEF RulesSpec
-----------------------------------------------------------------------------
(* Skills *)

\* A writer that validates leaves what the reader accepts.
LEMMA AcceptedOnly ==
    ASSUME NEW file, NEW g \in IfAccepted(file)
    PROVE  g = file /\ Accepts(g)
BY DEF IfAccepted, Refused

LEMMA AddedFacts ==
    ASSUME NEW md, NEW answer, NEW g \in Added(md, answer)
    PROVE  /\ Accepts(g) /\ HasSections(g) /\ g.type \in Types
           /\ \/ MissingFacets(md) = {} /\ g = md
              \/ AnswersAll(md, answer) /\ g = Classified(md, answer)
BY AcceptedOnly DEF Added, Refused

LEMMA EditedFacts ==
    ASSUME NEW spec \in Markdown, NEW g \in Edited(spec)
    PROVE  Accepts(g) /\ HasSections(g)
<1> DEFINE file == [spec EXCEPT !.extra = FALSE]
<1>1. g = file /\ Accepts(g) /\ HasSections(spec)
  BY AcceptedOnly DEF Edited, Refused
<1>2. file.type = spec.type /\ file.body = spec.body
  BY DEF Markdown
<1>3. QED BY <1>1, <1>2 DEF HasSections

\* No tool writes a file for which the reader would refuse the corpus, and
\* none but configure_skill writes a rule without its sections, for every file,
\* every spec and every answer of the classifier.
THEOREM CorpusReadable == RulesSpec => []CorpusStaysReadable
<1>1. Inputs => CorpusStaysReadable
  <2>1. SUFFICES ASSUME probe.file \in Markdown
                 PROVE  /\ \A g \in Outcomes(probe.file) : Accepts(g) /\ HasSections(g)
                        /\ \A level \in Level :
                                \A g \in Configured(probe.file, level) : Accepts(g)
    BY RulesAssumption DEF Inputs, CorpusStaysReadable
  <2> DEFINE file == probe.file
             item == [file EXCEPT !.severity = IF file.type = "rule" THEN file.severity
                                               ELSE Absent,
                                  !.schema = {}, !.level = Absent]
  <2>2. item \in Markdown
    BY <2>1 DEF Markdown, Values
  <2>3. Distilled(file) = Edited(item)
    BY DEF Distilled
  <2>4. ASSUME NEW g \in Outcomes(file) PROVE Accepts(g) /\ HasSections(g)
    <3>1. CASE \E a \in ClassifierAnswers : g \in Added(file, a)
      BY <3>1, AddedFacts
    <3>2. CASE g \in Edited(file)
      BY <2>1, <3>2, EditedFacts
    <3>3. CASE g \in Distilled(file)
      <4> HIDE DEF item
      <4>1. QED BY <2>2, <2>3, <3>3, EditedFacts
    <3>4. QED BY <2>4, <3>1, <3>2, <3>3 DEF Outcomes
  <2>5. \A level \in Level : \A g \in Configured(file, level) : Accepts(g)
    BY AcceptedOnly DEF Configured, Refused
  <2>6. QED BY <2>4, <2>5
<1>2. QED BY <1>1, InputsStay, PTL

\* A file with four of its keys replaced by those of another.
TakesOver(md, g) ==
    [md EXCEPT !.facet = g.facet, !.type = g.type, !.hints = g.hints,
               !.severity = g.severity]

\* What the answer of the classifier makes of a file, key by key.
LEMMA ClassifiedFacts ==
    ASSUME NEW md \in Markdown, NEW answer
    PROVE  LET g == Classified(md, answer)
           IN  /\ g.facet = [f \in Facets |-> IF md.facet[f] = Absent THEN answer[f]
                                              ELSE md.facet[f]]
               /\ g.type = IF md.type = Absent THEN answer["artifact_type"] ELSE md.type
               /\ g.hints = "intents"
               /\ TakesOver(md, g) = g
BY DEF Classified, Markdown, TakesOver

\* add_skill keeps everything the author wrote, leaves no facet empty, and
\* writes the file as it came when nothing was missing, whatever the classifier
\* answers.
THEOREM AuthorsKeepTheirFacets == RulesSpec => []AuthorsFacetsKept
<1>1. Inputs => AuthorsFacetsKept
  <2>1. SUFFICES ASSUME NEW file \in Markdown, NEW answer, NEW g \in Added(file, answer)
                 PROVE  /\ \A f \in Facets :
                                g.facet[f] = IF file.facet[f] # Absent
                                             THEN file.facet[f] ELSE answer[f]
                        /\ Absent \notin {g.type, g.hints} \cup {g.facet[f] : f \in Facets}
                        /\ file.type # Absent => g.type = file.type
                        /\ TakesOver(file, g) = g
                        /\ MissingFacets(file) = {} => g = file
    BY RulesAssumption DEF Inputs, AuthorsFacetsKept, TakesOver
  <2>2. Absent \notin Types /\ Absent # "intents"
    BY SkillFileAssumption
  <2>3. CASE MissingFacets(file) = {} /\ g = file
    <3>1. /\ \A f \in Facets : file.facet[f] # Absent
          /\ file.type # Absent /\ file.hints = "intents"
      BY <2>3 DEF MissingFacets
    <3>2. TakesOver(file, file) = file
      BY DEF Markdown, TakesOver
    <3>3. QED BY <2>2, <2>3, <3>1, <3>2
  <2>4. CASE AnswersAll(file, answer) /\ g = Classified(file, answer)
    <3>1. \A f \in Facets : file.facet[f] = Absent => answer[f] # Absent
      BY <2>4 DEF AnswersAll, MissingFacets
    <3>2. /\ g.facet = [f \in Facets |-> IF file.facet[f] = Absent THEN answer[f]
                                         ELSE file.facet[f]]
          /\ g.type = IF file.type = Absent THEN answer["artifact_type"] ELSE file.type
          /\ g.hints = "intents"
          /\ TakesOver(file, g) = g
      BY <2>4, ClassifiedFacts
    <3>3. g.type \in Types
      BY AddedFacts
    <3>4. Absent \notin {g.facet[f] : f \in Facets}
      BY <3>1, <3>2
    <3>5. CASE MissingFacets(file) = {}
      <4>1. g = file
        BY <3>5 DEF Added, IfAccepted, Refused
      <4>2. QED BY <2>3, <3>5, <4>1
    <3>6. QED BY <2>2, <3>2, <3>3, <3>4, <3>5
  <2>5. QED BY <2>3, <2>4, AddedFacts
<1>2. QED BY <1>1, InputsStay, PTL

\* Of a file with the shipped schema configure_skill takes every level that
\* schema declares and no other, and the prompt hook then follows it, whatever
\* the environment says, as long as it can read the corpus.
THEOREM LevelsAreFollowed == RulesSpec => []ConfiguredLevelIsFollowed
<1>1. Inputs => ConfiguredLevelIsFollowed
  <2>1. SUFFICES ASSUME NEW file \in Markdown, file.schema = ShippedSchema, Accepts(file),
                        NEW level \in Level
                 PROVE  /\ Configured(file, level) # Refused <=> level \in ShippedSchema
                        /\ \A g \in Configured(file, level) :
                                \A readable \in BOOLEAN, seed \in ShippedSchema :
                                    CommentPolicy(readable, g, seed) = IF readable THEN level ELSE seed
    BY RulesAssumption DEF Inputs, ConfiguredLevelIsFollowed
  <2> DEFINE new == [file EXCEPT !.level = level]
  <2>2. /\ new.level = level /\ new.facet = file.facet /\ new.severity = file.severity
        /\ new.hints = file.hints /\ new.schema = file.schema
    BY DEF Markdown
  <2> HIDE DEF new
  <2>3. level \in ShippedSchema => Accepts(new)
    BY <2>1, <2>2 DEF Accepts, Admits
  <2>4. Configured(file, level) = IF level \in ShippedSchema THEN {new} ELSE {}
    BY <2>1, <2>3 DEF Configured, Admits, IfAccepted, Refused, new
  <2>5. level \in ShippedSchema => Understood(level) /\ level # Absent
    BY SkillFileAssumption DEF ShippedSchema, Understood, Positive
  <2>6. level \in ShippedSchema => 
            \A readable \in BOOLEAN : \A seed :
                CommentPolicy(readable, new, seed) = IF readable THEN level ELSE seed
    BY <2>2, <2>5 DEF CommentPolicy
  <2>7. QED BY <2>4, <2>6 DEF Refused
<1>2. QED BY <1>1, InputsStay, PTL
-----------------------------------------------------------------------------
(* Paths *)

\* A segment more leaves a path.
LEMMA WithSegmentType ==
    ASSUME NEW p \in Path, NEW seg \in Segments
    PROVE  WithSegment(p, seg) \in Path
<1>1. p.segs \in Seq(Segments) /\ Up \in Segments
  BY PlanTextAssumption DEF Path
<1>2. Append(p.segs, seg) \in Seq(Segments) /\ Append(p.segs, Up) \in Seq(Segments)
  BY <1>1
<1>3. CASE p.segs = <<>>
  BY <1>1, <1>2, <1>3 DEF WithSegment, Path
<1>4. CASE p.segs # <<>>
  <2>1. Front(p.segs) \in Seq(Segments)
    BY <1>1, <1>4 DEF Front
  <2>2. QED BY <1>1, <1>2, <1>4, <2>1 DEF WithSegment, Path
<1>5. QED BY <1>3, <1>4

\* What comes of normalising a path is a path.
LEMMA NormalizedType ==
    ASSUME NEW p \in Path
    PROVE  Normalized(p) \in Path
<1> DEFINE s == p.segs
           n == Len(s)
           base == [abs |-> p.abs, segs |-> <<>>]
           h == [i \in 1..n |-> [v \in Path |-> WithSegment(v, s[i])]]
           IsFold(f) == f = [u \in SUBSET (1..n) |->
                            IF u = {} THEN base
                            ELSE WithSegment(f[u \ {Max(u)}], s[Max(u)])]
           fold == CHOOSE f : IsFold(f)
<1>1. DOMAIN s = 1..n /\ n \in Nat /\ (\A i \in 1..n : s[i] \in Segments) /\ base \in Path
  BY DEF Path
<1>2. \A i \in 1..n : \A v \in Path : h[i][v] = WithSegment(v, s[i]) /\ h[i][v] \in Path
  BY <1>1, WithSegmentType
<1>3. PICK f : f \in [SUBSET (1..n) -> Path] /\ Folding(f, n, base, h)
  <2>1. \A i \in 1..n : \A v \in Path : h[i][v] \in Path
    BY <1>2
  <2> HIDE DEF h, n, base
  <2>2. QED BY <1>1, <2>1, FoldExists
<1>4. IsFold(f)
  <2>1. ASSUME NEW u \in SUBSET (1..n), u # {}
        PROVE  Max(u) \in 1..n /\ f[u \ {Max(u)}] \in Path
    BY <1>1, <1>3, <2>1, MaxIsThere
  <2> HIDE DEF h, base
  <2>2. QED BY <1>2, <1>3, <2>1 DEF Folding
<1>5. IsFold(fold)
  <2> HIDE DEF IsFold
  <2>1. QED BY <1>4
<1>6. Normalized(p) = fold[1..n]
  BY <1>1 DEF Normalized, FoldLeft, MapThenFoldSet
<1> DEFINE I == {i \in 0..n : fold[1..i] \in Path}
<1>7. 0 \in I
  <2>1. 1..0 = {} /\ 1..0 \in SUBSET (1..n) /\ 0 \in 0..n
    BY <1>1
  <2> HIDE DEF fold
  <2>2. QED BY <1>1, <1>5, <2>1
<1>8. ASSUME NEW i \in 1..n, i - 1 \in I PROVE i \in I
  <2> HIDE DEF fold, base
  <2>1. 1..i \in SUBSET (1..n) /\ 1..i # {} /\ Max(1..i) = i /\ (1..i) \ {i} = 1..(i - 1)
    BY <1>1, Prefixed
  <2>2. fold[1..i] = WithSegment(fold[(1..i) \ {i}], s[i])
    BY <1>5, <2>1
  <2>3. fold[1..(i - 1)] \in Path /\ s[i] \in Segments /\ i \in 0..n
    BY <1>1, <1>8
  <2>4. PICK v \in Path : v = fold[1..(i - 1)]
    BY <2>3
  <2>5. fold[1..i] = WithSegment(v, s[i])
    BY <2>1, <2>2, <2>4
  <2>6. QED BY <2>3, <2>5, WithSegmentType
<1>9. n \in I
  <2> HIDE DEF I
  <2>1. QED BY <1>1, <1>7, <1>8, LoopInduction
<1>10. QED BY <1>6, <1>9

\* A suffix, entry by entry.
LEMMA SuffixMeans ==
    ASSUME NEW S, NEW s \in Seq(S), NEW t \in Seq(S)
    PROVE  /\ IsSuffix(s, t) <=> /\ Len(s) <= Len(t)
                                 /\ \A i \in 1..Len(s) : s[i] = t[Len(t) - Len(s) + i]
           /\ IsSuffix(s, t) <=> s = t \/ IsStrictSuffix(s, t)
<1> DEFINE m == Len(s)
           n == Len(t)
           rs == Reverse(s)
           rt == Reverse(t)
<1>1. m \in Nat /\ n \in Nat /\ (\A i \in 1..m : s[i] \in S) /\ \A i \in 1..n : t[i] \in S
  OBVIOUS
<1>2. /\ rs \in Seq(S) /\ Len(rs) = m /\ \A i \in 1..m : rs[i] = s[m - i + 1]
      /\ rt \in Seq(S) /\ Len(rt) = n /\ \A i \in 1..n : rt[i] = t[n - i + 1]
  <2>1. /\ \A i \in 1..m : m - i + 1 \in 1..m
        /\ \A i \in 1..n : n - i + 1 \in 1..n
    BY <1>1
  <2>2. /\ rs = [i \in 1..m |-> s[m - i + 1]] /\ rs \in [1..m -> S]
        /\ rt = [i \in 1..n |-> t[n - i + 1]] /\ rt \in [1..n -> S]
    BY <1>1, <2>1 DEF Reverse
  <2> HIDE DEF rs, rt
  <2>3. QED BY <1>1, <2>2
<1>3. IsSuffix(s, t) <=> m <= n /\ SubSeq(rs, 1, m) = SubSeq(rt, 1, m)
  BY <1>2 DEF IsSuffix, IsPrefix
<1> HIDE DEF rs, rt
<1>4. ASSUME m <= n
      PROVE  SubSeq(rs, 1, m) = SubSeq(rt, 1, m) <=> \A i \in 1..m : rs[i] = rt[i]
  <2>1. /\ SubSeq(rs, 1, m) = [i \in 1..m |-> rs[i]]
        /\ SubSeq(rt, 1, m) = [i \in 1..m |-> rt[i]]
    BY <1>1, <1>2, <1>4
  <2>2. QED BY <2>1
<1>5. ASSUME m <= n
      PROVE  (\A i \in 1..m : rs[i] = rt[i]) <=> \A i \in 1..m : s[i] = t[n - m + i]
  <2>1. ASSUME \A i \in 1..m : rs[i] = rt[i], NEW i \in 1..m PROVE s[i] = t[n - m + i]
    <3>1. m - i + 1 \in 1..m /\ m - i + 1 \in 1..n /\ m - (m - i + 1) + 1 = i
          /\ n - (m - i + 1) + 1 = n - m + i
      BY <1>1, <1>5, <2>1
    <3>2. rs[m - i + 1] = s[i]
      BY <1>2, <3>1
    <3>3. rt[m - i + 1] = t[n - m + i]
      BY <1>2, <3>1
    <3>4. QED BY <2>1, <3>1, <3>2, <3>3
  <2>2. ASSUME \A i \in 1..m : s[i] = t[n - m + i], NEW i \in 1..m PROVE rs[i] = rt[i]
    <3>1. m - i + 1 \in 1..m /\ i \in 1..n /\ n - m + (m - i + 1) = n - i + 1
      BY <1>1, <1>5, <2>2
    <3>2. s[m - i + 1] = t[n - m + (m - i + 1)]
      BY <2>2, <3>1
    <3>3. rs[i] = s[m - i + 1] /\ rt[i] = t[n - i + 1]
      BY <1>2, <2>2, <3>1
    <3>4. QED BY <3>1, <3>2, <3>3
  <2>3. QED BY <2>1, <2>2
<1>6. IsSuffix(s, t) <=> m <= n /\ \A i \in 1..m : s[i] = t[n - m + i]
  BY <1>3, <1>4, <1>5
<1>7. IsSuffix(s, s)
  <2>1. SubSeq(rs, 1, m) = SubSeq(rs, 1, m) /\ m <= m
    BY <1>1
  <2>2. QED BY <1>2, <2>1 DEF IsSuffix, IsPrefix, rs
<1>8. QED BY <1>6, <1>7 DEF IsStrictSuffix

\* Two paths are one if their segments are, and both or none is absolute.
LEMMA SamePath ==
    ASSUME NEW p \in Path, NEW q \in Path
    PROVE  p = q <=> p.abs = q.abs /\ p.segs = q.segs
BY DEF Path

\* What a relative file may be, seen from either side.
LEMMA FileMatches ==
    ASSUME NEW entry \in Paths, NEW path \in Paths, NEW e \in Path, NEW c \in Path,
           e = Normalized(entry), c = Normalized(path), e.segs # <<>>, c.segs # <<>>
    PROVE  EntryMatches(entry, path) <=> MayBeSame(e, c)
<1>1. /\ IsSuffix(e.segs, c.segs) <=> e.segs = c.segs \/ IsStrictSuffix(e.segs, c.segs)
      /\ IsSuffix(c.segs, e.segs) <=> c.segs = e.segs \/ IsStrictSuffix(c.segs, e.segs)
  BY SuffixMeans DEF Path
<1>2. e = c <=> e.abs = c.abs /\ e.segs = c.segs
  BY SamePath
<1>3. e.abs \in BOOLEAN /\ c.abs \in BOOLEAN
  BY DEF Path
<1>4. EntryMatches(entry, path) <=>
        \/ e = c
        \/ ~e.abs /\ e.segs # <<>> /\ IsStrictSuffix(e.segs, c.segs)
        \/ ~e.abs /\ c.abs /\ e.segs # <<>> /\ e.segs = c.segs
        \/ ~c.abs /\ c.segs # <<>> /\ IsStrictSuffix(c.segs, e.segs)
        \/ ~c.abs /\ e.abs /\ c.segs # <<>> /\ e.segs = c.segs
  BY DEF EntryMatches
<1>5. QED BY <1>1, <1>2, <1>3, <1>4 DEF MayBeSame

\* The directory of an absolute path after k of its segments.
Above(c, k) == [c EXCEPT !.segs = SubSeq(@, 1, k)]

LEMMA AboveFacts ==
    ASSUME NEW c \in Path, NEW k \in 1..Len(c.segs)
    PROVE  /\ Above(c, k) \in Path /\ Above(c, k).abs = c.abs
           /\ Above(c, k).segs = SubSeq(c.segs, 1, k)
           /\ SubSeq(c.segs, 1, k) \in Seq(Segments) /\ Len(SubSeq(c.segs, 1, k)) = k
           /\ \A i \in 1..k : SubSeq(c.segs, 1, k)[i] = c.segs[i]
<1>1. c.segs \in Seq(Segments) /\ k \in Nat /\ k <= Len(c.segs) /\ c.abs \in BOOLEAN
  BY DEF Path
<1>2. /\ SubSeq(c.segs, 1, k) \in Seq(Segments) /\ Len(SubSeq(c.segs, 1, k)) = k
      /\ \A i \in 1..k : SubSeq(c.segs, 1, k)[i] = c.segs[i]
  BY <1>1
<1>3. PICK t \in Seq(Segments) : t = SubSeq(c.segs, 1, k)
  BY <1>2
<1>4. Above(c, k) = [c EXCEPT !.segs = t]
  BY <1>3 DEF Above
<1>5. QED BY <1>1, <1>2, <1>3, <1>4 DEF Path

\* A directory entry that is absolute covers the paths it begins.
LEMMA AbsoluteDirectory ==
    ASSUME NEW d \in Path, NEW c \in Path, d.abs, c.abs, d.segs # <<>>
    PROVE  IsPrefix(d.segs, c.segs)
           <=> d = c \/ \E k \in 1..Len(c.segs) - 1 : MayBeSame(d, Above(c, k))
<1> DEFINE s == d.segs
           t == c.segs
           m == Len(s)
           n == Len(t)
<1>1. /\ s \in Seq(Segments) /\ t \in Seq(Segments) /\ m \in Nat /\ n \in Nat /\ m # 0
      /\ d = c <=> s = t
  BY SamePath DEF Path
<1>2. \A k \in 1..n - 1 : MayBeSame(d, Above(c, k)) <=> s = SubSeq(t, 1, k)
  <2>1. SUFFICES ASSUME NEW k \in 1..n - 1
                 PROVE  MayBeSame(d, Above(c, k)) <=> s = SubSeq(t, 1, k)
    OBVIOUS
  <2>2. k \in 1..n
    BY <1>1
  <2>3. PICK q \in Path : q = Above(c, k)
    BY <2>2, AboveFacts
  <2>4. q.abs = c.abs /\ q.segs = SubSeq(t, 1, k)
    BY <2>2, <2>3, AboveFacts
  <2>5. d = q <=> d.abs = q.abs /\ s = q.segs
    BY SamePath
  <2>6. d.abs = TRUE /\ q.abs = TRUE
    BY <2>4 DEF Path
  <2>7. QED BY <2>3, <2>4, <2>5, <2>6 DEF MayBeSame
<1>3. IsPrefix(s, t) <=> m <= n /\ s = SubSeq(t, 1, m)
  <2>1. SubSeq(s, 1, m) = s
    BY <1>1
  <2>2. QED BY <2>1 DEF IsPrefix
<1>4. SubSeq(t, 1, n) = t
  BY <1>1
<1>5. \A k \in 1..n : Len(SubSeq(t, 1, k)) = k
  BY <1>1
<1>6. IsPrefix(s, t) => s = t \/ \E k \in 1..n - 1 : s = SubSeq(t, 1, k)
  <2>1. SUFFICES ASSUME m <= n, s = SubSeq(t, 1, m), s # t
                 PROVE  m \in 1..n - 1
    BY <1>3
  <2>2. m # n
    BY <1>4, <2>1
  <2>3. QED BY <1>1, <2>1, <2>2
<1>7. ASSUME NEW k \in 1..n - 1, s = SubSeq(t, 1, k) PROVE IsPrefix(s, t)
  <2>1. m = k
    BY <1>1, <1>5, <1>7
  <2>2. QED BY <1>1, <1>3, <1>7, <2>1
<1>8. s = t => IsPrefix(s, t)
  BY <1>1, <1>3, <1>4
<1>9. QED BY <1>1, <1>2, <1>6, <1>7, <1>8

\* One that is relative covers the paths that have it somewhere above them.
LEMMA RelativeDirectory ==
    ASSUME NEW d \in Path, NEW c \in Path, ~d.abs, c.abs, d.segs # <<>>
    PROVE  (\E k \in 1..Len(c.segs) :
                /\ k + Len(d.segs) <= Len(c.segs)
                /\ SubSeq(c.segs, k, k + Len(d.segs) - 1) = d.segs)
           <=> \E k \in 1..Len(c.segs) - 1 : MayBeSame(d, Above(c, k))
<1> DEFINE s == d.segs
           t == c.segs
           m == Len(s)
           n == Len(t)
<1>1. s \in Seq(Segments) /\ t \in Seq(Segments) /\ m \in Nat /\ n \in Nat /\ m # 0
  BY DEF Path
<1>2. ASSUME NEW j \in 1..n - 1
      PROVE  MayBeSame(d, Above(c, j))
             <=> m <= j /\ \A i \in 1..m : s[i] = t[j - m + i]
  <2>1. j \in 1..n
    BY <1>1
  <2>2. PICK q \in Path, u \in Seq(Segments) : q = Above(c, j) /\ u = SubSeq(t, 1, j)
    BY <2>1, AboveFacts
  <2>3. q.abs = c.abs /\ q.segs = u /\ Len(u) = j /\ \A i \in 1..j : u[i] = t[i]
    BY <2>1, <2>2, AboveFacts
  <2>4. MayBeSame(d, q) <=> IsSuffix(s, u)
    BY <2>3 DEF MayBeSame
  <2>5. IsSuffix(s, u) <=> m <= j /\ \A i \in 1..m : s[i] = u[j - m + i]
    <3>1. IsSuffix(s, u) <=>
            Len(s) <= Len(u) /\ \A i \in 1..Len(s) : s[i] = u[Len(u) - Len(s) + i]
      BY <1>1, <2>2, SuffixMeans
    <3>2. QED BY <2>3, <3>1
  <2>6. m <= j => \A i \in 1..m : j - m + i \in 1..j
    BY <1>1
  <2>7. m <= j => \A i \in 1..m : u[j - m + i] = t[j - m + i]
    BY <2>3, <2>6
  <2>8. QED BY <2>2, <2>4, <2>5, <2>7
<1>3. ASSUME NEW k \in 1..n, k + m <= n
      PROVE  SubSeq(t, k, k + m - 1) = s <=> \A i \in 1..m : s[i] = t[k + i - 1]
  <2>1. /\ SubSeq(t, k, k + m - 1) \in Seq(Segments)
        /\ Len(SubSeq(t, k, k + m - 1)) = m
        /\ \A i \in 1..m : SubSeq(t, k, k + m - 1)[i] = t[k + i - 1]
    <3> DEFINE to == k + m - 1
    <3>1. k \in Nat \ {0} /\ to \in Nat /\ to <= Len(t) /\ to - k + 1 = m
      BY <1>1, <1>3
    <3> HIDE DEF to, m, n
    <3>2. /\ SubSeq(t, k, to) \in Seq(Segments) /\ Len(SubSeq(t, k, to)) = to - k + 1
          /\ \A i \in 1..to - k + 1 : SubSeq(t, k, to)[i] = t[k + i - 1]
      BY <1>1, <3>1
    <3>3. QED BY <3>1, <3>2 DEF to
  <2>2. QED BY <1>1, <2>1, SameEntries
<1>4. ASSUME NEW k \in 1..n, k + m <= n, SubSeq(t, k, k + m - 1) = s
      PROVE  \E j \in 1..n - 1 : MayBeSame(d, Above(c, j))
  <2>1. k + m - 1 \in 1..n - 1 /\ m <= k + m - 1
    BY <1>1, <1>4
  <2>2. \A i \in 1..m : s[i] = t[k + i - 1]
    BY <1>3, <1>4
  <2>3. \A i \in 1..m : (k + m - 1) - m + i = k + i - 1
    <3> HIDE DEF m, n
    <3>1. QED BY <1>1
  <2>4. \A i \in 1..m : s[i] = t[(k + m - 1) - m + i]
    BY <2>2, <2>3
  <2>5. QED BY <1>2, <2>1, <2>4
<1>5. ASSUME NEW j \in 1..n - 1, MayBeSame(d, Above(c, j))
      PROVE  \E k \in 1..n : k + m <= n /\ SubSeq(t, k, k + m - 1) = s
  <2>1. m <= j /\ \A i \in 1..m : s[i] = t[j - m + i]
    BY <1>2, <1>5
  <2>2. PICK k \in 1..n : k = j - m + 1
    <3> HIDE DEF m, n
    <3>1. j - m + 1 \in 1..n
      BY <1>1, <2>1
    <3>2. QED BY <3>1
  <2>3. k + m <= n
    BY <1>1, <2>2
  <2>4. \A i \in 1..m : s[i] = t[k + i - 1]
    <3>1. \A i \in 1..m : k + i - 1 = j - m + i
      BY <1>1, <2>2
    <3>2. QED BY <2>1, <3>1
  <2>5. QED BY <1>3, <2>3, <2>4
<1>6. QED BY <1>4, <1>5

\* A manifest entry matches the path of a tool call exactly when the two may
\* be one file, and a directory entry covers an absolute path exactly when it
\* may be one with a directory above it, for paths of any length.
THEOREM MatchesAreSameFiles == RulesSpec => []MatchIsSameFile
<1>1. Inputs => MatchIsSameFile
  <2>1. SUFFICES ASSUME NEW entry \in Paths, NEW path \in Paths
                 PROVE  LET e == Normalized(entry)
                            c == Normalized(path)
                        IN  e.segs # <<>> /\ c.segs # <<>> =>
                              /\ EntryMatches(entry, path) <=> MayBeSame(e, c)
                              /\ c.abs => (DirectoryMatches(entry, path) <=>
                                    \/ e = c
                                    \/ \E k \in 1..Len(c.segs) - 1 :
                                            MayBeSame(e, Above(c, k)))
    BY DEF Inputs, MatchIsSameFile, Above
  <2>2. PICK e \in Path, c \in Path : e = Normalized(entry) /\ c = Normalized(path)
    BY RulesAssumption, NormalizedType
  <2>3. SUFFICES ASSUME e.segs # <<>>, c.segs # <<>>, c.abs
                 PROVE  DirectoryMatches(entry, path) <=>
                            e = c \/ \E k \in 1..Len(c.segs) - 1 : MayBeSame(e, Above(c, k))
    BY <2>2, FileMatches
  <2>4. e.abs \in BOOLEAN /\ c.abs \in BOOLEAN /\ c.abs = TRUE
    BY <2>3 DEF Path
  <2>5. CASE e.abs
    <3>1. DirectoryMatches(entry, path) <=> IsPrefix(e.segs, c.segs)
      BY <2>2, <2>4, <2>5 DEF DirectoryMatches
    <3>2. QED BY <2>3, <2>5, <3>1, AbsoluteDirectory
  <2>6. CASE ~e.abs
    <3>1. DirectoryMatches(entry, path) <=>
            \E k \in 1..Len(c.segs) :
                /\ k + Len(e.segs) <= Len(c.segs)
                /\ SubSeq(c.segs, k, k + Len(e.segs) - 1) = e.segs
      BY <2>2, <2>3, <2>4, <2>6 DEF DirectoryMatches
    <3>2. e # c
      BY <2>3, <2>6
    <3>3. QED BY <2>3, <2>6, <3>1, <3>2, RelativeDirectory
  <2>7. QED BY <2>5, <2>6
<1>2. QED BY <1>1, InputsStay, PTL
-----------------------------------------------------------------------------
(* The audit of a plan *)

Passing == [skip : BOOLEAN, kept : Seq(Lines \ {"audit"})]
Outset == [skip |-> FALSE, kept |-> <<>>]
Enders == Headings \cup {"indented", "title"}

\* A line of the audit's is not kept, and one that is kept is not the heading
\* of an audit.
LEMMA PastLineType ==
    ASSUME NEW st \in Passing, NEW line \in Lines
    PROVE  PastLine(st, line, Enders) \in Passing
<1>1. CASE line = "audit"
  BY <1>1 DEF PastLine, Passing, Enders, Headings
<1>2. CASE line # "audit"
  <2>1. st.kept \in Seq(Lines \ {"audit"}) /\ line \in Lines \ {"audit"}
    BY <1>2 DEF Passing
  <2>2. Append(st.kept, line) \in Seq(Lines \ {"audit"})
    BY <2>1
  <2>3. PICK more \in Seq(Lines \ {"audit"}) : more = Append(st.kept, line)
    BY <2>2
  <2>4. QED BY <1>2, <2>1, <2>3 DEF PastLine, Passing
<1>3. QED BY <1>1, <1>2

\* strip_skill_audit, line by line.
IsStripping(run, plan) ==
    /\ run[0] = Outset
    /\ \A i \in 0..Len(plan) : run[i] \in Passing
    /\ \A i \in 1..Len(plan) : run[i] = PastLine(run[i - 1], plan[i], Enders)
    /\ StripSkillAudit(plan) = run[Len(plan)].kept

LEMMA StrippingRuns ==
    ASSUME NEW plan \in Seq(Lines)
    PROVE  \E run : IsStripping(run, plan)
<1> DEFINE n == Len(plan)
           h == [i \in 1..n |-> [v \in Passing |-> PastLine(v, plan[i], Enders)]]
           IsFold(f) == f = [u \in SUBSET (1..n) |->
                                IF u = {} THEN Outset
                                ELSE PastLine(f[u \ {Max(u)}], plan[Max(u)], Enders)]
           fold == CHOOSE f : IsFold(f)
<1>1. /\ DOMAIN plan = 1..n /\ n \in Nat /\ \A i \in 1..n : plan[i] \in Lines
      /\ Outset \in Passing
  BY DEF Passing, Outset
<1>2. \A i \in 1..n : \A v \in Passing : /\ h[i][v] = PastLine(v, plan[i], Enders)
                                        /\ h[i][v] \in Passing
  BY <1>1, PastLineType
<1>3. PICK f : f \in [SUBSET (1..n) -> Passing] /\ Folding(f, n, Outset, h)
  <2>1. \A i \in 1..n : \A v \in Passing : h[i][v] \in Passing
    BY <1>2
  <2> HIDE DEF h, n
  <2>2. QED BY <1>1, <2>1, FoldExists
<1>4. IsFold(f)
  <2>1. ASSUME NEW u \in SUBSET (1..n), u # {}
        PROVE  Max(u) \in 1..n /\ f[u \ {Max(u)}] \in Passing
    BY <1>1, <1>3, <2>1, MaxIsThere
  <2> HIDE DEF h
  <2>2. QED BY <1>2, <1>3, <2>1 DEF Folding
<1>5. IsFold(fold)
  <2> HIDE DEF IsFold
  <2>1. QED BY <1>4
<1>6. StripSkillAudit(plan) = fold[1..n].kept
  BY <1>1 DEF StripSkillAudit, Outside, FoldLeft, MapThenFoldSet, Outset, Enders
<1> DEFINE run == [i \in 0..n |-> fold[1..i]]
<1>7. run[0] = Outset
  <2>1. 1..0 = {} /\ 1..0 \in SUBSET (1..n) /\ 0 \in 0..n
    BY <1>1
  <2> HIDE DEF fold
  <2>2. QED BY <1>5, <2>1
<1>8. ASSUME NEW i \in 1..n PROVE run[i] = PastLine(run[i - 1], plan[i], Enders)
  <2>1. i \in 0..n /\ i - 1 \in 0..n
    BY <1>1
  <2> HIDE DEF fold
  <2>2. 1..i \in SUBSET (1..n) /\ 1..i # {} /\ Max(1..i) = i /\ (1..i) \ {i} = 1..(i - 1)
    BY <1>1, Prefixed
  <2>3. fold[1..i] = PastLine(fold[(1..i) \ {i}], plan[i], Enders)
    BY <1>5, <2>2
  <2>4. QED BY <2>1, <2>2, <2>3
<1>9. run[n] = fold[1..n]
  BY <1>1
<1> HIDE DEF run
<1> DEFINE I == {i \in 0..n : run[i] \in Passing}
<1>10. 0 \in I
  BY <1>1, <1>7
<1>11. ASSUME NEW i \in 1..n, i - 1 \in I PROVE i \in I
  BY <1>1, <1>8, <1>11, PastLineType
<1>12. 0..n \subseteq I
  <2> HIDE DEF I
  <2>1. QED BY <1>1, <1>10, <1>11, LoopInduction
<1>13. \A i \in 0..n : run[i] \in Passing
  BY <1>12
<1>14. IsStripping(run, plan)
  <2> HIDE DEF fold
  <2>1. QED BY <1>6, <1>7, <1>8, <1>9, <1>13 DEF IsStripping
<1>15. QED BY <1>14

\* A plan into which d lines of an audit were pasted after its first k lines.
IsPasted(pasted, plan, k, d) ==
    /\ pasted \in Seq(Lines) /\ Len(pasted) = Len(plan) + d
    /\ \A i \in 1..k : pasted[i] = plan[i]
    /\ pasted[k + 1] = "audit"
    /\ \A i \in k + 2..k + d : pasted[i] = "prose"
    /\ \A i \in k + 1..Len(plan) : pasted[i + d] = plan[i]

\* The audit ends where it was pasted: at the end, or before a heading.
Fits(plan, k) == k = Len(plan) \/ plan[k + 1] \in Headings

\* Retrieval sees the same plan.
LEMMA StrippedPasted ==
    ASSUME NEW plan \in Seq(Lines), NEW k \in 0..Len(plan), NEW d \in Nat \ {0},
           NEW pasted, IsPasted(pasted, plan, k, d), Fits(plan, k)
    PROVE  StripSkillAudit(pasted) = StripSkillAudit(plan)
<1> DEFINE n == Len(plan)
<1>1. n \in Nat /\ k \in Nat /\ k <= n /\ d \in Nat /\ d >= 1
  OBVIOUS
<1>2. PICK p : IsStripping(p, plan)
  BY StrippingRuns
<1>3. PICK q : IsStripping(q, pasted)
  BY StrippingRuns DEF IsPasted
<1>4. /\ p[0] = Outset /\ (\A i \in 0..n : p[i] \in Passing)
      /\ \A i \in 1..n : p[i] = PastLine(p[i - 1], plan[i], Enders)
      /\ StripSkillAudit(plan) = p[n].kept
  BY <1>2 DEF IsStripping
<1>5. /\ q[0] = Outset /\ (\A i \in 0..n + d : q[i] \in Passing)
      /\ \A i \in 1..n + d : q[i] = PastLine(q[i - 1], pasted[i], Enders)
      /\ StripSkillAudit(pasted) = q[n + d].kept
  BY <1>3 DEF IsStripping, IsPasted
<1> HIDE DEF n
\* Up to the audit nothing differs.
<1>6. q[k] = p[k]
  <2> DEFINE I == {i \in 0..k : q[i] = p[i]}
  <2>1. 0 \in I
    BY <1>1, <1>4, <1>5
  <2>2. ASSUME NEW i \in 1..k, i - 1 \in I PROVE i \in I
    <3>1. i \in 1..n /\ i \in 1..n + d /\ i \in 0..k /\ pasted[i] = plan[i]
      BY <1>1 DEF IsPasted
    <3>2. QED BY <1>4, <1>5, <2>2, <3>1
  <2>3. k \in I
    <3> HIDE DEF I
    <3>1. QED BY <1>1, <2>1, <2>2, LoopInduction
  <2>4. QED BY <2>3
\* Within it nothing is kept.
<1>7. q[k + d].skip /\ q[k + d].kept = p[k].kept
  <2> DEFINE I == {j \in 0..d : j # 0 => q[k + j].skip /\ q[k + j].kept = p[k].kept}
  <2>1. 0 \in I
    BY <1>1
  <2>2. ASSUME NEW j \in 1..d, j - 1 \in I PROVE j \in I
    <3>1. k + j \in 1..n + d /\ (k + j) - 1 = k + (j - 1) /\ j \in 0..d
      BY <1>1
    <3>2. q[k + j] = PastLine(q[k + (j - 1)], pasted[k + j], Enders)
      BY <1>5, <3>1
    <3>3. CASE j = 1
      <4>1. k + (j - 1) = k /\ pasted[k + j] = "audit"
        BY <1>1, <3>3 DEF IsPasted
      <4>2. q[k + j] = PastLine(p[k], "audit", Enders)
        BY <1>6, <3>2, <4>1
      <4>3. PastLine(p[k], "audit", Enders) = [skip |-> TRUE, kept |-> p[k].kept]
        BY DEF PastLine, Enders, Headings
      <4>4. q[k + j].skip /\ q[k + j].kept = p[k].kept
        BY <4>2, <4>3
      <4>5. QED BY <3>1, <4>4
    <3>4. CASE j # 1
      <4>1. k + j \in k + 2..k + d /\ j - 1 # 0
        BY <1>1, <3>4
      <4>2. pasted[k + j] = "prose"
        BY <4>1 DEF IsPasted
      <4>3. q[k + (j - 1)].skip /\ q[k + (j - 1)].kept = p[k].kept
        BY <2>2, <4>1
      <4>4. q[k + j].skip /\ q[k + j].kept = p[k].kept
        BY <3>2, <4>2, <4>3 DEF PastLine, Enders, Headings
      <4>5. QED BY <3>1, <4>4
    <3>5. QED BY <3>3, <3>4
  <2>3. d \in I
    <3> HIDE DEF I
    <3>1. QED BY <1>1, <2>1, <2>2, LoopInduction
  <2>4. QED BY <1>1, <2>3
\* A heading ends it, from where nothing differs again.
<1>8. q[n + d].kept = p[n].kept
  <2>1. CASE k = n
    BY <1>7, <2>1
  <2>2. CASE k # n
    <3> DEFINE I == {j \in 0..n - k : j # 0 => q[k + j + d] = p[k + j]}
    <3>1. 0 \in I
      BY <1>1
    <3>2. ASSUME NEW j \in 1..n - k, j - 1 \in I PROVE j \in I
      <4>1. /\ k + j \in 1..n /\ k + j + d \in 1..n + d /\ k + j \in k + 1..n
            /\ (k + j) - 1 = k + (j - 1) /\ (k + j + d) - 1 = k + (j - 1) + d
            /\ j \in 0..n - k
        BY <1>1
      <4>2. pasted[k + j + d] = plan[k + j]
        BY <4>1 DEF IsPasted, n
      <4>3. /\ p[k + j] = PastLine(p[k + (j - 1)], plan[k + j], Enders)
            /\ q[k + j + d] = PastLine(q[k + (j - 1) + d], plan[k + j], Enders)
        BY <1>4, <1>5, <4>1, <4>2
      <4>4. CASE j = 1
        <5>1. k + (j - 1) = k /\ plan[k + j] \in Headings
          BY <1>1, <2>2, <4>4 DEF Fits, n
        <5>2. q[k + (j - 1) + d].kept = p[k + (j - 1)].kept
          BY <1>7, <5>1
        <5>3. q[k + j + d] = p[k + j]
          BY <4>3, <5>1, <5>2 DEF PastLine, Enders
        <5>4. QED BY <4>1, <5>3
      <4>5. CASE j # 1
        <5>1. q[k + (j - 1) + d] = p[k + (j - 1)]
          BY <1>1, <3>2, <4>5
        <5>2. QED BY <4>1, <4>3, <5>1
      <4>6. QED BY <4>4, <4>5
    <3>3. n - k \in I
      <4> HIDE DEF I
      <4>1. n - k \in Nat
        BY <1>1
      <4>2. QED BY <3>1, <3>2, <4>1, LoopInduction
    <3>4. n - k # 0 /\ k + (n - k) = n /\ k + (n - k) + d = n + d
      BY <1>1, <2>2
    <3>5. QED BY <3>3, <3>4
  <2>3. QED BY <2>1, <2>2
<1>9. QED BY <1>4, <1>5, <1>8

\* Where a plan's section on its files begins (after line a) and ends (with
\* line b).
IsSection(plan, a, b) ==
    /\ a \in 1..Len(plan) /\ plan[a] = "files" /\ \A i \in 1..a - 1 : plan[i] # "files"
    /\ b \in a..Len(plan) /\ \A i \in a + 1..b : plan[i] \notin Headings
    /\ b = Len(plan) \/ plan[b + 1] \in Headings

\* The first entry of a list that is one of some, or 0.
FirstIn(s, those) ==
    LET I == {i \in 1..Len(s) : s[i] \in those} IN IF I # {} THEN Min(I) ELSE 0

LEMMA FirstInFacts ==
    ASSUME NEW S, NEW s \in Seq(S), NEW those
    PROVE  LET m == FirstIn(s, those)
           IN  \/ m = 0 /\ \A i \in 1..Len(s) : s[i] \notin those
               \/ m \in 1..Len(s) /\ s[m] \in those /\ \A i \in 1..m - 1 : s[i] \notin those
<1> DEFINE I == {i \in 1..Len(s) : s[i] \in those}
           m == FirstIn(s, those)
<1>1. CASE I = {}
  BY <1>1 DEF FirstIn
<1>2. CASE I # {}
  <2>1. I \subseteq Nat
    OBVIOUS
  <2>2. m = Min(I)
    BY <1>2 DEF FirstIn
  <2> HIDE DEF I, m
  <2>3. m \in I /\ \A i \in I : m <= i
    BY <1>2, <2>1, <2>2, MinIsThere
  <2> USE DEF I
  <2>4. \A i \in 1..m - 1 : s[i] \notin those
    BY <2>3
  <2>5. m \in 1..Len(s) /\ s[m] \in those
    BY <2>3
  <2>6. QED BY <2>4, <2>5 DEF m
<1>3. QED BY <1>1, <1>2

\* What _section_lines returns.
LEMMA SectionIs ==
    ASSUME NEW plan \in Seq(Lines), NEW a, NEW b, IsSection(plan, a, b)
    PROVE  Contains(plan, "files") /\ SectionLines(plan) = SubSeq(plan, a + 1, b)
<1> DEFINE n == Len(plan)
           A == {i \in 1..n : plan[i] = "files"}
           start == IF A # {} THEN Min(A) ELSE 0
           rest == SubSeq(plan, start + 1, n)
           H == {i \in 1..Len(rest) : rest[i] \in Headings}
           stop == IF H # {} THEN Min(H) ELSE 0
<1>1. n \in Nat /\ a \in 1..n /\ b \in a..n /\ Contains(plan, "files")
  BY DEF IsSection, Contains
<1>2. SectionLines(plan) = IF stop = 0 THEN rest ELSE SubSeq(rest, 1, stop - 1)
  BY DEF SectionLines, SelectInSeq
<1>3. start = a
  <2>1. start = FirstIn(plan, {"files"})
    <3>1. A = {i \in 1..Len(plan) : plan[i] \in {"files"}}
      OBVIOUS
    <3>2. QED BY <3>1 DEF FirstIn
  <2> HIDE DEF start
  <2>2. \/ start = 0 /\ \A i \in 1..n : plan[i] \notin {"files"}
        \/ /\ start \in 1..n /\ plan[start] \in {"files"}
           /\ \A i \in 1..start - 1 : plan[i] \notin {"files"}
    BY <2>1, FirstInFacts
  <2>3. QED BY <1>1, <2>2 DEF IsSection
<1>4. /\ rest \in Seq(Lines) /\ Len(rest) = n - a
      /\ \A i \in 1..n - a : rest[i] = plan[a + i]
  <2> HIDE DEF start
  <2>1. QED BY <1>1, <1>3
<1>5. \/ stop = 0 /\ \A i \in 1..Len(rest) : rest[i] \notin Headings
      \/ /\ stop \in 1..Len(rest) /\ rest[stop] \in Headings
         /\ \A i \in 1..stop - 1 : rest[i] \notin Headings
  <2>1. stop = FirstIn(rest, Headings)
    BY DEF FirstIn
  <2> HIDE DEF rest, stop
  <2>2. QED BY <1>4, <2>1, FirstInFacts
<1> HIDE DEF stop, rest
<1>6. CASE stop = 0
  <2>1. b = n
    <3>1. SUFFICES ASSUME b # n PROVE FALSE
      OBVIOUS
    <3>2. b + 1 - a \in 1..n - a /\ a + (b + 1 - a) = b + 1
      BY <1>1, <3>1
    <3>3. rest[b + 1 - a] = plan[b + 1]
      BY <1>4, <3>2
    <3>4. QED BY <1>4, <1>5, <1>6, <3>1, <3>2, <3>3 DEF IsSection
  <2>2. rest = SubSeq(plan, a + 1, b)
    BY <1>1, <1>3, <2>1 DEF rest
  <2>3. QED BY <1>1, <1>2, <1>6, <2>2
<1>7. CASE stop # 0
  <2>1. stop \in 1..n - a /\ plan[a + stop] \in Headings
        /\ \A i \in 1..stop - 1 : plan[a + i] \notin Headings
    BY <1>1, <1>4, <1>5, <1>7
  <2>2. stop - 1 = b - a
    <3>1. ~(a + stop <= b)
      <4>1. a + stop <= b => a + stop \in a + 1..b
        BY <1>1, <2>1
      <4>2. QED BY <2>1, <4>1 DEF IsSection
    <3>2. ~(b + 1 < a + stop)
      <4>1. SUFFICES ASSUME b + 1 < a + stop PROVE FALSE
        OBVIOUS
      <4>2. b + 1 - a \in 1..stop - 1 /\ a + (b + 1 - a) = b + 1 /\ b # n
        BY <1>1, <2>1, <4>1
      <4>3. plan[b + 1] \notin Headings
        BY <2>1, <4>2
      <4>4. QED BY <4>2, <4>3 DEF IsSection
    <3>3. QED BY <1>1, <2>1, <3>1, <3>2
  <2>3. SubSeq(rest, 1, stop - 1) = SubSeq(plan, a + 1, b)
    <3>1. /\ SubSeq(rest, 1, stop - 1) \in Seq(Lines)
          /\ Len(SubSeq(rest, 1, stop - 1)) = b - a
          /\ \A i \in 1..b - a : SubSeq(rest, 1, stop - 1)[i] = plan[a + i]
      BY <1>1, <1>4, <2>1, <2>2
    <3>2. /\ SubSeq(plan, a + 1, b) \in Seq(Lines)
          /\ Len(SubSeq(plan, a + 1, b)) = b - a
          /\ \A i \in 1..b - a : SubSeq(plan, a + 1, b)[i] = plan[a + i]
      BY <1>1
    <3>3. QED BY <1>1, <3>1, <3>2
  <2>4. QED BY <1>1, <1>2, <1>7, <2>3
<1>8. QED BY <1>6, <1>7

\* A plan that has the section has it once, as far as the parser is concerned.
LEMMA SectionExists ==
    ASSUME NEW plan \in Seq(Lines), Contains(plan, "files")
    PROVE  \E a, b : IsSection(plan, a, b)
<1> DEFINE n == Len(plan)
           A == {i \in 1..n : plan[i] = "files"}
           a == Min(A)
           B == {i \in a..n : i = n \/ plan[i + 1] \in Headings}
           b == Min(B)
<1>1. n \in Nat /\ A # {} /\ A \subseteq Nat
  BY DEF Contains
<1>2. a \in A /\ \A i \in A : a <= i
  <2> HIDE DEF A
  <2>1. QED BY <1>1, MinIsThere
<1>3. n \in B /\ B \subseteq Nat
  <2> HIDE DEF a
  <2>1. QED BY <1>1, <1>2
<1>4. b \in B /\ \A i \in B : b <= i
  <2> HIDE DEF B
  <2>1. QED BY <1>3, MinIsThere
<1> HIDE DEF a, b
<1>5. /\ a \in 1..n /\ plan[a] = "files" /\ \A i \in 1..a - 1 : plan[i] # "files"
  <2>1. ASSUME NEW i \in 1..a - 1 PROVE plan[i] # "files"
    <3>1. i \in 1..n /\ ~(a <= i)
      BY <1>1, <1>2, <2>1
    <3>2. QED BY <1>2, <3>1
  <2>2. QED BY <1>2, <2>1
<1>6. b \in a..n /\ (b = n \/ plan[b + 1] \in Headings)
  BY <1>4
<1>7. ASSUME NEW i \in a + 1..b PROVE plan[i] \notin Headings
  <2>1. i - 1 \in a..n /\ (i - 1) + 1 = i /\ ~(b <= i - 1)
    BY <1>1, <1>5, <1>6
  <2>2. i - 1 \notin B
    BY <1>4, <2>1
  <2>3. QED BY <2>1, <2>2
<1>8. IsSection(plan, a, b)
  BY <1>5, <1>6, <1>7 DEF IsSection
<1>9. QED BY <1>8

\* Line by line, a plan and what the audit was pasted into.
LEMMA PastedLines ==
    ASSUME NEW plan \in Seq(Lines), NEW k \in 0..Len(plan), NEW d \in Nat \ {0},
           NEW pasted, IsPasted(pasted, plan, k, d)
    PROVE  /\ \A i \in 1..Len(plan) + d :
                \/ i <= k /\ i \in 1..Len(plan) /\ pasted[i] = plan[i]
                \/ i > k /\ i <= k + d /\ pasted[i] \in {"audit", "prose"}
                \/ i > k + d /\ i - d \in 1..Len(plan) /\ pasted[i] = plan[i - d]
           /\ \A i \in 1..Len(plan) : /\ i <= k => pasted[i] = plan[i]
                                      /\ i > k => pasted[i + d] = plan[i]
<1> DEFINE n == Len(plan)
<1>1. n \in Nat /\ k \in Nat /\ k <= n /\ d \in Nat /\ d >= 1
  OBVIOUS
<1>2. /\ \A i \in 1..k : pasted[i] = plan[i]
      /\ pasted[k + 1] = "audit"
      /\ \A i \in k + 2..k + d : pasted[i] = "prose"
      /\ \A i \in k + 1..n : pasted[i + d] = plan[i]
  BY DEF IsPasted
<1> HIDE DEF n
<1>3. \A i \in 1..n : /\ i <= k => pasted[i] = plan[i]
                      /\ i > k => pasted[i + d] = plan[i]
  BY <1>1, <1>2
<1>4. ASSUME NEW i \in 1..n + d
      PROVE  \/ i <= k /\ i \in 1..n /\ pasted[i] = plan[i]
             \/ i > k /\ i <= k + d /\ pasted[i] \in {"audit", "prose"}
             \/ i > k + d /\ i - d \in 1..n /\ pasted[i] = plan[i - d]
  <2>1. CASE i <= k
    BY <1>1, <1>3, <2>1
  <2>2. CASE i > k /\ i <= k + d
    <3>1. i = k + 1 \/ i \in k + 2..k + d
      BY <1>1, <2>2
    <3>2. QED BY <1>2, <2>2, <3>1
  <2>3. CASE i > k + d
    <3>1. i - d \in 1..n /\ i - d > k /\ (i - d) + d = i
      BY <1>1, <2>3
    <3>2. QED BY <1>3, <2>3, <3>1
  <2>4. QED BY <1>1, <2>1, <2>2, <2>3
<1>5. QED BY <1>3, <1>4 DEF n

\* The same stretch of two plans, d lines further down in the one.
LEMMA SameStretch ==
    ASSUME NEW s \in Seq(Lines), NEW t \in Seq(Lines), NEW a \in Nat, NEW b \in Nat,
           NEW d \in Nat, a <= b, b <= Len(s), b + d <= Len(t),
           \A i \in a + 1..b : t[i + d] = s[i]
    PROVE  SubSeq(t, a + d + 1, b + d) = SubSeq(s, a + 1, b)
<1>1. PICK u \in Seq(Lines) : u = SubSeq(t, a + d + 1, b + d)
  <2>1. a + d + 1 \in Nat \ {0} /\ b + d \in Nat
    OBVIOUS
  <2>2. SubSeq(t, a + d + 1, b + d) \in Seq(Lines)
    BY <2>1, Stretch
  <2>3. QED BY <2>2
<1>2. PICK v \in Seq(Lines) : v = SubSeq(s, a + 1, b)
  <2>1. a + 1 \in Nat \ {0}
    OBVIOUS
  <2>2. SubSeq(s, a + 1, b) \in Seq(Lines)
    BY <2>1, Stretch
  <2>3. QED BY <2>2
<1>3. Len(u) = b - a /\ \A j \in 1..b - a : u[j] = t[a + j + d]
  <2>1. Len(u) = b - a
    BY <1>1
  <2>2. ASSUME NEW j \in 1..b - a PROVE u[j] = t[a + j + d]
    <3>1. a + d + 1 + j - 1 = a + j + d /\ j \in 1..(b + d) - (a + d + 1) + 1
      OBVIOUS
    <3>2. u[j] = t[a + d + 1 + j - 1]
      <4> DEFINE from == a + d + 1
                 to == b + d
      <4>1. from \in Nat \ {0} /\ to \in Nat /\ to <= Len(t) /\ j \in 1..to - from + 1
        BY <3>1
      <4> HIDE DEF from, to
      <4>2. SubSeq(t, from, to)[j] = t[from + j - 1]
        BY <4>1
      <4>3. QED BY <1>1, <4>2 DEF from, to
    <3>3. QED BY <3>1, <3>2
  <2>3. QED BY <2>1, <2>2
<1>4. Len(v) = b - a /\ \A j \in 1..b - a : v[j] = s[a + j]
  BY <1>2
<1>5. \A j \in 1..b - a : a + j \in a + 1..b
  OBVIOUS
<1>6. \A j \in 1..b - a : u[j] = v[j]
  BY <1>3, <1>4, <1>5
<1>7. u = v
  BY <1>3, <1>4, <1>6, SameEntries
<1>8. QED BY <1>1, <1>2, <1>7

\* The section on the files is the same.
LEMMA SectionPasted ==
    ASSUME NEW plan \in Seq(Lines), NEW k \in 0..Len(plan), NEW d \in Nat \ {0},
           NEW pasted, IsPasted(pasted, plan, k, d), Fits(plan, k)
    PROVE  /\ Contains(pasted, "files") <=> Contains(plan, "files")
           /\ Contains(plan, "files") => SectionLines(pasted) = SectionLines(plan)
<1> DEFINE n == Len(plan)
<1>1. n \in Nat /\ k \in Nat /\ k <= n /\ d \in Nat /\ d >= 1
      /\ pasted \in Seq(Lines) /\ Len(pasted) = n + d
  BY DEF IsPasted
<1>2. /\ \A i \in 1..n + d :
            \/ i <= k /\ i \in 1..n /\ pasted[i] = plan[i]
            \/ i > k /\ i <= k + d /\ pasted[i] \in {"audit", "prose"}
            \/ i > k + d /\ i - d \in 1..n /\ pasted[i] = plan[i - d]
      /\ \A i \in 1..n : /\ i <= k => pasted[i] = plan[i]
                         /\ i > k => pasted[i + d] = plan[i]
  BY PastedLines
<1>3. k # n => plan[k + 1] \in Headings
  BY DEF Fits
<1>4. pasted[k + 1] = "audit"
  BY DEF IsPasted
<1>5. Contains(pasted, "files") <=> Contains(plan, "files")
  <2> HIDE DEF n
  <2>1. \A i \in 1..n + d : pasted[i] = "files" => \E j \in 1..n : plan[j] = "files"
    BY <1>2
  <2>2. \A j \in 1..n : plan[j] = "files" => \E i \in 1..n + d : pasted[i] = "files"
    <3>1. \A j \in 1..n : j \in 1..n + d /\ j + d \in 1..n + d
      BY <1>1
    <3>2. QED BY <1>1, <1>2, <3>1
  <2>3. QED BY <1>1, <2>1, <2>2 DEF Contains, n
<1>6. ASSUME Contains(plan, "files") PROVE SectionLines(pasted) = SectionLines(plan)
  <2>1. PICK a, b : IsSection(plan, a, b)
    BY <1>6, SectionExists
  <2>2. /\ a \in 1..n /\ plan[a] = "files" /\ \A i \in 1..a - 1 : plan[i] # "files"
        /\ b \in a..n /\ \A i \in a + 1..b : plan[i] \notin Headings
        /\ b = n \/ plan[b + 1] \in Headings
    BY <2>1 DEF IsSection
  <2>3. SectionLines(plan) = SubSeq(plan, a + 1, b)
    BY <2>1, SectionIs
  <2> HIDE DEF n
  <2>4. CASE b <= k
    <3>1. a \in 1..n + d /\ b \in a..n + d /\ a <= k
      BY <1>1, <2>2, <2>4
    <3>2. pasted[a] = "files"
      BY <1>2, <2>2, <3>1
    <3>3. \A i \in 1..a - 1 : i \in 1..n /\ i <= k
      BY <1>1, <2>2, <3>1
    <3>4. \A i \in 1..a - 1 : pasted[i] # "files"
      BY <1>2, <2>2, <3>3
    <3>5. \A i \in a + 1..b : i \in 1..n /\ i <= k
      BY <1>1, <2>2, <2>4
    <3>6. \A i \in a + 1..b : pasted[i] = plan[i]
      BY <1>2, <3>5
    <3>7. pasted[b + 1] \in Headings
      <4>1. CASE b = k
        BY <1>4, <4>1 DEF Headings
      <4>2. CASE b # k
        <5>1. b + 1 \in 1..n /\ b + 1 <= k /\ b # n
          BY <1>1, <2>2, <2>4, <4>2
        <5>2. QED BY <1>2, <2>2, <5>1
      <4>3. QED BY <4>1, <4>2
    <3>8. IsSection(pasted, a, b)
      BY <1>1, <2>2, <3>1, <3>2, <3>4, <3>6, <3>7 DEF IsSection
    <3>9. SectionLines(pasted) = SubSeq(pasted, a + 1, b)
      BY <1>1, <3>8, SectionIs
    <3>10. SubSeq(pasted, a + 0 + 1, b + 0) = SubSeq(plan, a + 1, b)
      <4>1. a \in Nat /\ b \in Nat /\ a <= b /\ b <= Len(plan) /\ b + 0 <= Len(pasted)
        BY <1>1, <2>2 DEF n
      <4>2. \A i \in a + 1..b : pasted[i + 0] = plan[i]
        BY <1>1, <2>2, <3>6
      <4>3. QED BY <1>1, <4>1, <4>2, SameStretch
    <3>11. a + 0 + 1 = a + 1 /\ b + 0 = b
      BY <1>1, <2>2
    <3>12. QED BY <2>3, <3>9, <3>10, <3>11
  <2>5. CASE a <= k /\ k < b
    <3>1. k + 1 \in a + 1..b /\ k # n
      BY <1>1, <2>2, <2>5
    <3>2. QED BY <1>3, <2>2, <3>1
  <2>6. CASE k < a
    <3>1. a + d \in 1..n + d /\ b + d \in a + d..n + d /\ b > k
      BY <1>1, <2>2, <2>6
    <3>2. pasted[a + d] = "files"
      BY <1>2, <2>2, <2>6
    <3>3. ASSUME NEW i \in 1..(a + d) - 1 PROVE pasted[i] # "files"
      <4>1. i \in 1..n + d /\ (i <= k => i \in 1..a - 1)
            /\ (i > k + d => i - d \in 1..a - 1)
        BY <1>1, <2>2, <2>6
      <4>2. QED BY <1>2, <2>2, <4>1
    <3>4. \A i \in a + 1..b : i \in 1..n /\ i > k
      BY <1>1, <2>2, <2>6
    <3>5. \A i \in a + 1..b : pasted[i + d] = plan[i]
      BY <1>2, <3>4
    <3>6. ASSUME NEW i \in (a + d) + 1..b + d PROVE pasted[i] \notin Headings
      <4>1. i - d \in a + 1..b /\ (i - d) + d = i
        BY <1>1, <2>2
      <4>2. pasted[i] = plan[i - d]
        BY <3>5, <4>1
      <4>3. QED BY <2>2, <4>1, <4>2
    <3>7. b + d = n + d \/ pasted[(b + d) + 1] \in Headings
      <4>1. CASE b = n
        BY <4>1
      <4>2. CASE b # n
        <5>1. b + 1 \in 1..n /\ b + 1 > k /\ (b + 1) + d = (b + d) + 1
          BY <1>1, <2>2, <3>1, <4>2
        <5>2. QED BY <1>2, <2>2, <4>2, <5>1
      <4>3. QED BY <4>1, <4>2
    <3>8. IsSection(pasted, a + d, b + d)
      BY <1>1, <3>1, <3>2, <3>3, <3>6, <3>7 DEF IsSection
    <3>9. SectionLines(pasted) = SubSeq(pasted, a + d + 1, b + d)
      BY <1>1, <3>8, SectionIs
    <3>10. SubSeq(pasted, a + d + 1, b + d) = SubSeq(plan, a + 1, b)
      <4>1. a \in Nat /\ b \in Nat /\ a <= b /\ b <= Len(plan) /\ b + d <= Len(pasted)
        BY <1>1, <2>2 DEF n
      <4>2. QED BY <1>1, <3>5, <4>1, SameStretch
    <3>11. QED BY <2>3, <3>9, <3>10
  <2>7. QED BY <1>1, <2>2, <2>4, <2>5, <2>6
<1>7. QED BY <1>5, <1>6

\* So the manifest is.
LEMMA ManifestPasted ==
    ASSUME NEW plan \in Seq(Lines), NEW k \in 0..Len(plan), NEW d \in Nat \ {0},
           NEW pasted, IsPasted(pasted, plan, k, d), Fits(plan, k)
    PROVE  ParseFilesToTouch(pasted) = ParseFilesToTouch(plan)
<1>1. /\ Contains(pasted, "files") <=> Contains(plan, "files")
      /\ Contains(plan, "files") => SectionLines(pasted) = SectionLines(plan)
  BY SectionPasted
<1>2. QED BY <1>1 DEF ParseFilesToTouch

\* What the planner pastes.
LEMMA AuditFacts ==
    ASSUME NEW matches \in Nat
    PROVE  /\ SkillAudit(matches) \in Seq(Lines) /\ Len(SkillAudit(matches)) = matches + 3
           /\ SkillAudit(matches)[1] = "audit"
           /\ \A i \in 2..matches + 3 : SkillAudit(matches)[i] = "prose"
<1> DEFINE rows == [k \in 1..matches + 2 |-> "prose"]
<1>1. "audit" \in Lines /\ "prose" \in Lines
  BY DEF Lines, Headings
<1>2. rows \in Seq(Lines) /\ Len(rows) = matches + 2
      /\ \A i \in 1..matches + 2 : rows[i] = "prose"
  BY <1>1
<1>3. <<"audit">> \in Seq(Lines) /\ Len(<<"audit">>) = 1 /\ <<"audit">>[1] = "audit"
  BY <1>1
<1> HIDE DEF rows
<1>4. SkillAudit(matches) = <<"audit">> \o rows
  BY DEF SkillAudit, rows
<1>5. PICK head \in Seq(Lines) : head = <<"audit">>
  BY <1>3
<1>6. head \o rows \in Seq(Lines) /\ Len(head \o rows) = matches + 3
      /\ (head \o rows)[1] = "audit"
      /\ \A i \in 2..matches + 3 : (head \o rows)[i] = "prose"
  BY <1>2, <1>3, <1>5
<1>7. QED BY <1>4, <1>5, <1>6

\* Where it is pasted.
LEMMA PastedIs ==
    ASSUME NEW plan \in Seq(Lines), NEW k \in 0..Len(plan), NEW matches \in Nat
    PROVE  LET pasted == SubSeq(plan, 1, k) \o SkillAudit(matches)
                         \o SubSeq(plan, k + 1, Len(plan))
           IN  IsPasted(pasted, plan, k, matches + 3)
<1> DEFINE n == Len(plan)
           d == matches + 3
<1>1. n \in Nat /\ k \in Nat /\ k <= n /\ d \in Nat /\ d >= 1
  OBVIOUS
<1>2. PICK audit \in Seq(Lines) :
        /\ audit = SkillAudit(matches) /\ Len(audit) = d /\ audit[1] = "audit"
        /\ \A i \in 2..d : audit[i] = "prose"
  BY AuditFacts
<1>3. PICK before \in Seq(Lines) :
        /\ before = SubSeq(plan, 1, k) /\ Len(before) = k
        /\ \A i \in 1..k : before[i] = plan[i]
  <2>1. SubSeq(plan, 1, k) \in Seq(Lines)
    BY <1>1, Stretch
  <2>2. Len(SubSeq(plan, 1, k)) = k /\ \A i \in 1..k : SubSeq(plan, 1, k)[i] = plan[i]
    BY <1>1
  <2>3. QED BY <2>1, <2>2
<1>4. PICK after \in Seq(Lines) :
        /\ after = SubSeq(plan, k + 1, n) /\ Len(after) = n - k
        /\ \A i \in 1..n - k : after[i] = plan[k + i]
  <2>1. k + 1 \in Nat \ {0} /\ n \in Nat /\ n <= Len(plan)
    BY <1>1
  <2>2. SubSeq(plan, k + 1, n) \in Seq(Lines)
    BY <2>1, Stretch
  <2>3. Len(SubSeq(plan, k + 1, n)) = n - k
        /\ \A i \in 1..n - k : SubSeq(plan, k + 1, n)[i] = plan[k + i]
    BY <1>1
  <2>4. QED BY <2>2, <2>3
<1> HIDE DEF n, d
<1>5. PICK front \in Seq(Lines) :
        /\ front = before \o audit /\ Len(front) = k + d
        /\ \A i \in 1..k : front[i] = before[i]
        /\ \A i \in 1..d : front[k + i] = audit[i]
  <2>1. /\ before \o audit \in Seq(Lines)
        /\ Len(before \o audit) = Len(before) + Len(audit)
        /\ \A i \in 1..Len(before) : (before \o audit)[i] = before[i]
        /\ \A i \in 1..Len(audit) : (before \o audit)[Len(before) + i] = audit[i]
    BY Joined
  <2>2. Len(before) = k /\ Len(audit) = d
    BY <1>2, <1>3
  <2>3. PICK front \in Seq(Lines) : front = before \o audit
    BY <2>1
  <2>4. QED BY <2>1, <2>2, <2>3
<1>6. PICK pasted \in Seq(Lines) :
        /\ pasted = front \o after /\ Len(pasted) = n + d
        /\ \A i \in 1..k : pasted[i] = before[i]
        /\ \A i \in 1..d : pasted[k + i] = audit[i]
        /\ \A i \in 1..n - k : pasted[k + d + i] = after[i]
  <2>1. PICK whole \in Seq(Lines) :
        /\ whole = front \o after /\ Len(whole) = k + d + (n - k)
        /\ \A i \in 1..k + d : whole[i] = front[i]
        /\ \A i \in 1..n - k : whole[k + d + i] = after[i]
    <3>1. /\ front \o after \in Seq(Lines)
          /\ Len(front \o after) = Len(front) + Len(after)
          /\ \A i \in 1..Len(front) : (front \o after)[i] = front[i]
          /\ \A i \in 1..Len(after) : (front \o after)[Len(front) + i] = after[i]
      BY Joined
    <3>2. Len(front) = k + d /\ Len(after) = n - k
      BY <1>4, <1>5
    <3>3. PICK whole \in Seq(Lines) : whole = front \o after
      BY <3>1
    <3>4. QED BY <3>1, <3>2, <3>3
  <2>2. k + d + (n - k) = n + d
    BY <1>1
  <2>3. \A i \in 1..k : i \in 1..k + d
    BY <1>1
  <2>4. \A i \in 1..d : k + i \in 1..k + d
    BY <1>1
  <2>5. \A i \in 1..k : whole[i] = before[i]
    BY <1>5, <2>1, <2>3
  <2>6. ASSUME NEW i \in 1..d PROVE whole[k + i] = audit[i]
    BY <1>5, <2>1, <2>4
  <2>7. Len(whole) = n + d
    BY <2>1, <2>2
  <2>8. QED BY <2>1, <2>5, <2>6, <2>7
<1>7. pasted[k + 1] = "audit"
  BY <1>1, <1>2, <1>6
<1>8. ASSUME NEW i \in k + 2..k + d PROVE pasted[i] = "prose"
  <2>1. i - k \in 2..d /\ i - k \in 1..d /\ k + (i - k) = i
    BY <1>1
  <2>2. pasted[k + (i - k)] = audit[i - k]
    BY <1>6, <2>1
  <2>3. audit[i - k] = "prose"
    BY <1>2, <2>1
  <2>4. QED BY <2>1, <2>2, <2>3
<1>9. ASSUME NEW i \in k + 1..n PROVE pasted[i + d] = plan[i]
  <2>1. i - k \in 1..n - k /\ k + (i - k) = i /\ k + d + (i - k) = i + d
    BY <1>1
  <2>2. pasted[k + d + (i - k)] = after[i - k] /\ after[i - k] = plan[k + (i - k)]
    BY <1>4, <1>6, <2>1
  <2>3. QED BY <2>1, <2>2
<1>10. IsPasted(pasted, plan, k, d)
  BY <1>3, <1>6, <1>7, <1>8, <1>9 DEF IsPasted, n
<1>11. pasted = SubSeq(plan, 1, k) \o SkillAudit(matches) \o SubSeq(plan, k + 1, Len(plan))
  BY <1>2, <1>3, <1>4, <1>5, <1>6 DEF n
<1>12. QED BY <1>10, <1>11 DEF d

\* An audit has no section of its own to retrieve for.
Sections == [heading : (Lines \ {"audit"}) \cup {"preamble"}, body : Seq(Lines)]

LEMMA WithSectionType ==
    ASSUME NEW done \in Seq(Sections) \ {<<>>}, NEW line \in Lines \ {"audit"}
    PROVE  WithSection(done, line) \in Seq(Sections) \ {<<>>}
<1>1. CASE line \in Headings \cup {"indented"}
  <2>1. PICK new \in Sections : new = [heading |-> line, body |-> <<>>]
    <3>1. PICK none \in Seq(Lines) : none = <<>>
      <4>1. <<>> \in Seq(Lines)
        OBVIOUS
      <4>2. QED BY <4>1, Zenon
    <3>2. [heading |-> line, body |-> none] \in Sections
      BY DEF Sections
    <3>3. QED BY <3>1, <3>2
  <2>2. Append(done, new) \in Seq(Sections) \ {<<>>}
    <3> HIDE DEF Sections
    <3>1. Append(done, new) \in Seq(Sections) /\ Len(Append(done, new)) = Len(done) + 1
      OBVIOUS
    <3>2. Len(done) \in Nat /\ Len(<<>>) = 0
      OBVIOUS
    <3>3. QED BY <3>1, <3>2
  <2>3. QED BY <1>1, <2>1, <2>2 DEF WithSection
<1>2. CASE line \notin Headings \cup {"indented"}
  <2> DEFINE n == Len(done)
  <2>1. n \in Nat /\ n \in 1..n /\ DOMAIN done = 1..n
    OBVIOUS
  <2>2. PICK last \in Sections : last = done[n]
    BY <2>1
  <2>3. Append(last.body, line) \in Seq(Lines)
    BY DEF Sections
  <2>4. PICK more \in Seq(Lines) : more = Append(last.body, line)
    BY <2>3
  <2>5. PICK new \in Sections : new = [last EXCEPT !.body = more]
    BY DEF Sections
  <2>6. WithSection(done, line) = [done EXCEPT ![n] = new]
    BY <1>2, <2>1, <2>2, <2>4, <2>5 DEF WithSection
  <2>7. [done EXCEPT ![n] = new] \in Seq(Sections) \ {<<>>}
    BY <2>1
  <2>8. QED BY <2>6, <2>7
<1>3. QED BY <1>1, <1>2

\* plan_sections goes through such lists when no line begins an audit.
LEMMA SectionsType ==
    ASSUME NEW plan \in Seq(Lines \ {"audit"})
    PROVE  \A s \in ToSet(PlanSections(plan)) : s \in Sections
<1> DEFINE n == Len(plan)
           V == Seq(Sections) \ {<<>>}
           base == <<[heading |-> "preamble", body |-> <<>>]>>
           all == FoldLeft(WithSection, base, plan)
           h == [i \in 1..n |-> [v \in V |-> WithSection(v, plan[i])]]
           IsFold(f) == f = [u \in SUBSET (1..n) |->
                                IF u = {} THEN base
                                ELSE WithSection(f[u \ {Max(u)}], plan[Max(u)])]
           fold == CHOOSE f : IsFold(f)
<1>1. DOMAIN plan = 1..n /\ n \in Nat /\ \A i \in 1..n : plan[i] \in Lines \ {"audit"}
  OBVIOUS
<1>2. base \in V
  <2>1. <<>> \in Seq(Lines)
    OBVIOUS
  <2>2. [heading |-> "preamble", body |-> <<>>] \in Sections
    BY <2>1 DEF Sections
  <2>3. PICK x \in Sections : x = [heading |-> "preamble", body |-> <<>>]
    BY <2>2
  <2>4. <<x>> \in Seq(Sections) /\ Len(<<x>>) = 1 /\ Len(<<>>) = 0
    OBVIOUS
  <2>5. QED BY <2>3, <2>4
<1> HIDE DEF V, base
<1>3. \A i \in 1..n : \A v \in V : WithSection(v, plan[i]) \in V
  BY <1>1, WithSectionType DEF V
<1>4. \A i \in 1..n : \A v \in V : /\ h[i][v] = WithSection(v, plan[i])
                                   /\ h[i][v] \in V
  BY <1>3
<1>5. PICK f : f \in [SUBSET (1..n) -> V] /\ Folding(f, n, base, h)
  <2> HIDE DEF h, n
  <2>1. QED BY <1>1, <1>2, <1>4, FoldExists
<1>6. IsFold(f)
  <2>1. ASSUME NEW u \in SUBSET (1..n), u # {}
        PROVE  Max(u) \in 1..n /\ f[u \ {Max(u)}] \in V
    BY <1>1, <1>5, <2>1, MaxIsThere
  <2> HIDE DEF h
  <2>2. QED BY <1>4, <1>5, <2>1 DEF Folding
<1>7. IsFold(fold)
  <2> HIDE DEF IsFold
  <2>1. QED BY <1>6
<1>8. all = fold[1..n]
  BY <1>1 DEF FoldLeft, MapThenFoldSet
<1> DEFINE I == {i \in 0..n : fold[1..i] \in V}
<1>9. 0 \in I
  <2>1. 1..0 = {} /\ 1..0 \in SUBSET (1..n) /\ 0 \in 0..n
    BY <1>1
  <2> HIDE DEF fold
  <2>2. QED BY <1>2, <1>7, <2>1
<1>10. ASSUME NEW i \in 1..n, i - 1 \in I PROVE i \in I
  <2>1. i \in 0..n
    BY <1>1
  <2> HIDE DEF fold
  <2>2. fold[1..i] = WithSection(fold[(1..i) \ {i}], plan[i])
    BY <1>1, <1>7, Prefixed
  <2>3. fold[(1..i) \ {i}] \in V
    BY <1>1, <1>10, Prefixed
  <2>4. QED BY <1>3, <2>1, <2>2, <2>3
<1>11. all \in Seq(Sections)
  <2> HIDE DEF I
  <2>1. n \in I
    BY <1>1, <1>9, <1>10, LoopInduction
  <2> USE DEF I
  <2>2. fold[1..n] \in V
    BY <2>1
  <2> HIDE DEF fold
  <2>3. QED BY <1>8, <2>2 DEF V
<1> HIDE DEF all
<1>12. PlanSections(plan) = Only(all, ToSet(all) \ {[heading |-> "preamble", body |-> <<>>]})
  BY DEF PlanSections, all, base
<1>13. PlanSections(plan) \in Seq(Sections)
  <2>1. PICK keep : PlanSections(plan) = Only(all, keep)
    BY <1>12
  <2>2. Only(all, keep) \in Seq(Sections \cap keep)
    BY <1>11, OnlyType
  <2>3. QED BY <2>1, <2>2
<1>14. PICK ps \in Seq(Sections) : ps = PlanSections(plan)
  BY <1>13
<1>15. \A s \in ToSet(ps) : s \in Sections
  <2> HIDE DEF n
  <2>1. QED BY DEF ToSet
<1>16. QED BY <1>14, <1>15

\* The audit a planner pastes is invisible to retrieval and to the parser of
\* the manifest, and no audit of a plan becomes an aspect, whatever the plan
\* and however many rows the audit has.
THEOREM AuditsAreInvisible == RulesSpec => []AuditIsInvisible
<1>1. Inputs => AuditIsInvisible
  <2>1. SUFFICES ASSUME NEW plan \in Seq(Lines)
                 PROVE  /\ \A s \in ToSet(PlanSections(StripSkillAudit(plan))) :
                                s.heading # "audit"
                        /\ \A k \in 0..Len(plan), matches \in 0..1 :
                            LET after == SubSeq(plan, k + 1, Len(plan))
                                pasted == SubSeq(plan, 1, k) \o SkillAudit(matches) \o after
                            IN  after = <<>> \/ Head(after) \in Headings =>
                                  /\ StripSkillAudit(pasted) = StripSkillAudit(plan)
                                  /\ ParseFilesToTouch(pasted) = ParseFilesToTouch(plan)
    BY RulesAssumption DEF Inputs, AuditIsInvisible
  <2>2. \A s \in ToSet(PlanSections(StripSkillAudit(plan))) : s.heading # "audit"
    <3>1. PICK run : IsStripping(run, plan)
      BY StrippingRuns
    <3>2. run[Len(plan)] \in Passing /\ StripSkillAudit(plan) = run[Len(plan)].kept
      BY <3>1 DEF IsStripping
    <3>3. StripSkillAudit(plan) \in Seq(Lines \ {"audit"})
      BY <3>2 DEF Passing
    <3>4. PICK stripped \in Seq(Lines \ {"audit"}) : stripped = StripSkillAudit(plan)
      BY <3>3
    <3>5. \A s \in ToSet(PlanSections(stripped)) : s \in Sections
      BY SectionsType
    <3>6. \A s \in Sections : s.heading # "audit"
      BY DEF Sections
    <3>7. QED BY <3>4, <3>5, <3>6
  <2>3. ASSUME NEW k \in 0..Len(plan), NEW matches \in Nat, NEW pasted,
               pasted = SubSeq(plan, 1, k) \o SkillAudit(matches)
                        \o SubSeq(plan, k + 1, Len(plan)),
               \/ SubSeq(plan, k + 1, Len(plan)) = <<>>
               \/ Head(SubSeq(plan, k + 1, Len(plan))) \in Headings
        PROVE  /\ StripSkillAudit(pasted) = StripSkillAudit(plan)
               /\ ParseFilesToTouch(pasted) = ParseFilesToTouch(plan)
    <3>1. IsPasted(pasted, plan, k, matches + 3)
      BY <2>3, PastedIs
    <3>2. matches + 3 \in Nat \ {0}
      OBVIOUS
    <3>3. Fits(plan, k)
      <4>1. CASE k = Len(plan)
        BY <4>1 DEF Fits
      <4>2. CASE k # Len(plan)
        <5>1. /\ Len(SubSeq(plan, k + 1, Len(plan))) = Len(plan) - k
              /\ SubSeq(plan, k + 1, Len(plan))[1] = plan[k + 1]
              /\ Len(plan) - k # 0 /\ Len(<<>>) = 0
          BY <4>2
        <5>2. SubSeq(plan, k + 1, Len(plan)) # <<>>
          BY <5>1
        <5>3. Head(SubSeq(plan, k + 1, Len(plan))) = plan[k + 1]
          BY <5>1
        <5>4. QED BY <2>3, <5>2, <5>3 DEF Fits
      <4>3. QED BY <4>1, <4>2
    <3>4. PICK d \in Nat \ {0} : d = matches + 3
      BY <3>2
    <3>5. QED BY <3>1, <3>3, <3>4, StrippedPasted, ManifestPasted
  <2>4. 0..1 \subseteq Nat
    OBVIOUS
  <2>5. QED BY <2>2, <2>3, <2>4
<1>2. QED BY <1>1, InputsStay, PTL
=============================================================================

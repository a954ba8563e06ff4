----------------------------- MODULE SearchProofs -----------------------------
(***************************************************************************)
(* Theorems about search, for any answers of the index, prompt, expansion  *)
(* and corpus.  Each loop of the code is a fold; its run has an invariant: *)
(* KeepBest holds the best hit of every id seen, Ranked a falling list of  *)
(* the hits seen, WithText the texts seen without blanks.                  *)
(***************************************************************************)
EXTENDS RulesProofs, FiniteSetTheorems
-----------------------------------------------------------------------------
(* What _keep_best keeps *)

(* Search *)

\* One hit of every id in S, the best.
Holds(kept, S) ==
    /\ kept \in Seq(Hit) /\ OncePerId(kept)
    /\ \A k \in 1..Len(kept) : kept[k] \in S
    /\ \A h \in S : \E k \in 1..Len(kept) : kept[k].id = h.id /\ h.score <= kept[k].score

LEMMA HitFacts ==
    ASSUME NEW h \in Hit
    PROVE  h.id \in Artifacts /\ h.score \in Nat
BY DEF Hit

LEMMA OnceMeans ==
    ASSUME NEW hits \in Seq(Hit)
    PROVE  OncePerId(hits) <=>
                \A j, k \in 1..Len(hits) : hits[j].id = hits[k].id => j = k
BY EntriesAre DEF OncePerId

\* The place of an id.
LEMMA PlaceOfId ==
    ASSUME NEW hits \in Seq(Hit), NEW i
    PROVE  LET k == SelectInSeq(hits, LAMBDA h : h.id = i)
           IN  \/ k = 0 /\ \A j \in 1..Len(hits) : hits[j].id # i
               \/ k \in 1..Len(hits) /\ hits[k].id = i
<1> DEFINE I == {j \in 1..Len(hits) : hits[j].id = i}
<1>1. Len(hits) \in Nat /\ I \subseteq 1..Len(hits)
  OBVIOUS
<1>2. SelectInSeq(hits, LAMBDA h : h.id = i) = Foremost(I)
  BY DEF SelectInSeq, Foremost
<1>3. \/ Foremost(I) = 0 /\ I = {}
      \/ Foremost(I) \in I
  <2> HIDE DEF I
  <2>1. QED BY <1>1, ForemostFacts
<1>4. QED BY <1>2, <1>3

\* _keep_best, in each of its cases.
LEMMA KeepBestIs ==
    ASSUME NEW kept \in Seq(Hit), NEW hit \in Hit
    PROVE  \/ /\ KeepBest(kept, hit) = Append(kept, hit)
              /\ \A j \in 1..Len(kept) : kept[j].id # hit.id
           \/ \E k \in 1..Len(kept) :
                /\ kept[k].id = hit.id
                /\ \/ /\ KeepBest(kept, hit) = [kept EXCEPT ![k] = hit]
                      /\ hit.score > kept[k].score
                   \/ KeepBest(kept, hit) = kept /\ hit.score <= kept[k].score
<1> DEFINE k == SelectInSeq(kept, LAMBDA h : h.id = hit.id)
<1>1. \/ k = 0 /\ \A j \in 1..Len(kept) : kept[j].id # hit.id
      \/ k \in 1..Len(kept) /\ kept[k].id = hit.id
  BY PlaceOfId
<1>2. KeepBest(kept, hit) = CASE k = 0 -> Append(kept, hit)
                              [] k # 0 /\ hit.score > kept[k].score -> [kept EXCEPT ![k] = hit]
                              [] OTHER -> kept
  BY DEF KeepBest
<1> HIDE DEF k
<1>3. CASE k = 0
  BY <1>1, <1>2, <1>3
<1>4. CASE k # 0
  <2>1. k \in 1..Len(kept) /\ kept[k].id = hit.id /\ kept[k] \in Hit
    BY <1>1, <1>4
  <2>2. hit.score \in Nat /\ kept[k].score \in Nat
    BY <2>1, HitFacts
  <2>3. CASE hit.score > kept[k].score
    BY <1>2, <1>4, <2>1, <2>3
  <2>4. CASE ~(hit.score > kept[k].score)
    <3>1. KeepBest(kept, hit) = kept
      BY <1>2, <1>4, <2>4
    <3>2. hit.score <= kept[k].score
      BY <2>2, <2>4
    <3>3. QED BY <2>1, <3>1, <3>2
  <2>5. QED BY <2>3, <2>4
<1>5. QED BY <1>3, <1>4

LEMMA KeepBestHolds ==
    ASSUME NEW S, S \subseteq Hit, NEW kept, Holds(kept, S), NEW hit \in Hit
    PROVE  Holds(KeepBest(kept, hit), S \cup {hit})
<1> DEFINE n == Len(kept)
           T == S \cup {hit}
<1>1. /\ kept \in Seq(Hit) /\ n \in Nat
      /\ \A j, k \in 1..n : kept[j].id = kept[k].id => j = k
      /\ \A k \in 1..n : kept[k] \in S
      /\ \A h \in S : \E k \in 1..n : kept[k].id = h.id /\ h.score <= kept[k].score
  BY OnceMeans DEF Holds
<1>2. hit.score \in Nat /\ \A h \in S : h.score \in Nat
  BY HitFacts
<1> HIDE DEF n
<1>3. CASE /\ KeepBest(kept, hit) = Append(kept, hit)
           /\ \A j \in 1..n : kept[j].id # hit.id
  <2>1. PICK u \in Seq(Hit) : u = Append(kept, hit)
    <3>1. Append(kept, hit) \in Seq(Hit)
      BY <1>1
    <3>2. QED BY <3>1
  <2>2. Len(u) = n + 1 /\ u[n + 1] = hit /\ \A i \in 1..n : u[i] = kept[i]
    BY <1>1, <2>1 DEF n
  <2>3. \A i \in 1..n + 1 : i \in 1..n \/ i = n + 1
    BY <1>1
  <2>4. \A i \in 1..n : i \in 1..n + 1
    BY <1>1
  <2>5. n + 1 \in 1..n + 1
    BY <1>1
  <2>6. OncePerId(u)
    <3>1. \A j, k \in 1..n + 1 : u[j].id = u[k].id => j = k
      BY <1>1, <1>3, <2>2, <2>3
    <3>2. QED BY <2>2, <3>1, OnceMeans
  <2>7. \A k \in 1..n + 1 : u[k] \in T
    BY <1>1, <2>2, <2>3
  <2>8. \A h \in T : \E k \in 1..n + 1 : u[k].id = h.id /\ h.score <= u[k].score
    <3>1. ASSUME NEW h \in S
          PROVE  \E k \in 1..n + 1 : u[k].id = h.id /\ h.score <= u[k].score
      BY <1>1, <2>2, <2>4
    <3>2. u[n + 1].id = hit.id /\ hit.score <= u[n + 1].score
      BY <1>2, <2>2
    <3>3. QED BY <2>5, <3>1, <3>2
  <2>9. Holds(u, T)
    BY <2>2, <2>6, <2>7, <2>8 DEF Holds
  <2>10. QED BY <1>3, <2>1, <2>9
<1>4. ASSUME NEW p \in 1..n, kept[p].id = hit.id, hit.score > kept[p].score,
             KeepBest(kept, hit) = [kept EXCEPT ![p] = hit]
      PROVE  Holds(KeepBest(kept, hit), T)
  <2>1. PICK u \in Seq(Hit) : u = [kept EXCEPT ![p] = hit]
    <3>1. [kept EXCEPT ![p] = hit] \in Seq(Hit)
      BY <1>1 DEF n
    <3>2. QED BY <3>1
  <2>2. Len(u) = n /\ u[p] = hit /\ \A i \in 1..n : i # p => u[i] = kept[i]
    BY <1>1, <2>1 DEF n
  <2>3. \A i \in 1..n : u[i].id = kept[i].id
    BY <1>4, <2>2
  <2>4. OncePerId(u)
    BY <1>1, <2>2, <2>3, OnceMeans
  <2>5. \A k \in 1..n : u[k] \in T
    BY <1>1, <2>2
  <2>6. ASSUME NEW h \in S
        PROVE  \E k \in 1..n : u[k].id = h.id /\ h.score <= u[k].score
    <3>1. PICK k \in 1..n : kept[k].id = h.id /\ h.score <= kept[k].score
      BY <1>1
    <3>2. CASE k = p
      <4>1. h.score \in Nat /\ kept[p].score \in Nat
        BY <1>1, <1>2
      <4>2. h.score <= hit.score
        BY <1>2, <1>4, <3>1, <3>2, <4>1
      <4>3. QED BY <2>2, <2>3, <3>1, <3>2, <4>2
    <3>3. CASE k # p
      BY <2>2, <3>1, <3>3
    <3>4. QED BY <3>2, <3>3
  <2>7. u[p].id = hit.id /\ hit.score <= u[p].score
    BY <1>2, <2>2
  <2>8. Holds(u, T)
    BY <2>2, <2>4, <2>5, <2>6, <2>7 DEF Holds
  <2>9. QED BY <1>4, <2>1, <2>8
<1>5. ASSUME NEW p \in 1..n, kept[p].id = hit.id, hit.score <= kept[p].score,
             KeepBest(kept, hit) = kept
      PROVE  Holds(KeepBest(kept, hit), T)
  <2>1. OncePerId(kept)
    BY DEF Holds
  <2>2. QED BY <1>1, <1>5, <2>1 DEF Holds, n
<1>6. \/ /\ KeepBest(kept, hit) = Append(kept, hit)
         /\ \A j \in 1..n : kept[j].id # hit.id
      \/ \E k \in 1..n :
            /\ kept[k].id = hit.id
            /\ \/ /\ KeepBest(kept, hit) = [kept EXCEPT ![k] = hit]
                  /\ hit.score > kept[k].score
               \/ KeepBest(kept, hit) = kept /\ hit.score <= kept[k].score
  BY <1>1, KeepBestIs DEF n
<1>7. QED BY <1>3, <1>4, <1>5, <1>6

LEMMA KeepBestType ==
    ASSUME NEW kept \in Seq(Hit), NEW hit \in Hit
    PROVE  KeepBest(kept, hit) \in Seq(Hit)
<1>1. Append(kept, hit) \in Seq(Hit)
  OBVIOUS
<1>2. \A k \in 1..Len(kept) : [kept EXCEPT ![k] = hit] \in Seq(Hit)
  OBVIOUS
<1>3. QED BY <1>1, <1>2, KeepBestIs

\* The loop over the hits.
KeptOf(hits) == FoldLeft(KeepBest, <<>>, hits)

LEMMA KeepingRuns ==
    ASSUME NEW hits \in Seq(Hit)
    PROVE  \E run : /\ run[0] = <<>> /\ run[Len(hits)] = KeptOf(hits)
                    /\ \A i \in 0..Len(hits) : run[i] \in Seq(Hit)
                    /\ \A i \in 1..Len(hits) : run[i] = KeepBest(run[i - 1], hits[i])
<1> DEFINE n == Len(hits)
           V == Seq(Hit)
           h == [i \in 1..n |-> [v \in V |-> KeepBest(v, hits[i])]]
           IsFold(f) == f = [u \in SUBSET (1..n) |->
                                IF u = {} THEN <<>>
                                ELSE KeepBest(f[u \ {Max(u)}], hits[Max(u)])]
           fold == CHOOSE f : IsFold(f)
<1>1. DOMAIN hits = 1..n /\ n \in Nat /\ <<>> \in V /\ \A i \in 1..n : hits[i] \in Hit
  OBVIOUS
<1>2. \A i \in 1..n : \A v \in V : h[i][v] = KeepBest(v, hits[i]) /\ h[i][v] \in V
  BY <1>1, KeepBestType
<1>3. /\ {} \in SUBSET (1..n) /\ 1..0 = {}
      /\ \A i \in 1..n : /\ 1..i \in SUBSET (1..n) /\ 1..i # {}
                         /\ Max(1..i) = i /\ (1..i) \ {Max(1..i)} = 1..i - 1
      /\ \A u \in SUBSET (1..n) : u # {} => /\ Max(u) \in 1..n
                                            /\ u \ {Max(u)} \in SUBSET (1..n)
  BY <1>1, FoldStep
<1>4. KeptOf(hits) = fold[1..n]
  BY <1>1 DEF KeptOf, FoldLeft, MapThenFoldSet
<1> HIDE DEF n, V, h
<1>5. PICK f : f \in [SUBSET (1..n) -> V] /\ Folding(f, n, <<>>, h)
  BY <1>1, <1>2, FoldExists
<1>6. IsFold(f)
  BY <1>2, <1>3, <1>5 DEF Folding
<1>7. IsFold(fold)
  <2> HIDE DEF IsFold
  <2>1. QED BY <1>6
<1> HIDE DEF fold
<1>8. fold[{}] = <<>> /\ \A i \in 1..n : fold[1..i - 1] \in V => fold[1..i] = h[i][fold[1..i - 1]]
  <2>1. ASSUME NEW i \in 1..n, fold[1..i - 1] \in V PROVE fold[1..i] = h[i][fold[1..i - 1]]
    <3>1. fold[1..i] = KeepBest(fold[1..i - 1], hits[i])
      BY <1>3, <1>7
    <3>2. QED BY <1>2, <2>1, <3>1
  <2>2. QED BY <1>3, <1>7, <2>1
<1>9. PICK run : IsRun(run, n, V, <<>>, h) /\ run[n] = fold[1..n]
  <2>1. StaysIn(h, n, V)
    BY <1>2 DEF StaysIn
  <2>2. InTurn(fold, n, V, <<>>, h)
    BY <1>8 DEF InTurn
  <2>3. QED BY <1>1, <2>1, <2>2, FoldRuns
<1>10. \A i \in 1..n : i - 1 \in 0..n
  BY <1>1
<1>11. run[0] = <<>> /\ \A i \in 0..n : run[i] \in V
  BY <1>9 DEF IsRun
<1>12. ASSUME NEW i \in 1..n PROVE run[i] = KeepBest(run[i - 1], hits[i])
  <2>1. run[i] = h[i][run[i - 1]] /\ run[i - 1] \in V
    BY <1>9, <1>10 DEF IsRun
  <2>2. QED BY <1>2, <2>1
<1>13. QED BY <1>4, <1>9, <1>11, <1>12 DEF n, V

\* _keep_best over all the hits.
LEMMA KeptFacts ==
    ASSUME NEW hits \in Seq(Hit)
    PROVE  Holds(KeptOf(hits), ToSet(hits))
<1> DEFINE n == Len(hits)
<1>1. n \in Nat
  OBVIOUS
<1>2. PICK run : /\ run[0] = <<>> /\ run[n] = KeptOf(hits)
                 /\ \A i \in 0..n : run[i] \in Seq(Hit)
                 /\ \A i \in 1..n : run[i] = KeepBest(run[i - 1], hits[i])
  BY KeepingRuns
<1> DEFINE I == {i \in 0..n : Holds(run[i], ToSet(Upto(hits, i)))}
<1>3. 0 \in I
  <2>1. ToSet(Upto(hits, 0)) = {}
    BY UptoFacts, EmptySet
  <2>2. <<>> \in Seq(Hit) /\ 1..Len(<<>>) = {} /\ OncePerId(<<>>)
    BY DEF OncePerId
  <2>3. Holds(<<>>, {})
    BY <2>2 DEF Holds
  <2>4. Holds(run[0], ToSet(Upto(hits, 0)))
    BY <1>2, <2>1, <2>3
  <2>5. 0 \in 0..n
    BY <1>1
  <2>6. QED BY <2>4, <2>5
<1>4. ASSUME NEW i \in 1..n, i - 1 \in I PROVE i \in I
  <2>1. i \in 0..n /\ hits[i] \in Hit
    BY <1>1
  <2>2. PICK S : S = ToSet(Upto(hits, i - 1))
    OBVIOUS
  <2>3. S \subseteq Hit
    <3>1. i - 1 \in 0..n
      BY <1>1
    <3>2. PICK u \in Seq(Hit) : u = Upto(hits, i - 1)
      BY <3>1, UptoFacts
    <3>3. QED BY <2>2, <3>2, EntriesAre
  <2>4. Holds(run[i - 1], S)
    BY <1>4, <2>2
  <2>5. Holds(KeepBest(run[i - 1], hits[i]), S \cup {hits[i]})
    BY <2>1, <2>3, <2>4, KeepBestHolds
  <2>6. ToSet(Upto(hits, i)) = S \cup {hits[i]}
    BY <2>2, UptoSet
  <2>7. QED BY <1>2, <2>1, <2>5, <2>6
<1>5. n \in I
  <2> HIDE DEF I, n
  <2>1. QED BY <1>1, <1>3, <1>4, LoopInduction
<1>6. QED BY <1>2, <1>5, UptoFacts

\* A list without repeats is kept as it is.
LEMMA KeptOnce ==
    ASSUME NEW hits \in Seq(Hit), OncePerId(hits)
    PROVE  KeptOf(hits) = hits
<1> DEFINE n == Len(hits)
<1>1. n \in Nat /\ \A j, k \in 1..n : hits[j].id = hits[k].id => j = k
  BY OnceMeans
<1>2. PICK run : /\ run[0] = <<>> /\ run[n] = KeptOf(hits)
                 /\ \A i \in 0..n : run[i] \in Seq(Hit)
                 /\ \A i \in 1..n : run[i] = KeepBest(run[i - 1], hits[i])
  BY KeepingRuns
<1> DEFINE I == {i \in 0..n : run[i] = Upto(hits, i)}
<1>3. 0 \in I
  BY <1>1, <1>2, UptoFacts
<1>4. ASSUME NEW i \in 1..n, i - 1 \in I PROVE i \in I
  <2>1. i \in 0..n /\ i - 1 \in 0..n /\ hits[i] \in Hit
    BY <1>1
  <2>2. PICK u \in Seq(Hit) : u = Upto(hits, i - 1) /\ Len(u) = i - 1
    BY <2>1, UptoFacts
  <2>3. \A j \in 1..i - 1 : u[j] = hits[j]
    BY <1>1, <2>2 DEF Upto
  <2>4. \A j \in 1..i - 1 : hits[j].id # hits[i].id
    <3>1. \A j \in 1..i - 1 : j \in 1..n /\ j # i
      BY <1>1
    <3>2. QED BY <1>1, <3>1
  <2>5. KeepBest(u, hits[i]) = Append(u, hits[i])
    <3>1. \A j \in 1..Len(u) : u[j].id # hits[i].id
      BY <2>2, <2>3, <2>4
    <3>2. QED BY <2>1, <3>1, KeepBestIs
  <2>6. Upto(hits, i) = Append(u, hits[i])
    BY <2>2, UptoFacts
  <2>7. QED BY <1>2, <1>4, <2>1, <2>2, <2>5, <2>6
<1>5. n \in I
  <2> HIDE DEF I, n
  <2>1. QED BY <1>1, <1>3, <1>4, LoopInduction
<1>6. QED BY <1>2, <1>5, UptoFacts
-----------------------------------------------------------------------------
(* Sorting by score *)

\* A hit comes before the first that scores less.
LEMMA RankedIs ==
    ASSUME NEW ranking \in Seq(Hit), NEW hit \in Hit
    PROVE  LET n == Len(ranking)
               r == Ranked(ranking, hit)
           IN  /\ r \in Seq(Hit) /\ Len(r) = n + 1
               /\ \E p \in 1..n + 1 :
                    /\ r[p] = hit
                    /\ \A i \in 1..p - 1 : r[i] = ranking[i] /\ hit.score <= ranking[i].score
                    /\ \A i \in p..n : r[i + 1] = ranking[i]
                    /\ p # n + 1 => ranking[p].score < hit.score
<1> DEFINE n == Len(ranking)
           I == {i \in 1..n : ranking[i].score < hit.score}
           k == Foremost(I)
<1>1. n \in Nat /\ I \subseteq 1..n
  OBVIOUS
<1>2. hit.score \in Nat /\ \A i \in 1..n : ranking[i].score \in Nat
  BY HitFacts
<1>3. \/ k = 0 /\ I = {}
      \/ k \in I /\ \A i \in 1..k - 1 : i \notin I
  <2> HIDE DEF I, n
  <2>1. QED BY <1>1, ForemostFacts
<1>4. Ranked(ranking, hit) = IF k = 0 THEN Append(ranking, hit) ELSE InsertAt(ranking, k, hit)
  BY DEF Ranked, SelectInSeq, Foremost
<1> HIDE DEF k
<1>5. CASE k = 0
  <2>1. PICK r \in Seq(Hit) : r = Append(ranking, hit)
    <3>1. Append(ranking, hit) \in Seq(Hit)
      OBVIOUS
    <3>2. QED BY <3>1
  <2>2. Len(r) = n + 1 /\ r[n + 1] = hit /\ \A i \in 1..n : r[i] = ranking[i]
    BY <2>1
  <2>3. \A i \in 1..n : hit.score <= ranking[i].score
    BY <1>2, <1>3, <1>5
  <2> HIDE DEF n
  <2>4. n + 1 \in 1..n + 1 /\ (n + 1) - 1 = n /\ (n + 1)..n = {}
    BY <1>1
  <2>5. \E p \in 1..n + 1 :
          /\ r[p] = hit
          /\ \A i \in 1..p - 1 : r[i] = ranking[i] /\ hit.score <= ranking[i].score
          /\ \A i \in p..n : r[i + 1] = ranking[i]
          /\ p # n + 1 => ranking[p].score < hit.score
    BY <2>2, <2>3, <2>4
  <2>6. QED BY <1>4, <1>5, <2>1, <2>2, <2>5 DEF n
<1>6. CASE k # 0
  <2>1. k \in 1..n /\ ranking[k].score < hit.score
        /\ \A i \in 1..k - 1 : hit.score <= ranking[i].score
    <3>1. k \in 1..n /\ ranking[k].score < hit.score /\ \A i \in 1..k - 1 : i \notin I
      BY <1>3, <1>6
    <3>2. \A i \in 1..k - 1 : i \in 1..n
      BY <1>1, <3>1
    <3>3. QED BY <1>2, <3>1, <3>2
  <2>2. PICK a \in Seq(Hit) : /\ a = SubSeq(ranking, 1, k - 1) /\ Len(a) = k - 1
                              /\ \A i \in 1..k - 1 : a[i] = ranking[i]
    <3>1. SubSeq(ranking, 1, k - 1) \in Seq(Hit)
      <4>1. k - 1 \in Nat /\ k - 1 <= Len(ranking)
        BY <2>1
      <4>2. QED BY <4>1, Stretch
    <3>2. /\ Len(SubSeq(ranking, 1, k - 1)) = k - 1
          /\ \A i \in 1..k - 1 : SubSeq(ranking, 1, k - 1)[i] = ranking[i]
      BY <2>1
    <3>3. QED BY <3>1, <3>2
  <2>3. PICK c \in Seq(Hit) : /\ c = SubSeq(ranking, k, n) /\ Len(c) = n - k + 1
                              /\ \A i \in 1..n - k + 1 : c[i] = ranking[k + i - 1]
    <3>1. SubSeq(ranking, k, n) \in Seq(Hit)
      <4>1. k \in Nat \ {0}
        BY <2>1
      <4>2. QED BY <1>1, <4>1, Stretch
    <3>2. /\ Len(SubSeq(ranking, k, n)) = n - k + 1
          /\ \A i \in 1..n - k + 1 : SubSeq(ranking, k, n)[i] = ranking[k + i - 1]
      BY <2>1
    <3>3. QED BY <3>1, <3>2
  <2>4. PICK b \in Seq(Hit) : b = <<hit>> /\ Len(b) = 1 /\ b[1] = hit
    <3>1. <<hit>> \in Seq(Hit) /\ Len(<<hit>>) = 1 /\ <<hit>>[1] = hit
      OBVIOUS
    <3>2. QED BY <3>1
  <2> HIDE DEF n
  <2>5. PICK d \in Seq(Hit) : /\ d = a \o b /\ Len(d) = k /\ d[k] = hit
                              /\ \A i \in 1..k - 1 : d[i] = ranking[i]
    <3>1. /\ a \o b \in Seq(Hit) /\ Len(a \o b) = Len(a) + Len(b)
          /\ \A i \in 1..Len(a) : (a \o b)[i] = a[i]
          /\ \A i \in 1..Len(b) : (a \o b)[Len(a) + i] = b[i]
      BY Joined
    <3>2. PICK d \in Seq(Hit) : d = a \o b
      BY <3>1
    <3>3. (k - 1) + 1 = k /\ 1 \in 1..1
      BY <2>1
    <3>4. d[(k - 1) + 1] = hit
      BY <2>2, <2>4, <3>1, <3>2, <3>3
    <3>5. Len(d) = k
      BY <2>2, <2>4, <3>1, <3>2, <3>3
    <3>6. ASSUME NEW i \in 1..k - 1 PROVE d[i] = ranking[i]
      BY <2>2, <3>1, <3>2
    <3>7. QED BY <3>2, <3>3, <3>4, <3>5, <3>6
  <2>6. PICK r \in Seq(Hit) : /\ r = d \o c /\ Len(r) = n + 1
                              /\ \A i \in 1..k : r[i] = d[i]
                              /\ \A i \in 1..n - k + 1 : r[k + i] = c[i]
    <3>1. /\ d \o c \in Seq(Hit) /\ Len(d \o c) = Len(d) + Len(c)
          /\ \A i \in 1..Len(d) : (d \o c)[i] = d[i]
          /\ \A i \in 1..Len(c) : (d \o c)[Len(d) + i] = c[i]
      BY Joined
    <3>2. PICK r \in Seq(Hit) : r = d \o c
      BY <3>1
    <3>3. k + (n - k + 1) = n + 1
      BY <1>1, <2>1
    <3>4. Len(r) = n + 1
      BY <2>3, <2>5, <3>1, <3>2, <3>3
    <3>5. \A i \in 1..k : r[i] = d[i]
      BY <2>5, <3>1, <3>2
    <3>6. \A i \in 1..n - k + 1 : r[k + i] = c[i]
      BY <2>3, <2>5, <3>1, <3>2
    <3>7. QED BY <3>2, <3>4, <3>5, <3>6
  <2>7. ASSUME NEW i \in k..n PROVE r[i + 1] = ranking[i]
    <3>1. i - k + 1 \in 1..n - k + 1 /\ k + (i - k + 1) = i + 1 /\ k + (i - k + 1) - 1 = i
      BY <1>1, <2>1
    <3>2. r[k + (i - k + 1)] = c[i - k + 1] /\ c[i - k + 1] = ranking[k + (i - k + 1) - 1]
      BY <2>3, <2>6, <3>1
    <3>3. QED BY <3>1, <3>2
  <2>8. k \in 1..n + 1 /\ k \in 1..k /\ \A i \in 1..k - 1 : i \in 1..k
    BY <1>1, <2>1
  <2>9. \E p \in 1..n + 1 :
          /\ r[p] = hit
          /\ \A i \in 1..p - 1 : r[i] = ranking[i] /\ hit.score <= ranking[i].score
          /\ \A i \in p..n : r[i + 1] = ranking[i]
          /\ p # n + 1 => ranking[p].score < hit.score
    <3>1. r[k] = hit
      BY <2>5, <2>6, <2>8
    <3>2. \A i \in 1..k - 1 : r[i] = ranking[i] /\ hit.score <= ranking[i].score
      BY <2>1, <2>5, <2>6, <2>8
    <3>3. QED BY <2>1, <2>7, <2>8, <3>1, <3>2
  <2>10. Ranked(ranking, hit) = r
    BY <1>4, <1>6, <2>2, <2>3, <2>4, <2>5, <2>6 DEF InsertAt, n
  <2>11. QED BY <2>6, <2>9, <2>10 DEF n
<1>7. QED BY <1>5, <1>6

LEMMA RankedType ==
    ASSUME NEW ranking \in Seq(Hit), NEW hit \in Hit
    PROVE  Ranked(ranking, hit) \in Seq(Hit)
BY RankedIs

LEMMA RankingRuns ==
    ASSUME NEW hits \in Seq(Hit)
    PROVE  \E run : /\ run[0] = <<>> /\ run[Len(hits)] = BestFirst(hits)
                    /\ \A i \in 0..Len(hits) : run[i] \in Seq(Hit)
                    /\ \A i \in 1..Len(hits) : run[i] = Ranked(run[i - 1], hits[i])
<1> DEFINE n == Len(hits)
           V == Seq(Hit)
           h == [i \in 1..n |-> [v \in V |-> Ranked(v, hits[i])]]
           IsFold(f) == f = [u \in SUBSET (1..n) |->
                                IF u = {} THEN <<>>
                                ELSE Ranked(f[u \ {Max(u)}], hits[Max(u)])]
           fold == CHOOSE f : IsFold(f)
<1>1. DOMAIN hits = 1..n /\ n \in Nat /\ <<>> \in V /\ \A i \in 1..n : hits[i] \in Hit
  OBVIOUS
<1>2. \A i \in 1..n : \A v \in V : h[i][v] = Ranked(v, hits[i]) /\ h[i][v] \in V
  BY <1>1, RankedType
<1>3. /\ {} \in SUBSET (1..n) /\ 1..0 = {}
      /\ \A i \in 1..n : /\ 1..i \in SUBSET (1..n) /\ 1..i # {}
                         /\ Max(1..i) = i /\ (1..i) \ {Max(1..i)} = 1..i - 1
      /\ \A u \in SUBSET (1..n) : u # {} => /\ Max(u) \in 1..n
                                            /\ u \ {Max(u)} \in SUBSET (1..n)
  BY <1>1, FoldStep
<1>4. BestFirst(hits) = fold[1..n]
  BY <1>1 DEF BestFirst, FoldLeft, MapThenFoldSet
<1> HIDE DEF n, V, h
<1>5. PICK f : f \in [SUBSET (1..n) -> V] /\ Folding(f, n, <<>>, h)
  BY <1>1, <1>2, FoldExists
<1>6. IsFold(f)
  BY <1>2, <1>3, <1>5 DEF Folding
<1>7. IsFold(fold)
  <2> HIDE DEF IsFold
  <2>1. QED BY <1>6
<1> HIDE DEF fold
<1>8. fold[{}] = <<>> /\ \A i \in 1..n : fold[1..i - 1] \in V => fold[1..i] = h[i][fold[1..i - 1]]
  <2>1. ASSUME NEW i \in 1..n, fold[1..i - 1] \in V PROVE fold[1..i] = h[i][fold[1..i - 1]]
    <3>1. fold[1..i] = Ranked(fold[1..i - 1], hits[i])
      BY <1>3, <1>7
    <3>2. QED BY <1>2, <2>1, <3>1
  <2>2. QED BY <1>3, <1>7, <2>1
<1>9. PICK run : IsRun(run, n, V, <<>>, h) /\ run[n] = fold[1..n]
  <2>1. StaysIn(h, n, V)
    BY <1>2 DEF StaysIn
  <2>2. InTurn(fold, n, V, <<>>, h)
    BY <1>8 DEF InTurn
  <2>3. QED BY <1>1, <2>1, <2>2, FoldRuns
<1>10. \A i \in 1..n : i - 1 \in 0..n
  BY <1>1
<1>11. run[0] = <<>> /\ \A i \in 0..n : run[i] \in V
  BY <1>9 DEF IsRun
<1>12. ASSUME NEW i \in 1..n PROVE run[i] = Ranked(run[i - 1], hits[i])
  <2>1. run[i] = h[i][run[i - 1]] /\ run[i - 1] \in V
    BY <1>9, <1>10 DEF IsRun
  <2>2. QED BY <1>2, <2>1
<1>13. QED BY <1>4, <1>9, <1>11, <1>12 DEF n, V

LEMMA InsertedOnce ==
    ASSUME NEW r \in Seq(Hit), NEW s \in Seq(Hit), NEW x \in Hit,
           NEW p \in 1..Len(s) + 1, IsInserted(r, s, x, p),
           OncePerId(s), x.id \notin Ids(s)
    PROVE  OncePerId(r)
<1> DEFINE n == Len(s)
<1>1. /\ n \in Nat /\ Len(r) = n + 1 /\ r[p] = x /\ p \in 1..n + 1
      /\ \A i \in 1..p - 1 : r[i] = s[i]
      /\ \A i \in p..n : r[i + 1] = s[i]
      /\ \A i \in 1..n : s[i].id # x.id
      /\ \A j, k \in 1..n : s[j].id = s[k].id => j = k
  BY EntriesAre, OnceMeans DEF IsInserted, Ids
<1> HIDE DEF n
<1> DEFINE At(i) == IF i < p THEN i ELSE i - 1
<1>2. ASSUME NEW i \in 1..n + 1, i # p
      PROVE  At(i) \in 1..n /\ r[i] = s[At(i)]
  <2>1. CASE i < p
    <3>1. i \in 1..p - 1 /\ i \in 1..n
      BY <1>1, <2>1
    <3>2. QED BY <1>1, <2>1, <3>1
  <2>2. CASE ~(i < p)
    <3>1. i - 1 \in p..n /\ i - 1 \in 1..n /\ (i - 1) + 1 = i
      BY <1>1, <1>2, <2>2
    <3>2. r[i] = s[i - 1]
      BY <1>1, <3>1
    <3>3. QED BY <2>2, <3>1, <3>2
  <2>3. QED BY <2>1, <2>2
<1>3. \A j, k \in 1..n + 1 : j # p /\ k # p /\ At(j) = At(k) => j = k
  BY <1>1
<1> HIDE DEF At
<1>4. ASSUME NEW j \in 1..n + 1, NEW k \in 1..n + 1, r[j].id = r[k].id PROVE j = k
  <2>1. CASE j # p /\ k # p
    <3>1. s[At(j)].id = s[At(k)].id /\ At(j) \in 1..n /\ At(k) \in 1..n
      BY <1>2, <1>4, <2>1
    <3>2. At(j) = At(k)
      BY <1>1, <3>1
    <3>3. QED BY <1>3, <2>1, <3>2
  <2>2. CASE j = p /\ k # p
    <3>1. At(k) \in 1..n /\ s[At(k)].id = x.id
      BY <1>1, <1>2, <1>4, <2>2
    <3>2. QED BY <1>1, <3>1
  <2>3. CASE j # p /\ k = p
    <3>1. At(j) \in 1..n /\ s[At(j)].id = x.id
      BY <1>1, <1>2, <1>4, <2>3
    <3>2. QED BY <1>1, <3>1
  <2>4. QED BY <2>1, <2>2, <2>3
<1>5. QED BY <1>1, <1>4, OnceMeans

LEMMA FallingMeans ==
    ASSUME NEW hits \in Seq(Hit)
    PROVE  Falling(hits) <=>
                \A j, k \in 1..Len(hits) : j < k => hits[k].score <= hits[j].score
<1>1. DOMAIN hits = 1..Len(hits) /\ \A i \in 1..Len(hits) : hits[i].score \in Nat
  BY EntriesAre, HitFacts
<1>2. QED BY <1>1 DEF Falling

LEMMA InsertedFalls ==
    ASSUME NEW r \in Seq(Hit), NEW s \in Seq(Hit), NEW x \in Hit,
           NEW p \in 1..Len(s) + 1, IsInserted(r, s, x, p), Falling(s),
           \A i \in 1..p - 1 : x.score <= s[i].score,
           p # Len(s) + 1 => s[p].score < x.score
    PROVE  Falling(r)
<1> DEFINE n == Len(s)
<1>1. /\ n \in Nat /\ Len(r) = n + 1 /\ r[p] = x /\ p \in 1..n + 1
      /\ \A i \in 1..p - 1 : r[i] = s[i]
      /\ \A i \in p..n : r[i + 1] = s[i]
      /\ \A i \in 1..n : s[i].score \in Nat
      /\ x.score \in Nat
      /\ \A j, k \in 1..n : j < k => s[k].score <= s[j].score
  BY EntriesAre, FallingMeans, HitFacts DEF IsInserted
<1>2. p # n + 1 => s[p].score < x.score
  OBVIOUS
<1> HIDE DEF n
<1>3. \A i \in p..n : s[i].score <= x.score
  <2>1. SUFFICES ASSUME NEW i \in p..n PROVE s[i].score <= x.score
    OBVIOUS
  <2>2. i \in 1..n /\ p \in 1..n /\ p # n + 1 /\ (i = p \/ p < i)
    BY <1>1, <2>1
  <2>3. s[i].score <= s[p].score
    BY <1>1, <2>2
  <2>4. QED BY <1>1, <1>2, <2>2, <2>3
<1>4. ASSUME NEW j \in 1..n + 1, NEW k \in 1..n + 1, j < k
      PROVE  r[k].score <= r[j].score
  <2>1. CASE k < p
    <3>1. j \in 1..p - 1 /\ k \in 1..p - 1 /\ j \in 1..n /\ k \in 1..n
      BY <1>1, <1>4, <2>1
    <3>2. QED BY <1>1, <1>4, <3>1
  <2>2. CASE k = p
    <3>1. j \in 1..p - 1
      BY <1>1, <1>4, <2>2
    <3>2. QED BY <1>1, <2>2, <3>1
  <2>3. CASE p < k
    <3>1. k - 1 \in p..n /\ k - 1 \in 1..n /\ (k - 1) + 1 = k
      BY <1>1, <2>3
    <3>2. r[k] = s[k - 1]
      BY <1>1, <3>1
    <3>3. CASE j < p
      <4>1. j \in 1..p - 1 /\ j \in 1..n /\ j < k - 1
        BY <1>1, <3>1, <3>3
      <4>2. r[j] = s[j] /\ s[k - 1].score <= s[j].score
        BY <1>1, <3>1, <4>1
      <4>3. QED BY <3>2, <4>2
    <3>4. CASE j = p
      BY <1>1, <1>3, <3>1, <3>2, <3>4
    <3>5. CASE p < j
      <4>1. j - 1 \in p..n /\ j - 1 \in 1..n /\ (j - 1) + 1 = j /\ j - 1 < k - 1
        BY <1>1, <1>4, <3>5
      <4>2. r[j] = s[j - 1] /\ s[k - 1].score <= s[j - 1].score
        BY <1>1, <3>1, <4>1
      <4>3. QED BY <3>2, <4>2
    <3>6. QED BY <1>1, <3>3, <3>4, <3>5
  <2>4. QED BY <1>1, <2>1, <2>2, <2>3
<1>5. QED BY <1>1, <1>4, FallingMeans

LEMMA RankedFacts ==
    ASSUME NEW ranking \in Seq(Hit), NEW hit \in Hit
    PROVE  /\ Ranked(ranking, hit) \in Seq(Hit)
           /\ ToSet(Ranked(ranking, hit)) = ToSet(ranking) \cup {hit}
           /\ Falling(ranking) => Falling(Ranked(ranking, hit))
           /\ OncePerId(ranking) /\ hit.id \notin Ids(ranking) => OncePerId(Ranked(ranking, hit))
<1> DEFINE n == Len(ranking)
<1>1. PICK r \in Seq(Hit), p \in 1..n + 1 :
            /\ r = Ranked(ranking, hit) /\ Len(r) = n + 1
            /\ r[p] = hit
            /\ \A i \in 1..p - 1 : r[i] = ranking[i] /\ hit.score <= ranking[i].score
            /\ \A i \in p..n : r[i + 1] = ranking[i]
            /\ p # n + 1 => ranking[p].score < hit.score
  BY RankedIs
<1>2. IsInserted(r, ranking, hit, p)
  BY <1>1 DEF IsInserted
<1>3. ToSet(r) = ToSet(ranking) \cup {hit}
  BY <1>2, InsertedSet
<1>4. Falling(ranking) => Falling(r)
  BY <1>1, <1>2, InsertedFalls
<1>5. OncePerId(ranking) /\ hit.id \notin Ids(ranking) => OncePerId(r)
  BY <1>2, InsertedOnce
<1>6. QED BY <1>1, <1>3, <1>4, <1>5

LEMMA IdsAre ==
    ASSUME NEW hits \in Seq(Hit)
    PROVE  Ids(hits) = {h.id : h \in ToSet(hits)}
BY DEF Ids, ToSet

\* What sorting does.
LEMMA BestFirstFacts ==
    ASSUME NEW hits \in Seq(Hit)
    PROVE  /\ BestFirst(hits) \in Seq(Hit) /\ ToSet(BestFirst(hits)) = ToSet(hits)
           /\ Falling(BestFirst(hits))
           /\ OncePerId(hits) => OncePerId(BestFirst(hits))
<1> DEFINE n == Len(hits)
<1>1. n \in Nat /\ \A j, k \in 1..n : OncePerId(hits) /\ hits[j].id = hits[k].id => j = k
  BY OnceMeans
<1>2. PICK run : /\ run[0] = <<>> /\ run[n] = BestFirst(hits)
                 /\ \A i \in 0..n : run[i] \in Seq(Hit)
                 /\ \A i \in 1..n : run[i] = Ranked(run[i - 1], hits[i])
  BY RankingRuns
<1> DEFINE I == {i \in 0..n : /\ ToSet(run[i]) = ToSet(Upto(hits, i)) /\ Falling(run[i])
                              /\ OncePerId(hits) => OncePerId(run[i])}
<1>3. 0 \in I
  <2>1. ToSet(Upto(hits, 0)) = {} /\ ToSet(<<>>) = {}
    BY UptoFacts, EmptySet
  <2>2. Falling(<<>>) /\ OncePerId(<<>>)
    BY DEF Falling, OncePerId
  <2>3. 0 \in 0..n
    BY <1>1
  <2>4. QED BY <1>2, <2>1, <2>2, <2>3
<1>4. ASSUME NEW i \in 1..n, i - 1 \in I PROVE i \in I
  <2>1. i \in 0..n /\ i - 1 \in 0..n /\ hits[i] \in Hit
    BY <1>1
  <2>2. PICK r \in Seq(Hit), x \in Hit, t \in Seq(Hit) :
            r = run[i - 1] /\ x = hits[i] /\ t = Upto(hits, i - 1) /\ Len(t) = i - 1
    BY <1>2, <2>1, UptoFacts
  <2>3. ToSet(run[i]) = ToSet(Upto(hits, i))
    <3>1. ToSet(Upto(hits, i)) = ToSet(Upto(hits, i - 1)) \cup {x}
      BY <2>2, UptoSet
    <3>2. run[i] = Ranked(r, x)
      BY <1>2, <2>2
    <3>3. QED BY <1>4, <2>2, <3>1, <3>2, RankedFacts
  <2>4. Falling(run[i])
    BY <1>2, <1>4, <2>2, RankedFacts
  <2>5. ASSUME OncePerId(hits) PROVE OncePerId(run[i])
    <3>1. \A j \in 1..i - 1 : t[j] = hits[j] /\ j \in 1..n /\ j # i
      BY <1>1, <2>2 DEF Upto
    <3>2. \A j \in 1..Len(t) : t[j].id # x.id
      BY <1>1, <2>2, <2>5, <3>1
    <3>3. x.id \notin Ids(r)
      <4>1. Ids(r) = {h.id : h \in ToSet(t)}
        BY <1>4, <2>2, IdsAre
      <4>2. \A h \in ToSet(t) : h.id # x.id
        BY <3>2, EntriesAre
      <4>3. QED BY <4>1, <4>2
    <3>4. OncePerId(r)
      BY <1>4, <2>2, <2>5
    <3>5. QED BY <1>2, <2>2, <3>3, <3>4, RankedFacts
  <2>6. QED BY <2>1, <2>3, <2>4, <2>5
<1>5. n \in I
  <2> HIDE DEF I, n
  <2>1. QED BY <1>1, <1>3, <1>4, LoopInduction
<1>6. BestFirst(hits) \in Seq(Hit)
  BY <1>1, <1>2
<1>7. Upto(hits, n) = hits
  BY UptoFacts
<1>8. QED BY <1>2, <1>5, <1>6, <1>7
-----------------------------------------------------------------------------
(* The texts of a query *)

Words == QueryWords \cup {Blank}

LEMMA WithTextFacts ==
    ASSUME NEW texts \in Seq(QueryWords), NEW t \in Words
    PROVE  /\ WithText(texts, t) \in Seq(QueryWords)
           /\ ToSet(WithText(texts, t)) = (ToSet(texts) \cup {t}) \ {Blank}
<1>1. \A x \in ToSet(texts) : x \in QueryWords /\ x # Blank
  BY EntriesAre, SelectionAssumption
<1>2. CASE t = Blank
  BY <1>1, <1>2 DEF WithText
<1>3. CASE t # Blank /\ t \in ToSet(texts)
  BY <1>1, <1>3, ContainsMeans DEF WithText
<1>4. CASE t # Blank /\ t \notin ToSet(texts)
  <2>1. t \in QueryWords
    BY <1>4 DEF Words
  <2>2. PICK u \in Seq(QueryWords) : u = Append(texts, t)
    <3>1. Append(texts, t) \in Seq(QueryWords)
      BY <2>1
    <3>2. QED BY <3>1
  <2>3. WithText(texts, t) = u
    BY <1>4, <2>2, ContainsMeans DEF WithText
  <2>4. ToSet(u) = ToSet(texts) \cup {t}
    BY <2>1, <2>2, AppendedSet
  <2>5. QED BY <1>1, <1>4, <2>2, <2>3, <2>4
<1>5. QED BY <1>2, <1>3, <1>4

\* The loop over the texts.
TextsOf(s) == FoldLeft(WithText, <<>>, s)

LEMMA TextRuns ==
    ASSUME NEW s \in Seq(Words)
    PROVE  \E run : /\ run[0] = <<>> /\ run[Len(s)] = TextsOf(s)
                    /\ \A i \in 0..Len(s) : run[i] \in Seq(QueryWords)
                    /\ \A i \in 1..Len(s) : run[i] = WithText(run[i - 1], s[i])
<1> DEFINE n == Len(s)
           V == Seq(QueryWords)
           h == [i \in 1..n |-> [v \in V |-> WithText(v, s[i])]]
           IsFold(f) == f = [u \in SUBSET (1..n) |->
                                IF u = {} THEN <<>>
                                ELSE WithText(f[u \ {Max(u)}], s[Max(u)])]
           fold == CHOOSE f : IsFold(f)
<1>1. DOMAIN s = 1..n /\ n \in Nat /\ <<>> \in V /\ \A i \in 1..n : s[i] \in Words
  OBVIOUS
<1>2. \A i \in 1..n : \A v \in V : h[i][v] = WithText(v, s[i]) /\ h[i][v] \in V
  BY <1>1, WithTextFacts
<1>3. /\ {} \in SUBSET (1..n) /\ 1..0 = {}
      /\ \A i \in 1..n : /\ 1..i \in SUBSET (1..n) /\ 1..i # {}
                         /\ Max(1..i) = i /\ (1..i) \ {Max(1..i)} = 1..i - 1
      /\ \A u \in SUBSET (1..n) : u # {} => /\ Max(u) \in 1..n
                                            /\ u \ {Max(u)} \in SUBSET (1..n)
  BY <1>1, FoldStep
<1>4. TextsOf(s) = fold[1..n]
  BY <1>1 DEF TextsOf, FoldLeft, MapThenFoldSet
<1> HIDE DEF n, V, h
<1>5. PICK f : f \in [SUBSET (1..n) -> V] /\ Folding(f, n, <<>>, h)
  BY <1>1, <1>2, FoldExists
<1>6. IsFold(f)
  BY <1>2, <1>3, <1>5 DEF Folding
<1>7. IsFold(fold)
  <2> HIDE DEF IsFold
  <2>1. QED BY <1>6
<1> HIDE DEF fold
<1>8. fold[{}] = <<>> /\ \A i \in 1..n : fold[1..i - 1] \in V => fold[1..i] = h[i][fold[1..i - 1]]
  <2>1. ASSUME NEW i \in 1..n, fold[1..i - 1] \in V PROVE fold[1..i] = h[i][fold[1..i - 1]]
    <3>1. fold[1..i] = WithText(fold[1..i - 1], s[i])
      BY <1>3, <1>7
    <3>2. QED BY <1>2, <2>1, <3>1
  <2>2. QED BY <1>3, <1>7, <2>1
<1>9. PICK run : IsRun(run, n, V, <<>>, h) /\ run[n] = fold[1..n]
  <2>1. StaysIn(h, n, V)
    BY <1>2 DEF StaysIn
  <2>2. InTurn(fold, n, V, <<>>, h)
    BY <1>8 DEF InTurn
  <2>3. QED BY <1>1, <2>1, <2>2, FoldRuns
<1>10. \A i \in 1..n : i - 1 \in 0..n
  BY <1>1
<1>11. run[0] = <<>> /\ \A i \in 0..n : run[i] \in V
  BY <1>9 DEF IsRun
<1>12. ASSUME NEW i \in 1..n PROVE run[i] = WithText(run[i - 1], s[i])
  <2>1. run[i] = h[i][run[i - 1]] /\ run[i - 1] \in V
    BY <1>9, <1>10 DEF IsRun
  <2>2. QED BY <1>2, <2>1
<1>13. QED BY <1>4, <1>9, <1>11, <1>12 DEF n, V

LEMMA TextsFacts ==
    ASSUME NEW s \in Seq(Words)
    PROVE  TextsOf(s) \in Seq(QueryWords) /\ ToSet(TextsOf(s)) = ToSet(s) \ {Blank}
<1> DEFINE n == Len(s)
<1>1. n \in Nat /\ \A i \in 1..n : s[i] \in Words
  OBVIOUS
<1>2. PICK run : /\ run[0] = <<>> /\ run[n] = TextsOf(s)
                 /\ \A i \in 0..n : run[i] \in Seq(QueryWords)
                 /\ \A i \in 1..n : run[i] = WithText(run[i - 1], s[i])
  BY TextRuns
<1> DEFINE I == {i \in 0..n : ToSet(run[i]) = ToSet(Upto(s, i)) \ {Blank}}
<1>3. 0 \in I
  <2>1. ToSet(Upto(s, 0)) = {} /\ ToSet(<<>>) = {}
    BY UptoFacts, EmptySet
  <2>2. 0 \in 0..n
    BY <1>1
  <2>3. QED BY <1>2, <2>1, <2>2
<1>4. ASSUME NEW i \in 1..n, i - 1 \in I PROVE i \in I
  <2>1. i \in 0..n /\ i - 1 \in 0..n
    BY <1>1
  <2>2. PICK r \in Seq(QueryWords), x \in Words : r = run[i - 1] /\ x = s[i]
    BY <1>1, <1>2, <2>1
  <2>3. ToSet(Upto(s, i)) = ToSet(Upto(s, i - 1)) \cup {x}
    BY <2>2, UptoSet
  <2>4. ToSet(WithText(r, x)) = (ToSet(r) \cup {x}) \ {Blank}
    BY WithTextFacts
  <2>5. ToSet(run[i]) = ToSet(Upto(s, i)) \ {Blank}
    BY <1>2, <1>4, <2>2, <2>3, <2>4
  <2>6. QED BY <2>1, <2>5
<1>5. n \in I
  <2> HIDE DEF I, n
  <2>1. QED BY <1>1, <1>3, <1>4, LoopInduction
<1>6. Upto(s, n) = s
  BY UptoFacts
<1>7. TextsOf(s) \in Seq(QueryWords)
  BY <1>1, <1>2
<1>8. QED BY <1>2, <1>5, <1>6, <1>7

LEMMA QueryTextsFacts ==
    ASSUME NEW prompt \in Words, NEW aspects \in Seq(Words)
    PROVE  /\ QueryTexts(prompt, aspects) \in Seq(QueryWords)
           /\ ToSet(QueryTexts(prompt, aspects)) = ({prompt} \cup ToSet(aspects)) \ {Blank}
<1>1. PICK p \in Seq(Words) : p = <<prompt>> /\ Len(p) = 1 /\ p[1] = prompt
  <2>1. <<prompt>> \in Seq(Words) /\ Len(<<prompt>>) = 1 /\ <<prompt>>[1] = prompt
    OBVIOUS
  <2>2. QED BY <2>1
<1>2. ToSet(p) = {prompt}
  <2>1. DOMAIN p = 1..1 /\ 1..1 = {1}
    BY <1>1, EntriesAre
  <2>2. QED BY <1>1, <2>1 DEF ToSet
<1>3. PICK s \in Seq(Words) : s = p \o aspects
  BY Joined
<1>4. ToSet(s) = {prompt} \cup ToSet(aspects)
  BY <1>2, <1>3, JoinedSet
<1>5. QueryTexts(prompt, aspects) = TextsOf(s)
  BY <1>1, <1>3 DEF QueryTexts, TextsOf
<1>6. QED BY <1>4, <1>5, TextsFacts
-----------------------------------------------------------------------------
(* Search *)

LEMMA HoldsMeans ==
    ASSUME NEW kept \in Seq(Hit), NEW S
    PROVE  Holds(kept, S) <=>
                /\ OncePerId(kept) /\ ToSet(kept) \subseteq S
                /\ \A h \in S : \E g \in ToSet(kept) : g.id = h.id /\ h.score <= g.score
<1>1. (\A k \in 1..Len(kept) : kept[k] \in S) <=> ToSet(kept) \subseteq S
  BY EntriesAre
<1>2. ASSUME NEW h \in S
      PROVE  (\E k \in 1..Len(kept) : kept[k].id = h.id /\ h.score <= kept[k].score)
             <=> \E g \in ToSet(kept) : g.id = h.id /\ h.score <= g.score
  BY EntriesAre
<1>3. QED BY <1>1, <1>2 DEF Holds

\* The texts of a query, as a set.
TextsIn(prompt, aspects) == ({prompt} \cup ToSet(aspects)) \ {Blank}

\* Whether a search of these texts fails.
Fails(index, texts) == texts = {} \/ \E t \in texts : Blind(index[t])

\* The qualifying hits of all answers, in the order of the answers.
LEMMA AnswersAre ==
    ASSUME NEW index \in [QueryWords -> Seq(Hit)], NEW u \in Seq(QueryWords)
    PROVE  LET answers == [k \in DOMAIN u |-> index[u[k]]]
           IN  /\ FlattenSeq(answers) \in Seq(Hit)
               /\ {h \in ToSet(FlattenSeq(answers)) : Qualifies(h)} = Found(index, ToSet(u))
               /\ Found(index, ToSet(u)) \subseteq ToSet(FlattenSeq(answers))
               /\ (\E k \in DOMAIN answers : Blind(answers[k]))
                    <=> \E t \in ToSet(u) : Blind(index[t])
<1> DEFINE answers == [k \in DOMAIN u |-> index[u[k]]]
           n == Len(u)
<1>1. DOMAIN u = 1..n /\ n \in Nat /\ \A k \in 1..n : u[k] \in QueryWords
  OBVIOUS
<1>2. PICK a \in Seq(Seq(Hit)) : a = answers
  <2>1. answers \in [1..n -> Seq(Hit)]
    BY <1>1
  <2>2. answers \in Seq(Seq(Hit))
    BY <1>1, <2>1
  <2>3. QED BY <2>2
<1>3. Len(a) = n /\ DOMAIN a = 1..n /\ \A k \in 1..n : a[k] = index[u[k]]
  BY <1>1, <1>2
<1> HIDE DEF n
<1>4. PICK hits \in Seq(Hit) : hits = FlattenSeq(a)
  BY FlattenFacts
<1>5. \A x : x \in ToSet(hits) <=> \E k \in 1..n : x \in ToSet(index[u[k]])
  <2>1. \A x : x \in ToSet(hits) <=> \E k \in 1..Len(a) : x \in ToSet(a[k])
    BY <1>4, FlattenFacts
  <2>2. QED BY <1>3, <2>1
<1>6. /\ \A k \in 1..n : u[k] \in ToSet(u)
      /\ \A t \in ToSet(u) : \E k \in 1..n : u[k] = t
  BY <1>1 DEF ToSet
<1>7. \A x : x \in ToSet(hits) <=> \E t \in ToSet(u) : x \in ToSet(index[t])
  BY <1>5, <1>6
<1>8. {h \in ToSet(hits) : Qualifies(h)} = Found(index, ToSet(u))
  BY <1>7 DEF Found
<1>9. (\E k \in DOMAIN a : Blind(a[k])) <=> \E t \in ToSet(u) : Blind(index[t])
  <2>1. ASSUME NEW k \in DOMAIN a, Blind(a[k]) PROVE \E t \in ToSet(u) : Blind(index[t])
    BY <1>3, <1>6, <2>1
  <2>2. ASSUME NEW t \in ToSet(u), Blind(index[t]) PROVE \E k \in DOMAIN a : Blind(a[k])
    <3>1. PICK k \in 1..n : u[k] = t
      BY <1>6
    <3>2. k \in DOMAIN a /\ a[k] = index[t]
      BY <1>3, <3>1
    <3>3. QED BY <2>2, <3>2
  <2>3. QED BY <2>1, <2>2
<1>10. QED BY <1>2, <1>4, <1>8, <1>9

\* What search() returns without a bound.
LEMMA SearchFacts ==
    ASSUME NEW index \in [QueryWords -> Seq(Hit)],
           NEW prompt \in Words, NEW aspects \in Seq(Words)
    PROVE  LET texts == TextsIn(prompt, aspects)
               all == Search(index, prompt, aspects, 0)
           IN  /\ Fails(index, texts) => all = Failed
               /\ ~Fails(index, texts) =>
                    /\ Holds(all, Found(index, texts)) /\ Falling(all)
                    /\ \A topK \in Nat \ {0} : Search(index, prompt, aspects, topK)
                                               = Cut(all, topK)
<1> DEFINE texts == TextsIn(prompt, aspects)
<1>1. PICK u \in Seq(QueryWords) : u = QueryTexts(prompt, aspects) /\ ToSet(u) = texts
  BY QueryTextsFacts DEF TextsIn
<1> DEFINE answers == [k \in DOMAIN u |-> index[u[k]]]
           hits == FlattenSeq(answers)
           some == Only(hits, {h \in ToSet(hits) : Qualifies(h)})
           kept == KeptOf(some)
<1>2. /\ hits \in Seq(Hit)
      /\ {h \in ToSet(hits) : Qualifies(h)} = Found(index, texts)
      /\ Found(index, texts) \subseteq ToSet(hits)
      /\ (\E k \in DOMAIN answers : Blind(answers[k])) <=> \E t \in texts : Blind(index[t])
  <2>1. /\ hits \in Seq(Hit)
        /\ {h \in ToSet(hits) : Qualifies(h)} = Found(index, ToSet(u))
        /\ Found(index, ToSet(u)) \subseteq ToSet(hits)
        /\ (\E k \in DOMAIN answers : Blind(answers[k]))
             <=> \E t \in ToSet(u) : Blind(index[t])
    BY AnswersAre
  <2> HIDE DEF answers, hits, texts
  <2>2. QED BY <1>1, <2>1
<1>3. (u = <<>> \/ \E k \in DOMAIN answers : Blind(answers[k])) <=> Fails(index, texts)
  BY <1>1, <1>2, SomeEntry DEF Fails
<1>4. \A topK : Search(index, prompt, aspects, topK) =
                    IF u = <<>> \/ \E k \in DOMAIN answers : Blind(answers[k]) THEN Failed
                    ELSE IF topK = 0 THEN BestFirst(kept) ELSE Cut(BestFirst(kept), topK)
  BY <1>1 DEF Search, KeptOf
<1> HIDE DEF answers, hits, texts
<1>5. PICK s \in Seq(Hit) : s = some /\ ToSet(s) = Found(index, texts)
  <2>1. some \in Seq(Hit \cap {h \in ToSet(hits) : Qualifies(h)})
    BY <1>2, OnlyType
  <2>2. some \in Seq(Hit)
    BY <2>1
  <2>3. ToSet(some) = ToSet(hits) \cap Found(index, texts)
    BY <1>2, OnlySet
  <2>4. ToSet(some) = Found(index, texts)
    BY <1>2, <2>3
  <2>5. QED BY <2>2, <2>4
<1>6. PICK v \in Seq(Hit) : v = kept /\ Holds(v, Found(index, texts))
  <2>1. Holds(KeptOf(s), Found(index, texts))
    BY <1>5, KeptFacts
  <2>2. QED BY <1>5, <2>1 DEF Holds
<1>7. PICK w \in Seq(Hit) : w = BestFirst(v) /\ ToSet(w) = ToSet(v) /\ Falling(w) /\ OncePerId(w)
  <2>1. OncePerId(v)
    BY <1>6, HoldsMeans
  <2>2. QED BY <2>1, BestFirstFacts
<1>8. Holds(w, Found(index, texts))
  <2>1. /\ ToSet(v) \subseteq Found(index, texts)
        /\ \A h \in Found(index, texts) :
              \E g \in ToSet(v) : g.id = h.id /\ h.score <= g.score
    BY <1>6, HoldsMeans
  <2>2. /\ ToSet(w) \subseteq Found(index, texts)
        /\ \A h \in Found(index, texts) :
              \E g \in ToSet(w) : g.id = h.id /\ h.score <= g.score
    BY <1>7, <2>1
  <2>3. QED BY <1>7, <2>2, HoldsMeans
<1> HIDE DEF some, kept
<1>9. ASSUME Fails(index, texts) PROVE Search(index, prompt, aspects, 0) = Failed
  BY <1>3, <1>4, <1>9
<1>10. ASSUME ~Fails(index, texts)
       PROVE  /\ Search(index, prompt, aspects, 0) = w
              /\ \A topK \in Nat \ {0} : Search(index, prompt, aspects, topK) = Cut(w, topK)
  BY <1>3, <1>4, <1>6, <1>7, <1>10
<1>11. QED BY <1>7, <1>8, <1>9, <1>10 DEF texts

LEMMA ScoreIs ==
    ASSUME NEW hits \in Seq(Hit), OncePerId(hits), NEW g \in ToSet(hits)
    PROVE  g.id \in Ids(hits) /\ Score(hits, g.id) = g.score
<1>1. PICK j \in 1..Len(hits) : hits[j] = g
  BY EntriesAre
<1> DEFINE k == SelectInSeq(hits, LAMBDA h : h.id = g.id)
<1>2. \/ k = 0 /\ \A i \in 1..Len(hits) : hits[i].id # g.id
      \/ k \in 1..Len(hits) /\ hits[k].id = g.id
  BY PlaceOfId
<1>3. Score(hits, g.id) = hits[k].score
  BY DEF Score
<1> HIDE DEF k
<1>4. k = j
  BY <1>1, <1>2, OnceMeans
<1>5. QED BY <1>1, <1>3, <1>4 DEF Ids

LEMMA BestOf ==
    ASSUME NEW scores, scores \subseteq Nat, NEW m \in scores, \A o \in scores : o <= m
    PROVE  (CHOOSE n \in scores : \A o \in scores : o <= n) = m
<1>1. \A n \in scores : (\A o \in scores : o <= n) => n = m
  OBVIOUS
<1>2. QED BY <1>1

LEMMA ScoresAreBest ==
    ASSUME NEW all \in Seq(Hit), NEW index, NEW texts, Found(index, texts) \subseteq Hit,
           Holds(all, Found(index, texts))
    PROVE  ScoresOf(all) = BestScores(index, texts)
<1> DEFINE F == Found(index, texts)
<1>1. /\ OncePerId(all) /\ ToSet(all) \subseteq F
      /\ \A h \in F : \E g \in ToSet(all) : g.id = h.id /\ h.score <= g.score
  BY HoldsMeans
<1>2. Ids(all) = {h.id : h \in ToSet(all)}
  BY IdsAre
<1>3. Ids(all) = {h.id : h \in F}
  BY <1>1, <1>2
<1> DEFINE S(i) == {h.score : h \in {g \in F : g.id = i}}
           B(i) == CHOOSE n \in S(i) : \A o \in S(i) : o <= n
<1>4. BestScores(index, texts) = [i \in {h.id : h \in F} |-> B(i)]
  BY DEF BestScores
<1>5. ASSUME NEW i \in Ids(all) PROVE Score(all, i) = B(i)
  <2>1. PICK g \in ToSet(all) : g.id = i
    BY <1>2, <1>5
  <2>2. g \in F /\ g.score \in Nat
    BY <1>1, <2>1, HitFacts
  <2>3. \A o \in S(i) : o <= g.score
    <3>1. SUFFICES ASSUME NEW h \in F, h.id = i PROVE h.score <= g.score
      OBVIOUS
    <3>2. PICK f \in ToSet(all) : f.id = h.id /\ h.score <= f.score
      BY <1>1, <3>1
    <3>3. f = g
      <4>1. PICK j, k \in 1..Len(all) : all[j] = f /\ all[k] = g
        BY <2>1, <3>2, EntriesAre
      <4>2. QED BY <1>1, <2>1, <3>1, <3>2, <4>1, OnceMeans
    <3>4. QED BY <3>2, <3>3
  <2>4. g.score \in S(i) /\ S(i) \subseteq Nat
    BY <2>1, <2>2, HitFacts
  <2>5. B(i) = g.score
    <3> HIDE DEF S
    <3>1. QED BY <2>3, <2>4, BestOf
  <2>6. QED BY <1>1, <2>1, <2>5, ScoreIs
<1>6. QED BY <1>3, <1>4, <1>5 DEF ScoresOf

LEMMA PromptsAre == Prompts \subseteq Words /\ AspectLists \subseteq Seq(Words)
BY RulesAssumption DEF Words

LEMMA FoundHits ==
    ASSUME NEW index \in [QueryWords -> Seq(Hit)], NEW texts, texts \subseteq QueryWords
    PROVE  Found(index, texts) \subseteq Hit
<1>1. \A t \in texts : \A h \in ToSet(index[t]) : h \in Hit
  <2>1. \A t \in texts : index[t] \in Seq(Hit)
    OBVIOUS
  <2>2. QED BY <2>1, EntriesAre
<1>2. QED BY <1>1 DEF Found

LEMMA TextsInWords ==
    ASSUME NEW prompt \in Words, NEW aspects \in Seq(Words)
    PROVE  TextsIn(prompt, aspects) \subseteq QueryWords
<1>1. \A t \in ToSet(aspects) : t \in Words
  BY EntriesAre
<1>2. QED BY <1>1 DEF TextsIn, Words

\* What a search of some texts returns when it does not fail.
LEMMA SearchReturns ==
    ASSUME NEW index \in [QueryWords -> Seq(Hit)],
           NEW prompt \in Words, NEW aspects \in Seq(Words),
           ~Fails(index, TextsIn(prompt, aspects))
    PROVE  LET all == Search(index, prompt, aspects, 0)
           IN  /\ all \in Seq(Hit) /\ OncePerId(all) /\ Falling(all)
               /\ ScoresOf(all) = BestScores(index, TextsIn(prompt, aspects))
               /\ Holds(all, Found(index, TextsIn(prompt, aspects)))
<1>1. PICK all : all = Search(index, prompt, aspects, 0)
  OBVIOUS
<1>2. PICK texts : texts = TextsIn(prompt, aspects) /\ texts \subseteq QueryWords
  BY TextsInWords
<1>3. Holds(all, Found(index, texts)) /\ Falling(all)
  BY <1>1, <1>2, SearchFacts
<1>4. all \in Seq(Hit) /\ OncePerId(all)
  BY <1>3 DEF Holds
<1>5. Found(index, texts) \subseteq Hit
  BY <1>2, FoundHits
<1>6. ScoresOf(all) = BestScores(index, texts)
  BY <1>3, <1>4, <1>5, ScoresAreBest
<1>7. QED BY <1>1, <1>2, <1>3, <1>4, <1>6

\* A search returns every artifact that some query text qualifies, once, with
\* its best score, best first, and a bound keeps a prefix of that, whatever the
\* index answers, however many texts the prompt was expanded to (search.py).
THEOREM SearchReturnsBest == RulesSpec => []SearchIsBest
<1>1. Inputs => SearchIsBest
  <2> SUFFICES ASSUME Inputs, Is("search"), NEW prompt \in Prompts \cup {Blank},
                      NEW aspects \in AspectLists
               PROVE  LET texts == ({prompt} \cup ToSet(aspects)) \ {Blank}
                          all == Search(probe.index, prompt, aspects, 0)
                      IN  IF texts = {} \/ \E t \in texts : Blind(probe.index[t]) THEN all = Failed
                          ELSE /\ OncePerId(all) /\ Falling(all)
                               /\ ScoresOf(all) = BestScores(probe.index, texts)
                               /\ \A topK \in TopKs : Search(probe.index, prompt, aspects, topK)
                                                     = Cut(all, topK)
    BY DEF SearchIsBest
  <2>1. PICK index \in [QueryWords -> Seq(Hit)] : index = probe.index
    BY RulesAssumption DEF Inputs
  <2>2. prompt \in Words /\ aspects \in Seq(Words)
    BY PromptsAre DEF Words
  <2>3. PICK texts : texts = TextsIn(prompt, aspects)
    OBVIOUS
  <2>4. PICK all : all = Search(index, prompt, aspects, 0)
    OBVIOUS
  <2>5. CASE Fails(index, texts)
    <3>1. all = Failed
      BY <2>2, <2>3, <2>4, <2>5, SearchFacts
    <3>2. texts = {} \/ \E t \in texts : Blind(index[t])
      BY <2>5 DEF Fails
    <3>3. QED BY <2>1, <2>3, <2>4, <3>1, <3>2 DEF TextsIn
  <2>6. CASE ~Fails(index, texts)
    <3>1. ~(texts = {} \/ \E t \in texts : Blind(index[t]))
      BY <2>6 DEF Fails
    <3>2. OncePerId(all) /\ Falling(all) /\ ScoresOf(all) = BestScores(index, texts)
      BY <2>2, <2>3, <2>4, <2>6, SearchReturns
    <3>3. \A topK \in Nat \ {0} : Search(index, prompt, aspects, topK) = Cut(all, topK)
      BY <2>2, <2>3, <2>4, <2>6, SearchFacts
    <3>4. \A topK \in TopKs : Search(index, prompt, aspects, topK) = Cut(all, topK)
      <4>1. \A topK \in TopKs : topK \in Nat \ {0}
        BY RulesAssumption
      <4>2. QED BY <3>3, <4>1
    <3>5. QED BY <2>1, <2>3, <2>4, <3>1, <3>2, <3>4 DEF TextsIn
  <2>7. QED BY <2>5, <2>6
<1>2. QED BY <1>1, InputsStay, PTL
-----------------------------------------------------------------------------
(* Batches *)

LEMMA CutFacts ==
    ASSUME NEW S, NEW s \in Seq(S), NEW n \in Nat
    PROVE  /\ Cut(s, n) \in Seq(S)
           /\ Len(Cut(s, n)) = IF n < Len(s) THEN n ELSE Len(s)
           /\ \A i \in 1..Len(Cut(s, n)) : Cut(s, n)[i] = s[i] /\ i \in 1..Len(s)
<1> DEFINE m == IF n < Len(s) THEN n ELSE Len(s)
<1>1. m \in Nat /\ m <= Len(s) /\ \A i \in 1..m : i \in 1..Len(s)
  OBVIOUS
<1>2. Cut(s, n) = SubSeq(s, 1, m)
  BY DEF Cut
<1> HIDE DEF m
<1>3. SubSeq(s, 1, m) \in Seq(S) /\ Len(SubSeq(s, 1, m)) = m
  BY <1>1
<1>4. \A i \in 1..m : SubSeq(s, 1, m)[i] = s[i]
  BY <1>1
<1>5. QED BY <1>1, <1>2, <1>3, <1>4 DEF m

LEMMA OnlyOrder ==
    ASSUME NEW hits \in Seq(Hit), NEW keep
    PROVE  /\ Only(hits, keep) \in Seq(Hit)
           /\ OncePerId(hits) => OncePerId(Only(hits, keep))
           /\ Falling(hits) => Falling(Only(hits, keep))
<1>1. PICK r \in Seq(Hit) : r = Only(hits, keep)
  <2>1. Only(hits, keep) \in Seq(Hit \cap keep)
    BY OnlyType
  <2>2. Only(hits, keep) \in Seq(Hit)
    BY <2>1
  <2>3. QED BY <2>2
<1>2. PICK e : Embeds(e, r, hits, Len(hits))
  BY <1>1, OnlyEmbeds
<1> DEFINE m == Len(r)
           n == Len(hits)
<1>3. /\ m \in Nat /\ n \in Nat
      /\ \A i \in 1..m : e[i] \in 1..n /\ r[i] = hits[e[i]]
      /\ \A i, j \in 1..m : i < j => e[i] < e[j]
  BY <1>2 DEF Embeds
<1>4. /\ OncePerId(hits) <=> \A j, k \in 1..n : hits[j].id = hits[k].id => j = k
      /\ OncePerId(r) <=> \A j, k \in 1..m : r[j].id = r[k].id => j = k
      /\ Falling(hits) <=> \A j, k \in 1..n : j < k => hits[k].score <= hits[j].score
      /\ Falling(r) <=> \A j, k \in 1..m : j < k => r[k].score <= r[j].score
  BY OnceMeans, FallingMeans
<1> HIDE DEF m, n
<1>5. ASSUME NEW j \in 1..m, NEW k \in 1..m, e[j] = e[k] PROVE j = k
  <2>1. e[j] \in 1..n /\ e[k] \in 1..n
    BY <1>3
  <2>2. ~(j < k) /\ ~(k < j)
    BY <1>3, <1>5, <2>1
  <2>3. QED BY <1>3, <2>2
<1>6. OncePerId(hits) => OncePerId(r)
  <2>1. SUFFICES ASSUME OncePerId(hits), NEW j \in 1..m, NEW k \in 1..m, r[j].id = r[k].id
                 PROVE  j = k
    BY <1>4
  <2>2. /\ e[j] \in 1..n /\ e[k] \in 1..n
        /\ hits[e[j]].id = hits[e[k]].id
    BY <1>3, <2>1
  <2>3. e[j] = e[k]
    BY <1>4, <2>1, <2>2
  <2>4. QED BY <1>5, <2>3
<1>7. Falling(hits) => Falling(r)
  <2>1. SUFFICES ASSUME Falling(hits), NEW j \in 1..m, NEW k \in 1..m, j < k
                 PROVE  r[k].score <= r[j].score
    BY <1>4
  <2>2. e[j] < e[k] /\ e[j] \in 1..n /\ e[k] \in 1..n
    BY <1>3, <2>1
  <2>3. hits[e[k]].score <= hits[e[j]].score
    BY <1>4, <2>1, <2>2
  <2>4. QED BY <1>3, <2>3
<1>8. QED BY <1>1, <1>6, <1>7

LEMMA CutOrder ==
    ASSUME NEW hits \in Seq(Hit), NEW n \in Nat
    PROVE  /\ OncePerId(hits) => OncePerId(Cut(hits, n))
           /\ Falling(hits) => Falling(Cut(hits, n))
<1>1. PICK r \in Seq(Hit) : r = Cut(hits, n) /\ \A i \in 1..Len(r) : r[i] = hits[i] /\ i \in 1..Len(hits)
  BY CutFacts
<1>2. /\ OncePerId(hits) <=> \A j, k \in 1..Len(hits) : hits[j].id = hits[k].id => j = k
      /\ OncePerId(r) <=> \A j, k \in 1..Len(r) : r[j].id = r[k].id => j = k
      /\ Falling(hits) <=> \A j, k \in 1..Len(hits) : j < k => hits[k].score <= hits[j].score
      /\ Falling(r) <=> \A j, k \in 1..Len(r) : j < k => r[k].score <= r[j].score
  BY OnceMeans, FallingMeans
<1>3. OncePerId(hits) => OncePerId(r)
  BY <1>1, <1>2
<1>4. Falling(hits) => Falling(r)
  BY <1>1, <1>2
<1>5. QED BY <1>1, <1>3, <1>4

(* Batches *)

\* l entries are m batches of n: where a batch and an entry are.
CutsInto(m, l, n) ==
    /\ m \in Nat \ {0}
    /\ \A b \in 1..m : (b - 1) * n + 1 \in 1..l
    /\ \A j \in 1..l : \E b \in 1..m, i \in 1..n : (b - 1) * n + i = j
    /\ l <= n => m = 1

LEMMA Division ==
    ASSUME NEW a \in Nat, NEW n \in Nat \ {0}
    PROVE  (a \div n) \in Nat /\ n * (a \div n) <= a /\ a < n * (a \div n) + n
OBVIOUS

LEMMA Products ==
    ASSUME NEW n \in Nat, NEW a \in Int, NEW b \in Int
    PROVE  /\ n * a \in Int /\ n * (a - 1) = n * a - n /\ n * a = a * n
           /\ a <= b => n * a <= n * b
OBVIOUS

LEMMA BatchPlaces ==
    ASSUME NEW l \in Nat \ {0}, NEW n \in Nat \ {0}
    PROVE  CutsInto((l + n - 1) \div n, l, n)
<1>1. PICK m \in Nat : /\ m = (l + n - 1) \div n
                       /\ n * m <= l + n - 1 /\ l + n - 1 < n * m + n
  <2>1. l + n - 1 \in Nat
    OBVIOUS
  <2>2. QED BY <2>1, Division
<1>2. PICK p \in Int : p = n * m /\ p <= l + n - 1 /\ l <= p
  <2>1. n * m \in Int
    BY Products
  <2>2. QED BY <1>1, <2>1
<1>3. m # 0
  <2>1. n * 0 = 0
    OBVIOUS
  <2>2. QED BY <1>2, <2>1
<1>4. ASSUME NEW b \in 1..m PROVE (b - 1) * n + 1 \in 1..l
  <2>1. PICK q \in Int : q = n * (b - 1) /\ q = (b - 1) * n
    BY Products
  <2>2. n * (m - 1) = p - n
    BY <1>2, Products
  <2>3. q <= n * (m - 1)
    <3>1. b - 1 \in Int /\ m - 1 \in Int /\ b - 1 <= m - 1
      OBVIOUS
    <3>2. QED BY <2>1, <3>1, Products
  <2>4. 0 <= q
    <3>1. n * 0 = 0 /\ b - 1 \in Int /\ 0 \in Int /\ 0 <= b - 1
      OBVIOUS
    <3>2. n * 0 <= n * (b - 1)
      BY <3>1, Products
    <3>3. QED BY <2>1, <3>1, <3>2
  <2>5. q + 1 \in 1..l
    BY <1>2, <2>2, <2>3, <2>4
  <2>6. QED BY <2>1, <2>5
<1>5. ASSUME NEW j \in 1..l PROVE \E b \in 1..m, i \in 1..n : (b - 1) * n + i = j
  <2>1. PICK q \in Nat : n * q <= j - 1 /\ j - 1 < n * q + n
    <3>1. j - 1 \in Nat
      OBVIOUS
    <3>2. QED BY <3>1, Division
  <2>2. PICK r \in Int : r = n * q /\ r = q * n /\ r <= j - 1 /\ j - 1 < r + n
    <3>1. n * q \in Int /\ n * q = q * n
      BY Products
    <3>2. QED BY <2>1, <3>1
  <2>3. q < m
    <3>1. SUFFICES ASSUME m <= q PROVE FALSE
      OBVIOUS
    <3>2. p <= r
      BY <1>2, <2>2, <3>1, Products
    <3>3. QED BY <1>2, <2>2, <3>2
  <2>4. q + 1 \in 1..m /\ (q + 1) - 1 = q
    BY <2>3
  <2>5. j - r \in 1..n /\ r + (j - r) = j
    BY <2>2
  <2>6. ((q + 1) - 1) * n + (j - r) = j
    BY <2>2, <2>4, <2>5
  <2>7. QED BY <2>4, <2>5, <2>6
<1>6. ASSUME l <= n PROVE m = 1
  <2>1. SUFFICES ASSUME 2 <= m PROVE FALSE
    BY <1>3
  <2>2. n * 2 <= p
    BY <1>2, <2>1, Products
  <2>3. QED BY <1>2, <1>6, <2>2
<1>7. QED BY <1>1, <1>3, <1>4, <1>5, <1>6 DEF CutsInto

\* A batch: the entries from place a, at most n.
LEMMA BatchIs ==
    ASSUME NEW S, NEW s \in Seq(S), NEW n \in Nat \ {0}, NEW a \in 1..Len(s)
    PROVE  LET u == Cut(SubSeq(s, a, Len(s)), n)
           IN  /\ u \in Seq(S)
               /\ \A i \in 1..Len(u) : u[i] = s[a + i - 1] /\ a + i - 1 \in 1..Len(s)
               /\ \A i \in 1..n : a + i - 1 \in 1..Len(s) => i \in 1..Len(u)
               /\ a = 1 /\ Len(s) <= n => u = s
<1>1. Len(s) \in Nat /\ a \in Nat \ {0} /\ a <= Len(s)
  OBVIOUS
<1>2. PICK t \in Seq(S) : t = SubSeq(s, a, Len(s))
  <2>1. Len(s) <= Len(s)
    BY <1>1
  <2>2. SubSeq(s, a, Len(s)) \in Seq(S)
    BY <1>1, <2>1, Stretch
  <2>3. QED BY <2>2
<1>3. Len(t) = Len(s) - a + 1 /\ \A i \in 1..Len(s) - a + 1 : t[i] = s[a + i - 1]
  BY <1>1, <1>2
<1>4. PICK u \in Seq(S) :
        /\ u = Cut(t, n) /\ Len(u) = IF n < Len(t) THEN n ELSE Len(t)
        /\ \A i \in 1..Len(u) : u[i] = t[i] /\ i \in 1..Len(t)
  BY CutFacts
<1>5. ASSUME NEW i \in 1..Len(u)
      PROVE  u[i] = s[a + i - 1] /\ a + i - 1 \in 1..Len(s)
  <2>1. u[i] = t[i] /\ i \in 1..Len(s) - a + 1
    BY <1>3, <1>4
  <2>2. QED BY <1>1, <1>3, <2>1
<1>6. ASSUME NEW i \in 1..n, a + i - 1 \in 1..Len(s) PROVE i \in 1..Len(u)
  BY <1>1, <1>3, <1>4, <1>6
<1>7. ASSUME a = 1, Len(s) <= n PROVE u = s
  <2>1. Len(u) = Len(s)
    BY <1>1, <1>3, <1>4, <1>7
  <2>2. \A i \in 1..Len(s) : u[i] = s[i]
    <3>1. \A i \in 1..Len(s) : a + i - 1 = i
      BY <1>1, <1>7
    <3>2. QED BY <1>5, <2>1, <3>1
  <2>3. QED BY <2>1, <2>2
<1>8. QED BY <1>2, <1>4, <1>5, <1>6, <1>7

\* Every aspect is in a batch, and nothing else.
LEMMA BatchesFacts ==
    ASSUME NEW aspects \in Seq(Words), NEW n \in Nat \ {0}
    PROVE  /\ Batches(aspects, n) \in Seq(Seq(Words)) /\ Len(Batches(aspects, n)) # 0
           /\ \A t : t \in ToSet(aspects) <=>
                \E b \in 1..Len(Batches(aspects, n)) : t \in ToSet(Batches(aspects, n)[b])
           /\ Len(aspects) <= n => Batches(aspects, n) = <<aspects>>
<1> DEFINE l == Len(aspects)
<1>1. CASE aspects = <<>>
  <2>1. PICK bs \in Seq(Seq(Words)) : bs = << <<>> >> /\ Len(bs) = 1 /\ bs[1] = <<>>
    <3>1. <<>> \in Seq(Words)
      OBVIOUS
    <3>2. << <<>> >> \in Seq(Seq(Words))
      BY <3>1
    <3>3. QED BY <3>2
  <2>2. Batches(aspects, n) = bs
    BY <1>1, <2>1 DEF Batches
  <2>3. \A t : t \notin ToSet(aspects)
    BY <1>1, EmptySet
  <2>4. \A b \in 1..1 : bs[b] = <<>>
    BY <2>1
  <2>5. \A t : ~\E b \in 1..1 : t \in ToSet(bs[b])
    BY <2>4, EmptySet
  <2>6. bs = <<aspects>>
    BY <1>1, <2>1
  <2>7. QED BY <2>1, <2>2, <2>3, <2>5, <2>6
<1>2. CASE aspects # <<>>
  <2>1. l \in Nat \ {0} /\ n \in Nat \ {0}
    BY <1>2
  <2>2. PICK m \in Nat \ {0} :
            /\ m = (l + n - 1) \div n
            /\ \A b \in 1..m : (b - 1) * n + 1 \in 1..l
            /\ \A j \in 1..l : \E b \in 1..m, i \in 1..n : (b - 1) * n + i = j
            /\ l <= n => m = 1
    <3> HIDE DEF l
    <3>1. PICK m : m = (l + n - 1) \div n /\ CutsInto(m, l, n)
      BY <2>1, BatchPlaces
    <3>2. QED BY <3>1 DEF CutsInto
  <2> DEFINE a(b) == (b - 1) * n + 1
             batch(b) == Cut(SubSeq(aspects, a(b), l), n)
  <2>3. Batches(aspects, n) = [b \in 1..m |-> batch(b)]
    BY <1>2, <2>2 DEF Batches
  <2>4. ASSUME NEW b \in 1..m
        PROVE  /\ batch(b) \in Seq(Words)
               /\ \A i \in 1..Len(batch(b)) :
                    batch(b)[i] = aspects[a(b) + i - 1] /\ a(b) + i - 1 \in 1..l
               /\ \A i \in 1..n : a(b) + i - 1 \in 1..l => i \in 1..Len(batch(b))
               /\ a(b) = 1 /\ l <= n => batch(b) = aspects
    <3>1. PICK x \in 1..l : x = a(b)
      BY <2>2
    <3>2. QED BY <2>1, <3>1, BatchIs
  <2> HIDE DEF batch, l
  <2>5. PICK bs \in Seq(Seq(Words)) :
            bs = Batches(aspects, n) /\ Len(bs) = m /\ \A b \in 1..m : bs[b] = batch(b)
    <3>1. [b \in 1..m |-> batch(b)] \in [1..m -> Seq(Words)]
      BY <2>4
    <3>2. PICK bs \in [1..m -> Seq(Words)] : bs = Batches(aspects, n)
      BY <2>3, <3>1
    <3>3. bs \in Seq(Seq(Words)) /\ Len(bs) = m
      BY <2>2, <3>2, ListOf
    <3>4. \A b \in 1..m : bs[b] = batch(b)
      BY <2>3, <3>2
    <3>5. QED BY <3>2, <3>3, <3>4
  <2>6. DOMAIN aspects = 1..l /\ \A b \in 1..m : DOMAIN batch(b) = 1..Len(batch(b))
    BY <2>4, EntriesAre DEF l
  <2>7. ASSUME NEW t \in ToSet(aspects) PROVE \E b \in 1..m : t \in ToSet(bs[b])
    <3>1. PICK j \in 1..l : aspects[j] = t
      BY <2>6 DEF ToSet
    <3>2. PICK b \in 1..m, i \in 1..n : (b - 1) * n + i = j
      BY <2>2
    <3>3. a(b) + i - 1 = j
      <4>1. \A x \in Int : (x + 1) + i - 1 = x + i
        OBVIOUS
      <4>2. (b - 1) * n \in Int
        OBVIOUS
      <4>3. QED BY <3>2, <4>1, <4>2
    <3> HIDE DEF a
    <3>4. i \in 1..Len(batch(b)) /\ batch(b)[i] = t
      BY <2>4, <3>1, <3>3
    <3>5. t \in ToSet(batch(b))
      BY <2>6, <3>4 DEF ToSet
    <3>6. QED BY <2>5, <3>5
  <2>8. ASSUME NEW b \in 1..m, NEW t \in ToSet(bs[b]) PROVE t \in ToSet(aspects)
    <3> HIDE DEF a
    <3>1. PICK i \in 1..Len(batch(b)) : batch(b)[i] = t
      BY <2>5, <2>6 DEF ToSet
    <3>2. aspects[a(b) + i - 1] = t /\ a(b) + i - 1 \in 1..l
      BY <2>4, <3>1
    <3>3. QED BY <2>6, <3>2 DEF ToSet
  <2>9. ASSUME l <= n PROVE bs = <<aspects>>
    <3>1. m = 1 /\ 1 \in 1..m /\ a(1) = 1
      BY <2>1, <2>2, <2>9
    <3>2. bs[1] = aspects
      BY <2>4, <2>5, <2>9, <3>1
    <3>3. bs = [b \in 1..1 |-> aspects]
      BY <2>5, <3>1, <3>2
    <3>4. QED BY <3>3
  <2>10. QED BY <2>2, <2>5, <2>7, <2>8, <2>9 DEF l
<1>3. QED BY <1>1, <1>2

\* A search fails exactly when it answers Failed.
LEMMA FailedMeans ==
    ASSUME NEW index \in [QueryWords -> Seq(Hit)],
           NEW prompt \in Words, NEW aspects \in Seq(Words)
    PROVE  /\ Search(index, prompt, aspects, 0) = Failed <=> Fails(index, TextsIn(prompt, aspects))
           /\ Search(index, prompt, aspects, 0) \in Seq(Hit) \cup {Failed}
<1>1. CASE Fails(index, TextsIn(prompt, aspects))
  <2>1. Search(index, prompt, aspects, 0) = Failed
    BY <1>1, SearchFacts
  <2>2. QED BY <1>1, <2>1
<1>2. CASE ~Fails(index, TextsIn(prompt, aspects))
  <2>1. Search(index, prompt, aspects, 0) \in Seq(Hit)
    BY <1>2, SearchReturns
  <2>2. QED BY <1>2, <2>1, RulesAssumption
<1>3. QED BY <1>1, <1>2

\* The matches of a plan are those of one search for all of its aspects.
LEMMA PlanFacts ==
    ASSUME NEW index \in [QueryWords -> Seq(Hit)],
           NEW prompt \in QueryWords, NEW aspects \in Seq(Words), NEW n \in Nat \ {0}
    PROVE  LET texts == TextsIn(prompt, aspects)
               matches == PlanMatches(index, prompt, aspects, n)
           IN  /\ Fails(index, texts) => matches = Failed
               /\ ~Fails(index, texts) =>
                    /\ Holds(matches, Found(index, texts))
                    /\ Len(aspects) <= n => matches = Search(index, prompt, aspects, 0)
<1> DEFINE texts == TextsIn(prompt, aspects)
           In(b) == TextsIn(prompt, b)
<1>1. PICK bs \in Seq(Seq(Words)) :
        /\ bs = Batches(aspects, n) /\ Len(bs) # 0
        /\ \A t : t \in ToSet(aspects) <=> \E b \in 1..Len(bs) : t \in ToSet(bs[b])
        /\ Len(aspects) <= n => bs = <<aspects>>
  BY BatchesFacts
<1> DEFINE m == Len(bs)
           part(b) == Search(index, prompt, bs[b], 0)
<1>2. m \in Nat \ {0} /\ DOMAIN bs = 1..m /\ \A b \in 1..m : bs[b] \in Seq(Words)
  BY <1>1
<1>3. prompt \in Words /\ prompt # Blank
  BY SelectionAssumption DEF Words
<1>4. \A t : t \in texts <=> \E b \in 1..m : t \in In(bs[b])
  <2>1. 1 \in 1..m
    BY <1>2
  <2>2. QED BY <1>1, <1>3, <2>1 DEF TextsIn
<1>5. prompt \in texts /\ \A b \in 1..m : prompt \in In(bs[b])
  BY <1>3 DEF TextsIn
<1>6. Fails(index, texts) <=> \E b \in 1..m : Fails(index, In(bs[b]))
  <2>1. Fails(index, texts) <=> \E t \in texts : Blind(index[t])
    BY <1>5 DEF Fails
  <2>2. \A b \in 1..m : Fails(index, In(bs[b])) <=> \E t \in In(bs[b]) : Blind(index[t])
    BY <1>5 DEF Fails
  <2> HIDE DEF texts, In
  <2>3. QED BY <1>4, <2>1, <2>2
<1>7. \A b \in 1..m : part(b) = Failed <=> Fails(index, In(bs[b]))
  BY <1>2, <1>3, FailedMeans
<1> DEFINE parts == [b \in DOMAIN Batches(aspects, n) |->
                        Search(index, prompt, Batches(aspects, n)[b], 0)]
<1>8. parts = [b \in 1..m |-> part(b)]
  BY <1>1, <1>2
<1>9. PlanMatches(index, prompt, aspects, n) =
        IF \E b \in DOMAIN parts : parts[b] = Failed THEN Failed ELSE KeptOf(FlattenSeq(parts))
  BY DEF PlanMatches, KeptOf
<1> HIDE DEF parts
<1>10. ASSUME Fails(index, texts) PROVE PlanMatches(index, prompt, aspects, n) = Failed
  <2>1. PICK b \in 1..m : part(b) = Failed
    BY <1>6, <1>7, <1>10
  <2>2. b \in DOMAIN parts /\ parts[b] = Failed
    BY <1>8, <2>1
  <2>3. QED BY <1>9, <2>2
<1>11. ASSUME ~Fails(index, texts)
       PROVE  /\ Holds(PlanMatches(index, prompt, aspects, n), Found(index, texts))
              /\ Len(aspects) <= n =>
                    PlanMatches(index, prompt, aspects, n) = Search(index, prompt, aspects, 0)
  <2>1. ASSUME NEW b \in 1..m
        PROVE  /\ part(b) \in Seq(Hit) /\ part(b) # Failed /\ OncePerId(part(b))
               /\ Holds(part(b), Found(index, In(bs[b])))
    <3>1. ~Fails(index, In(bs[b]))
      BY <1>6, <1>11
    <3>2. part(b) # Failed
      BY <1>7, <3>1
    <3>3. QED BY <1>2, <1>3, <3>1, <3>2, SearchReturns
  <2> HIDE DEF part, In, texts
  <2>2. PICK ps \in Seq(Seq(Hit)) : ps = parts /\ Len(ps) = m /\ \A b \in 1..m : ps[b] = part(b)
    <3>1. PICK ps \in [1..m -> Seq(Hit)] : ps = parts
      BY <1>8, <2>1
    <3>2. ps \in Seq(Seq(Hit)) /\ Len(ps) = m
      <4>1. m \in Nat
        BY <1>2
      <4> HIDE DEF m
      <4>2. QED BY <3>1, <4>1, ListOf
    <3>3. \A b \in 1..m : ps[b] = part(b)
      BY <1>8, <3>1
    <3>4. QED BY <3>1, <3>2, <3>3
  <2>3. DOMAIN ps = 1..m
    BY <2>2, EntriesAre
  <2>4. PICK flat \in Seq(Hit) :
            /\ flat = FlattenSeq(ps)
            /\ \A x : x \in ToSet(flat) <=> \E b \in 1..Len(ps) : x \in ToSet(ps[b])
    BY FlattenFacts
  <2>5. PICK matches \in Seq(Hit) : matches = KeptOf(flat) /\ Holds(matches, ToSet(flat))
    <3>1. Holds(KeptOf(flat), ToSet(flat))
      BY KeptFacts
    <3>2. QED BY <3>1 DEF Holds
  <2>6. PlanMatches(index, prompt, aspects, n) = matches
    <3>1. ~\E b \in DOMAIN parts : parts[b] = Failed
      BY <2>1, <2>2, <2>3
    <3>2. QED BY <1>9, <2>2, <2>4, <2>5, <3>1
  <2>7. \A x : x \in ToSet(flat) <=> \E b \in 1..m : x \in ToSet(part(b))
    BY <2>2, <2>4
  <2>8. \A h : h \in Found(index, texts) <=> \E b \in 1..m : h \in Found(index, In(bs[b]))
    <3>1. \A h : h \in Found(index, texts)
                    <=> Qualifies(h) /\ \E t \in texts : h \in ToSet(index[t])
      BY DEF Found
    <3>2. \A b \in 1..m : \A h : h \in Found(index, In(bs[b]))
                    <=> Qualifies(h) /\ \E t \in In(bs[b]) : h \in ToSet(index[t])
      BY DEF Found
    <3>3. QED BY <1>4, <3>1, <3>2
  <2>9. ASSUME NEW b \in 1..m
        PROVE  /\ ToSet(part(b)) \subseteq Found(index, In(bs[b]))
               /\ \A h \in Found(index, In(bs[b])) :
                    \E g \in ToSet(part(b)) : g.id = h.id /\ h.score <= g.score
    <3>1. PICK p \in Seq(Hit) : p = part(b)
      BY <2>1
    <3>2. Holds(p, Found(index, In(bs[b])))
      BY <2>1, <3>1
    <3>3. QED BY <3>1, <3>2, HoldsMeans
  <2>10. /\ OncePerId(matches) /\ ToSet(matches) \subseteq ToSet(flat)
         /\ \A h \in ToSet(flat) : \E g \in ToSet(matches) : g.id = h.id /\ h.score <= g.score
    BY <2>5, HoldsMeans
  <2>11. ToSet(matches) \subseteq Found(index, texts)
    BY <2>7, <2>8, <2>9, <2>10
  <2>12. ASSUME NEW h \in Found(index, texts)
         PROVE  \E g \in ToSet(matches) : g.id = h.id /\ h.score <= g.score
    <3>1. PICK b \in 1..m : h \in Found(index, In(bs[b]))
      BY <2>8
    <3>2. PICK f \in ToSet(part(b)) : f.id = h.id /\ h.score <= f.score
      BY <2>9, <3>1
    <3>3. f \in ToSet(flat)
      BY <2>7
    <3>4. PICK g \in ToSet(matches) : g.id = f.id /\ f.score <= g.score
      BY <2>10, <3>3
    <3>5. h \in Hit
      <4>1. texts \subseteq QueryWords
        BY <1>3, TextsInWords DEF texts
      <4>2. QED BY <4>1, FoundHits
    <3>6. f \in Hit /\ g \in Hit
      BY <3>3, EntriesAre
    <3>7. h.score \in Nat /\ f.score \in Nat /\ g.score \in Nat
      BY <3>5, <3>6, HitFacts
    <3>8. h.score <= g.score
      BY <3>2, <3>4, <3>7
    <3>9. QED BY <3>2, <3>4, <3>8
  <2>13. Holds(matches, Found(index, texts))
    BY <2>10, <2>11, <2>12, HoldsMeans
  <2>14. ASSUME Len(aspects) <= n PROVE matches = Search(index, prompt, aspects, 0)
    <3>1. bs = <<aspects>> /\ m = 1 /\ bs[1] = aspects
      BY <1>1, <2>14
    <3>2. part(1) = Search(index, prompt, aspects, 0) /\ 1 \in 1..m
      BY <3>1 DEF part
    <3>3. PICK w \in Seq(Hit) : w = part(1) /\ OncePerId(w)
      BY <2>1, <3>2
    <3>4. ps = <<w>>
      <4>1. ps = [b \in 1..1 |-> w]
        BY <2>2, <2>3, <3>1, <3>2, <3>3
      <4>2. QED BY <4>1
    <3>5. flat = w
      BY <2>4, <3>4, FlattenOne
    <3>6. QED BY <2>5, <3>2, <3>3, <3>5, KeptOnce
  <2>15. QED BY <2>6, <2>13, <2>14
<1>12. QED BY <1>10, <1>11

\* Without forced artifacts the cap only cuts.
LEMMA CapNothing ==
    ASSUME NEW scored \in Seq(Hit), NEW limit
    PROVE  CapRequired(<<>>, scored, limit) = Cut(scored, limit)
<1> DEFINE keep == {h \in ToSet(scored) : h.id \notin Ids(<<>>)}
<1>1. Ids(<<>>) = {}
  BY DEF Ids
<1>2. keep = ToSet(scored)
  BY <1>1
<1>3. scored \in Seq(ToSet(scored))
  <2>1. /\ Len(scored) \in Nat /\ scored = [i \in 1..Len(scored) |-> scored[i]]
        /\ \A i \in 1..Len(scored) : scored[i] \in ToSet(scored)
    BY EntriesAre
  <2>2. scored \in [1..Len(scored) -> ToSet(scored)]
    BY <2>1
  <2>3. QED BY <2>1, <2>2, ListOf
<1>4. Only(scored, keep) = scored
  BY <1>2, <1>3, OnlyAll
<1>5. <<>> \o scored = scored
  OBVIOUS
<1>6. QED BY <1>4, <1>5 DEF CapRequired

\* Cutting a plan's aspects into batches of any size loses no match and no
\* score, whatever the index answers; what is served from the plan cache is
\* sorted (routes.py: _query_plan_aspects and _plan_cache_serve).
THEOREM BatchesOnlyReorder == RulesSpec => []BatchingOnlyReorders
<1>1. Inputs => BatchingOnlyReorders
  <2> SUFFICES ASSUME Inputs, Is("search"), NEW prompt \in Prompts,
                      NEW aspects \in AspectLists, NEW n \in BatchSizes
               PROVE  LET whole == Search(probe.index, prompt, aspects, 0)
                          matches == PlanMatches(probe.index, prompt, aspects, n)
                      IN  IF whole = Failed THEN matches = Failed
                          ELSE /\ OncePerId(matches) /\ ScoresOf(matches) = ScoresOf(whole)
                               /\ Len(aspects) <= n => matches = whole
                               /\ \A limit \in 1..MostReads :
                                      Falling(PlanCacheServe(<<>>, matches, limit))
    BY DEF BatchingOnlyReorders
  <2>1. PICK index \in [QueryWords -> Seq(Hit)] : index = probe.index
    BY RulesAssumption DEF Inputs
  <2>2. prompt \in QueryWords /\ prompt \in Words /\ aspects \in Seq(Words) /\ n \in Nat \ {0}
    BY PromptsAre, RulesAssumption DEF Words
  <2>3. PICK whole : whole = Search(index, prompt, aspects, 0)
    OBVIOUS
  <2>4. PICK matches : matches = PlanMatches(index, prompt, aspects, n)
    OBVIOUS
  <2>5. PICK texts : texts = TextsIn(prompt, aspects) /\ texts \subseteq QueryWords
    BY <2>2, TextsInWords
  <2>6. whole = Failed <=> Fails(index, texts)
    BY <2>2, <2>3, <2>5, FailedMeans
  <2>7. CASE Fails(index, texts)
    <3>1. matches = Failed
      BY <2>2, <2>4, <2>5, <2>7, PlanFacts
    <3>2. QED BY <2>1, <2>3, <2>4, <2>6, <2>7, <3>1
  <2>8. CASE ~Fails(index, texts)
    <3>1. Holds(matches, Found(index, texts)) /\ (Len(aspects) <= n => matches = whole)
      BY <2>2, <2>3, <2>4, <2>5, <2>8, PlanFacts
    <3>2. matches \in Seq(Hit) /\ OncePerId(matches)
      BY <3>1 DEF Holds
    <3>3. ScoresOf(matches) = ScoresOf(whole)
      <4>1. ScoresOf(whole) = BestScores(index, texts)
        BY <2>2, <2>3, <2>5, <2>8, SearchReturns
      <4>2. Found(index, texts) \subseteq Hit
        BY <2>5, FoundHits
      <4>3. ScoresOf(matches) = BestScores(index, texts)
        BY <3>1, <3>2, <4>2, ScoresAreBest
      <4>4. QED BY <4>1, <4>3
    <3>4. ASSUME NEW limit \in 1..MostReads PROVE Falling(PlanCacheServe(<<>>, matches, limit))
      <4>1. PICK r \in Seq(Hit) : r = BestFirst(matches) /\ Falling(r)
        BY <3>2, BestFirstFacts
      <4>2. PlanCacheServe(<<>>, matches, limit) = Cut(r, limit)
        BY <4>1, CapNothing DEF PlanCacheServe
      <4>3. limit \in Nat
        BY RulesAssumption
      <4>4. QED BY <4>1, <4>2, <4>3, CutOrder
    <3>5. whole # Failed
      BY <2>6, <2>8
    <3>6. QED BY <2>1, <2>3, <2>4, <3>1, <3>2, <3>3, <3>4, <3>5
  <2>9. QED BY <2>7, <2>8
<1>2. QED BY <1>1, InputsStay, PTL
-----------------------------------------------------------------------------
(* The gate *)

(* The gate *)

\* As many ids as hits.
LEMMA OnceCounted ==
    ASSUME NEW hits \in Seq(Hit), OncePerId(hits)
    PROVE  Cardinality(Ids(hits)) = Len(hits)
<1> DEFINE n == Len(hits)
           f == [k \in 1..n |-> hits[k].id]
<1>1. n \in Nat /\ DOMAIN hits = 1..n
  BY EntriesAre
<1>2. \A j, k \in 1..n : hits[j].id = hits[k].id => j = k
  BY OnceMeans
<1>3. f \in [1..n -> Ids(hits)] /\ \A i \in Ids(hits) : \E k \in 1..n : f[k] = i
  BY <1>1 DEF Ids
<1>4. \A j, k \in 1..n : f[j] = f[k] => j = k
  BY <1>2
<1> HIDE DEF f, n
<1>5. f \in Bijection(1..n, Ids(hits))
  BY <1>3, <1>4 DEF Bijection, Injection, Surjection, IsInjective
<1>6. ExistsBijection(1..n, Ids(hits))
  BY <1>5 DEF ExistsBijection
<1>7. IsFiniteSet(1..n) /\ Cardinality(1..n) = n
  <2>1. 0 - 1 < n /\ 1 \in Int /\ n \in Int
    BY <1>1
  <2>2. IsFiniteSet(1..n) /\ Cardinality(1..n) = IF 1 > n THEN 0 ELSE n - 1 + 1
    BY <2>1, FS_Interval
  <2>3. QED BY <1>1, <2>2
<1>8. Cardinality(Ids(hits)) = Cardinality(1..n)
  BY <1>6, <1>7, FS_Bijection
<1>9. QED BY <1>7, <1>8 DEF n

\* The forced artifacts, and after them the others that were found.
Lined(forced, scored) ==
    forced \o Only(scored, {h \in ToSet(scored) : h.id \notin Ids(forced)})

LEMMA LinedFacts ==
    ASSUME NEW forced \in Seq(Hit), OncePerId(forced),
           NEW scored \in Seq(Hit), OncePerId(scored), Falling(scored)
    PROVE  LET line == Lined(forced, scored)
               f == Len(forced)
           IN  /\ line \in Seq(Hit) /\ f <= Len(line) /\ OncePerId(line)
               /\ \A i \in 1..f : line[i] = forced[i]
               /\ \A i \in 1..Len(line) : i > f => line[i] \in ToSet(scored)
               /\ \A i, j \in 1..Len(line) : f < i /\ i < j => line[j].score <= line[i].score
               /\ Ids(line) = Ids(forced) \cup Ids(scored)
<1> DEFINE f == Len(forced)
           keep == {h \in ToSet(scored) : h.id \notin Ids(forced)}
<1>1. PICK rest \in Seq(Hit) :
        /\ rest = Only(scored, keep) /\ OncePerId(rest) /\ Falling(rest)
        /\ ToSet(rest) = ToSet(scored) \cap keep
  BY OnlyOrder, OnlySet
<1>2. ToSet(rest) = keep
  BY <1>1
<1>3. PICK line \in Seq(Hit) : line = forced \o rest
  BY Joined
<1>4. /\ Len(line) = Len(forced) + Len(rest)
      /\ \A i \in 1..Len(forced) : line[i] = forced[i]
      /\ \A i \in 1..Len(rest) : line[Len(forced) + i] = rest[i]
  BY <1>3, Joined
<1> DEFINE n == Len(line)
           r == Len(rest)
<1>5. f \in Nat /\ r \in Nat /\ n = f + r
  BY <1>4
<1>6. /\ \A i, j \in 1..f : forced[i].id = forced[j].id => i = j
      /\ \A i, j \in 1..r : rest[i].id = rest[j].id => i = j
      /\ \A i, j \in 1..r : i < j => rest[j].score <= rest[i].score
  BY <1>1, OnceMeans, FallingMeans
<1>7. /\ \A i \in 1..f : forced[i].id \in Ids(forced)
      /\ \A i \in 1..r : rest[i] \in keep
  <2>1. \A i \in 1..r : rest[i] \in ToSet(rest)
    BY EntriesAre
  <2>2. DOMAIN forced = 1..f
    BY EntriesAre
  <2>3. QED BY <1>2, <2>1, <2>2 DEF Ids
<1> HIDE DEF f, n, r
<1>8. \A i \in 1..n : i \in 1..f \/ (i - f \in 1..r /\ f + (i - f) = i /\ i > f)
  BY <1>5
<1>9. \A i \in 1..f : line[i] = forced[i]
  BY <1>4 DEF f
<1>10. \A i \in 1..n : i > f => i - f \in 1..r /\ line[i] = rest[i - f]
  <2>1. SUFFICES ASSUME NEW i \in 1..n, i > f PROVE i - f \in 1..r /\ line[i] = rest[i - f]
    OBVIOUS
  <2>2. i - f \in 1..r /\ f + (i - f) = i
    BY <1>5, <2>1
  <2>3. line[f + (i - f)] = rest[i - f]
    BY <1>4, <2>2 DEF f, r
  <2>4. QED BY <2>2, <2>3
<1>11. \A i \in 1..n : i \in 1..f \/ i > f
  BY <1>5
<1>12. OncePerId(line)
  <2>1. ASSUME NEW i \in 1..n, NEW j \in 1..n, line[i].id = line[j].id PROVE i = j
    <3>1. CASE i \in 1..f /\ j \in 1..f
      BY <1>6, <1>9, <2>1, <3>1
    <3>2. CASE i > f /\ j > f
      <4>1. i - f \in 1..r /\ j - f \in 1..r /\ rest[i - f].id = rest[j - f].id
        BY <1>10, <2>1, <3>2
      <4>2. i - f = j - f
        BY <1>6, <4>1
      <4>3. QED BY <1>5, <4>2
    <3>3. CASE i \in 1..f /\ j > f
      BY <1>7, <1>9, <1>10, <2>1, <3>3
    <3>4. CASE i > f /\ j \in 1..f
      BY <1>7, <1>9, <1>10, <2>1, <3>4
    <3>5. QED BY <1>11, <3>1, <3>2, <3>3, <3>4
  <2>2. QED BY <2>1, OnceMeans DEF n
<1>13. \A i \in 1..n : i > f => line[i] \in ToSet(scored)
  BY <1>7, <1>10
<1>14. ASSUME NEW i \in 1..n, NEW j \in 1..n, f < i, i < j
       PROVE  line[j].score <= line[i].score
  <2>1. i > f /\ j > f /\ i - f < j - f
    BY <1>5, <1>14
  <2>2. i - f \in 1..r /\ j - f \in 1..r /\ line[i] = rest[i - f] /\ line[j] = rest[j - f]
    BY <1>10, <2>1
  <2>3. QED BY <1>6, <2>1, <2>2
<1>15. Ids(line) = Ids(forced) \cup Ids(scored)
  <2>1. /\ Ids(line) = {h.id : h \in ToSet(line)}
        /\ Ids(forced) = {h.id : h \in ToSet(forced)}
        /\ Ids(scored) = {h.id : h \in ToSet(scored)}
    BY IdsAre
  <2>2. ToSet(line) = ToSet(forced) \cup keep
    BY <1>2, <1>3, JoinedSet
  <2>3. QED BY <2>1, <2>2
<1>16. f <= n
  BY <1>5
<1>17. Lined(forced, scored) = line
  BY <1>1, <1>3 DEF Lined
<1>18. QED BY <1>9, <1>12, <1>13, <1>14, <1>15, <1>16, <1>17 DEF f, n

\* What the cap leaves of the line.
LEMMA CapFits ==
    ASSUME NEW forced \in Seq(Hit), OncePerId(forced),
           NEW scored \in Seq(Hit), OncePerId(scored), Falling(scored),
           NEW limit \in Nat
    PROVE  LET all == Ids(forced) \cup Ids(scored)
               required == CapRequired(forced, scored, limit)
           IN  /\ OncePerId(required) /\ Ids(required) \subseteq all
               /\ Len(required) = IF limit < Cardinality(all) THEN limit ELSE Cardinality(all)
               /\ IsPrefix(required, forced) \/ IsPrefix(forced, required)
               /\ \A i \in Ids(required) \ Ids(forced), j \in all \ Ids(required) :
                       Score(scored, i) >= Score(scored, j)
<1> DEFINE all == Ids(forced) \cup Ids(scored)
           f == Len(forced)
<1>1. PICK line \in Seq(Hit) :
        /\ line = Lined(forced, scored) /\ f <= Len(line) /\ OncePerId(line)
        /\ \A i \in 1..f : line[i] = forced[i]
        /\ \A i \in 1..Len(line) : i > f => line[i] \in ToSet(scored)
        /\ \A i, j \in 1..Len(line) : f < i /\ i < j => line[j].score <= line[i].score
        /\ Ids(line) = all
  BY LinedFacts
<1> DEFINE n == Len(line)
<1>2. PICK req \in Seq(Hit) :
        /\ req = Cut(line, limit) /\ Len(req) = IF limit < n THEN limit ELSE n
        /\ \A i \in 1..Len(req) : req[i] = line[i] /\ i \in 1..n
        /\ OncePerId(req)
  <2>1. PICK req \in Seq(Hit) :
            /\ req = Cut(line, limit) /\ Len(req) = IF limit < n THEN limit ELSE n
            /\ \A i \in 1..Len(req) : req[i] = line[i] /\ i \in 1..n
    BY CutFacts
  <2>2. OncePerId(req)
    BY <1>1, <2>1, CutOrder
  <2>3. QED BY <2>1, <2>2
<1>3. CapRequired(forced, scored, limit) = req
  BY <1>1, <1>2 DEF CapRequired, Lined
<1> DEFINE r == Len(req)
<1>4. n \in Nat /\ f \in Nat /\ r \in Nat /\ r <= n
  BY <1>2
<1>5. DOMAIN req = 1..r /\ DOMAIN line = 1..n /\ DOMAIN forced = 1..f
  BY EntriesAre
<1>6. Ids(req) \subseteq all
  BY <1>1, <1>2, <1>5 DEF Ids
<1>7. r = IF limit < Cardinality(all) THEN limit ELSE Cardinality(all)
  <2>1. Cardinality(all) = n
    BY <1>1, OnceCounted
  <2>2. QED BY <1>2, <2>1
<1>8. IsPrefix(req, forced) \/ IsPrefix(forced, req)
  <2>1. CASE r <= f
    <3>1. \A i \in 1..r : i \in 1..f
      BY <1>4, <2>1
    <3>2. \A i \in 1..r : req[i] = forced[i]
      BY <1>1, <1>2, <3>1
    <3>3. QED BY <2>1, <3>2, PrefixIs
  <2>2. CASE f <= r
    <3>1. \A i \in 1..f : i \in 1..r
      BY <1>4, <2>2
    <3>2. \A i \in 1..f : forced[i] = req[i]
      BY <1>1, <1>2, <3>1
    <3>3. QED BY <2>2, <3>2, PrefixIs
  <2>3. QED BY <1>4, <2>1, <2>2
<1>9. ASSUME NEW i \in Ids(req) \ Ids(forced), NEW j \in all \ Ids(req)
      PROVE  Score(scored, i) >= Score(scored, j)
  <2>1. PICK p \in 1..r : req[p].id = i
    BY <1>5, <1>9 DEF Ids
  <2>2. PICK q \in 1..n : line[q].id = j
    <3>1. j \in Ids(line)
      BY <1>1, <1>9
    <3>2. QED BY <1>5, <3>1 DEF Ids
  <2>3. p \in 1..n /\ line[p].id = i
    BY <1>2, <2>1
  <2>4. p \notin 1..f
    <3>1. SUFFICES ASSUME p \in 1..f PROVE FALSE
      OBVIOUS
    <3>2. forced[p].id = i
      BY <1>1, <2>3, <3>1
    <3>3. i \in Ids(forced)
      BY <1>5, <3>1, <3>2 DEF Ids
    <3>4. QED BY <1>9, <3>3
  <2>5. q \notin 1..r
    <3>1. SUFFICES ASSUME q \in 1..r PROVE FALSE
      OBVIOUS
    <3>2. req[q].id = j
      BY <1>2, <2>2, <3>1
    <3>3. j \in Ids(req)
      BY <1>5, <3>1, <3>2 DEF Ids
    <3>4. QED BY <1>9, <3>3
  <2>6. f < p /\ p < q /\ p > f /\ q > f
    BY <1>4, <2>1, <2>2, <2>4, <2>5
  <2>7. line[q].score <= line[p].score
    BY <1>1, <2>2, <2>3, <2>6
  <2>8. PICK g \in ToSet(scored), h \in ToSet(scored) : g = line[p] /\ h = line[q]
    BY <1>1, <2>2, <2>3, <2>6
  <2>9. Score(scored, i) = g.score /\ Score(scored, j) = h.score
    <3>1. Score(scored, g.id) = g.score /\ Score(scored, h.id) = h.score
      BY ScoreIs
    <3>2. QED BY <2>2, <2>3, <2>8, <3>1
  <2>10. g.score \in Nat /\ h.score \in Nat
    <3>1. g \in Hit /\ h \in Hit
      BY EntriesAre
    <3>2. QED BY <3>1, HitFacts
  <2>11. h.score <= g.score
    BY <2>7, <2>8
  <2> SUFFICES g.score >= h.score
    BY <2>9
  <2>12. QED BY <2>10, <2>11
<1>10. QED BY <1>2, <1>3, <1>6, <1>7, <1>8, <1>9

LEMMA ExpansionType ==
    ASSUME NEW improver \in Improvers, NEW aspects \in Seq(Words)
    PROVE  Improved(improver, aspects).aspects \in Seq(Words)
<1>1. <<>> \in Seq(Words)
  OBVIOUS
<1>2. PICK u \in Seq(Words) : u = Only(aspects, QueryWords)
  <2>1. Only(aspects, QueryWords) \in Seq(Words \cap QueryWords)
    BY OnlyType
  <2>2. Only(aspects, QueryWords) \in Seq(Words)
    BY <2>1
  <2>3. QED BY <2>2
<1>3. MostAspects \in Nat
  BY RulesAssumption
<1>4. PICK v \in Seq(Words) : v = Cut(u, MostAspects)
  BY <1>3, CutFacts
<1>5. CASE improver = "off"
  BY <1>1, <1>5 DEF Improved, Expansion
<1>6. CASE improver = "answers"
  BY <1>2, <1>4, <1>6 DEF Improved, Expansion
<1>7. CASE improver = "fails"
  BY <1>1, <1>7 DEF Improved, Expansion
<1>8. QED BY <1>5, <1>6, <1>7 DEF Improvers

\* No two files of the corpus that are forced declare the same id.
ForcedAreDistinct == \A forced \in ForcedLists : OncePerId(forced)

\* What a prompt requires is one of the choices HookGates leaves open: as many
\* artifacts as the cap allows, forced ones first, none twice, and none left
\* out that beats a retrieved one that is in (routes.py: _retrieve_required and
\* _cap_required).
THEOREM PromptsFitTheGate ==
    ASSUME ForcedAreDistinct
    PROVE  RulesSpec => []PromptFitsGate
<1>1. Inputs => PromptFitsGate
  <2> SUFFICES ASSUME Inputs, Is("search"), NEW prompt \in Prompts,
                      NEW forced \in ForcedLists,
                      NEW limit \in 1..MostReads, NEW aspects \in AspectLists,
                      NEW improver \in Improvers
               PROVE
        LET expansion == Improved(improver, aspects)
            found == Search(probe.index, prompt, expansion.aspects, 0)
            scored == IF found = Failed THEN <<>> ELSE found
            all == Ids(forced) \cup Ids(scored)
            required == RetrieveRequired(probe.index, prompt, expansion, forced, limit).required
        IN  /\ OncePerId(required) /\ Ids(required) \subseteq all
            /\ Len(required) = IF limit < Cardinality(all) THEN limit ELSE Cardinality(all)
            /\ IsPrefix(required, forced) \/ IsPrefix(forced, required)
            /\ \A i \in Ids(required) \ Ids(forced), j \in all \ Ids(required) :
                    Score(scored, i) >= Score(scored, j)
    BY DEF PromptFitsGate
  <2>1. PICK index \in [QueryWords -> Seq(Hit)] : index = probe.index
    BY RulesAssumption DEF Inputs
  <2>2. prompt \in Words /\ aspects \in Seq(Words)
    BY PromptsAre DEF Words
  <2>3. PICK texts \in Seq(Words) : texts = Improved(improver, aspects).aspects
    BY <2>2, ExpansionType
  <2>4. PICK found : found = Search(index, prompt, texts, 0)
    OBVIOUS
  <2>5. PICK scored \in Seq(Hit) :
            /\ scored = IF found = Failed THEN <<>> ELSE found
            /\ OncePerId(scored) /\ Falling(scored)
    <3>1. CASE found = Failed
      <4>1. <<>> \in Seq(Hit) /\ OncePerId(<<>>) /\ Falling(<<>>)
        BY DEF OncePerId, Falling
      <4>2. QED BY <3>1, <4>1
    <3>2. CASE found # Failed
      <4>1. ~Fails(index, TextsIn(prompt, texts))
        BY <2>2, <2>4, <3>2, FailedMeans
      <4>2. found \in Seq(Hit) /\ OncePerId(found) /\ Falling(found)
        BY <2>2, <2>4, <4>1, SearchReturns
      <4>3. QED BY <3>2, <4>2
    <3>3. QED BY <3>1, <3>2
  <2>6. forced \in Seq(Hit) /\ forced # Failed /\ OncePerId(forced) /\ limit \in Nat
    BY RulesAssumption DEF ForcedAreDistinct
  <2>7. RetrieveRequired(index, prompt, Improved(improver, aspects), forced, limit).required
        = CapRequired(forced, scored, limit)
    BY <2>3, <2>4, <2>5, <2>6 DEF RetrieveRequired
  <2>8. PICK required : required = CapRequired(forced, scored, limit)
    OBVIOUS
  <2>9. LET all == Ids(forced) \cup Ids(scored)
        IN  /\ OncePerId(required) /\ Ids(required) \subseteq all
            /\ Len(required) = IF limit < Cardinality(all) THEN limit ELSE Cardinality(all)
            /\ IsPrefix(required, forced) \/ IsPrefix(forced, required)
            /\ \A i \in Ids(required) \ Ids(forced), j \in all \ Ids(required) :
                    Score(scored, i) >= Score(scored, j)
    BY <2>5, <2>6, <2>8, CapFits
  <2>10. QED BY <2>1, <2>3, <2>4, <2>5, <2>7, <2>8, <2>9
<1>2. QED BY <1>1, InputsStay, PTL
=============================================================================

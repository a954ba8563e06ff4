---------------------------- MODULE ListTheorems ----------------------------
(***************************************************************************)
(* Facts about lists and loops over them.  The library's induction         *)
(* theorems take an operator; here the induction hypothesis is a set of    *)
(* numbers, which the provers can instantiate.  From it follows that a     *)
(* fold of SequencesExt has a run: the values of its accumulator, one per  *)
(* entry.  What a loop computes is then shown as of a program, by an       *)
(* invariant of the run.                                                   *)
(***************************************************************************)
EXTENDS Lists, FiniteSets, WellFoundedInduction, TLAPS

\* A set with 0 and with every successor has all numbers.
LEMMA NatSetInduction ==
    ASSUME NEW S, 0 \in S, \A n \in Nat : n \in S => n + 1 \in S
    PROVE Nat \subseteq S
<1> DEFINE T == Nat \ S
<1>1. SUFFICES ASSUME T # {} PROVE FALSE
  OBVIOUS
<1>2. IsWellFoundedOn(OpToRel(<,Nat), Nat)
  BY NatLessThanWellFounded
<1>3. PICK m \in T : \A k \in T : <<k, m>> \notin OpToRel(<,Nat)
  <2> HIDE DEF T
  <2> T \subseteq Nat BY DEF T
  <2>1. QED BY <1>1, <1>2, WFMin
<1>4. m # 0 /\ m - 1 \in Nat /\ m - 1 < m
  OBVIOUS
<1>5. m - 1 \notin T
  BY <1>3, <1>4 DEF OpToRel
<1>6. QED BY <1>4, <1>5

\* What holds before a loop and is kept by each of its rounds holds to its end.
LEMMA LoopInduction ==
    ASSUME NEW n \in Nat, NEW I, 0 \in I, \A i \in 1..n : i - 1 \in I => i \in I
    PROVE  0..n \subseteq I /\ n \in I
<1> DEFINE S == {i \in Nat : i <= n => i \in I}
<1>1. \A i \in Nat : i \in S => i + 1 \in S
  <2>1. SUFFICES ASSUME NEW i \in Nat, i \in S, i + 1 <= n PROVE i + 1 \in I
    OBVIOUS
  <2>2. i \in I /\ i + 1 \in 1..n /\ (i + 1) - 1 = i
    BY <2>1
  <2>3. QED BY <2>2
<1>2. Nat \subseteq S
  <2> 0 \in S OBVIOUS
  <2> HIDE DEF S
  <2>1. QED BY <1>1, NatSetInduction
<1>3. QED BY <1>2

\* A number of a set that no other exceeds is its Max.
LEMMA MaxIs ==
    ASSUME NEW s, s \subseteq Nat, NEW m \in s, \A i \in s : i <= m
    PROVE  Max(s) = m
<1>1. m \in s /\ \A y \in s : m >= y
  OBVIOUS
<1>2. \A x \in s : (\A y \in s : x >= y) => x = m
  OBVIOUS
<1>3. QED BY <1>1, <1>2 DEF Max

\* Numbers up to n have a largest one.
LEMMA MaxIsThere ==
    ASSUME NEW n \in Nat, NEW s, s \subseteq 1..n, s # {}
    PROVE  Max(s) \in s /\ \A i \in s : i <= Max(s)
<1> DEFINE HasMax(u) == \E m \in u : \A i \in u : i <= m
           I == {k \in 0..n : \A u \in SUBSET (1..k) : u # {} => HasMax(u)}
<1>1. 0 \in I
  <2>1. 1..0 = {} /\ 0 \in 0..n
    OBVIOUS
  <2>2. QED BY <2>1
<1>2. ASSUME NEW k \in 1..n, k - 1 \in I PROVE k \in I
  <2>1. SUFFICES ASSUME NEW u \in SUBSET (1..k), u # {} PROVE HasMax(u)
    OBVIOUS
  <2>2. CASE k \in u
    BY <2>2
  <2>3. CASE k \notin u
    <3>1. u \in SUBSET (1..(k - 1))
      <4>1. \A i \in u : i \in 1..k /\ i # k
        BY <2>3
      <4>2. \A i \in 1..k : i # k => i \in 1..(k - 1)
        OBVIOUS
      <4>3. QED BY <4>1, <4>2
    <3>2. QED BY <1>2, <2>1, <3>1
  <2>4. QED BY <2>2, <2>3
<1>3. n \in I
  <2> HIDE DEF I
  <2>1. QED BY <1>1, <1>2, LoopInduction
<1>4. PICK m \in s : \A i \in s : i <= m
  BY <1>3
<1>5. Max(s) = m
  <2>1. s \subseteq Nat
    OBVIOUS
  <2>2. QED BY <1>4, <2>1, MaxIs
<1>6. QED BY <1>4, <1>5

\* The least of some numbers is one of them, and no other is less.
LEMMA MinIsThere ==
    ASSUME NEW s, s \subseteq Nat, s # {}
    PROVE  Min(s) \in s /\ \A i \in s : Min(s) <= i
<1>1. IsWellFoundedOn(OpToRel(<,Nat), Nat)
  BY NatLessThanWellFounded
<1>2. PICK m \in s : \A k \in s : <<k, m>> \notin OpToRel(<,Nat)
  BY <1>1, WFMin
<1>3. \A k \in s : m <= k
  <2>1. SUFFICES ASSUME NEW k \in s, k < m PROVE FALSE
    OBVIOUS
  <2>2. k \in Nat /\ m \in Nat
    OBVIOUS
  <2>3. <<k, m>> \in OpToRel(<,Nat)
    BY <2>1, <2>2 DEF OpToRel
  <2>4. QED BY <1>2, <2>3
<1>4. m \in s /\ \A y \in s : m <= y
  BY <1>3
<1>5. QED BY <1>4 DEF Min

\* f folds the first n entries of a sequence, as MapThenFoldSet does: h maps
\* the place of an entry and the value so far to the next value.
Folding(f, n, base, h) ==
    f = [s \in SUBSET (1..n) |->
            IF s = {} THEN base ELSE h[Max(s)][f[s \ {Max(s)}]]]

\* There is such a function when h stays within a set of values.
LEMMA FoldExists ==
    ASSUME NEW n \in Nat, NEW V, NEW base \in V,
           NEW h, \A i \in 1..n : \A v \in V : h[i][v] \in V
    PROVE  \E f : f \in [SUBSET (1..n) -> V] /\ Folding(f, n, base, h)
<1> DEFINE Folds(k, f) == 
        \A s \in SUBSET (1..k) :
            f[s] = IF s = {} THEN base ELSE h[Max(s)][f[s \ {Max(s)}]]
       Foldable(k) == \E f \in [SUBSET (1..k) -> V] : Folds(k, f)
       I == {k \in 0..n : Foldable(k)}
<1>1. 0 \in I
  <2>1. 1..0 = {} 
    OBVIOUS
  <2> DEFINE f == [s \in SUBSET (1..0) |-> base]
  <2>2. f \in [SUBSET (1..0) -> V] /\ \A s \in SUBSET (1..0) : s = {} /\ f[s] = base
    BY <2>1
  <2>3. Folds(0, f)
    BY <2>2
  <2> HIDE DEF f, Folds
  <2>4. Foldable(0) /\ 0 \in 0..n
    BY <2>2, <2>3
  <2> HIDE DEF Foldable
  <2>5. QED BY <2>4
<1>2. ASSUME NEW k \in 1..n, k - 1 \in I PROVE k \in I
  <2>1. PICK f \in [SUBSET (1..(k - 1)) -> V] : Folds(k - 1, f)
    BY <1>2
  <2> DEFINE g == [s \in SUBSET (1..k) |-> IF k \in s THEN h[k][f[s \ {k}]] ELSE f[s]]
  <2>2. \A s \in SUBSET (1..k) : s \ {k} \in SUBSET (1..(k - 1))
    <3>1. \A i \in 1..k : i # k => i \in 1..(k - 1)
      OBVIOUS
    <3>2. QED BY <3>1
  <2>3. \A s \in SUBSET (1..k) : g[s] \in V
    <3>1. SUFFICES ASSUME NEW s \in SUBSET (1..k) PROVE g[s] \in V
      OBVIOUS
    <3>2. CASE k \in s
      <4>1. f[s \ {k}] \in V
        BY <2>1, <2>2
      <4>2. QED BY <3>2, <4>1
    <3>3. CASE k \notin s
      BY <2>1, <2>2, <3>3
    <3>4. QED BY <3>2, <3>3
  <2>4. ASSUME NEW s \in SUBSET (1..k)
        PROVE  g[s] = IF s = {} THEN base ELSE h[Max(s)][g[s \ {Max(s)}]]
    <3>1. CASE k \in s
      <4>1. Max(s) = k
        BY <3>1, MaxIs
      <4>2. g[s \ {k}] = f[s \ {k}]
        BY <2>2
      <4>3. QED BY <3>1, <4>1, <4>2
    <3>2. CASE k \notin s
      <4>1. s \in SUBSET (1..(k - 1)) /\ s \ {Max(s)} \in SUBSET (1..(k - 1))
        BY <3>2, <2>2
      <4>2. g[s] = f[s] /\ g[s \ {Max(s)}] = f[s \ {Max(s)}]
        BY <3>2, <4>1
      <4>3. QED BY <2>1, <4>1, <4>2
    <3>3. QED BY <3>1, <3>2
  <2>5. g \in [SUBSET (1..k) -> V]
    BY <2>3
  <2>6. Folds(k, g)
    BY <2>4
  <2> HIDE DEF g, Folds
  <2>7. Foldable(k)
    BY <2>5, <2>6
  <2>8. k \in 0..n
    OBVIOUS
  <2> HIDE DEF Foldable
  <2>9. QED BY <2>7, <2>8
<1>3. n \in I
  <2> HIDE DEF I
  <2>1. QED BY <1>1, <1>2, LoopInduction
<1>4. PICK f \in [SUBSET (1..n) -> V] : Folds(n, f)
  BY <1>3
<1>5. Folding(f, n, base, h)
  BY <1>4 DEF Folding
<1>6. QED BY <1>5

\* The sets of places a fold over a list goes through.
LEMMA Prefixed ==
    ASSUME NEW n \in Nat, NEW i \in 1..n
    PROVE  /\ 1..i \in SUBSET (1..n) /\ 1..i # {}
           /\ Max(1..i) = i /\ (1..i) \ {i} = 1..(i - 1)
<1>1. 1..i \in SUBSET (1..n) /\ i \in 1..i
  OBVIOUS
<1>2. Max(1..i) = i
  <2>1. 1..i \subseteq Nat /\ \A j \in 1..i : j <= i
    OBVIOUS
  <2>2. QED BY <1>1, <2>1, MaxIs
<1>3. (1..i) \ {i} = 1..(i - 1)
  OBVIOUS
<1>4. QED BY <1>1, <1>2, <1>3

\* Lists of the same entries are one.
LEMMA SameEntries ==
    ASSUME NEW S, NEW s \in Seq(S), NEW t \in Seq(S), Len(s) = Len(t),
           \A i \in 1..Len(s) : s[i] = t[i]
    PROVE  s = t
<1>1. s = [i \in 1..Len(s) |-> s[i]] /\ t = [i \in 1..Len(t) |-> t[i]]
  OBVIOUS
<1>2. [i \in 1..Len(s) |-> s[i]] = [i \in 1..Len(t) |-> t[i]]
  OBVIOUS
<1>3. QED BY <1>1, <1>2

\* What a list made of others contains.
LEMMA ContainsFacts ==
    ASSUME NEW S, NEW s \in Seq(S), NEW t \in Seq(S), NEW x \in S, NEW e
    PROVE  /\ Contains(s \o t, e) <=> Contains(s, e) \/ Contains(t, e)
           /\ Contains(Append(s, x), e) <=> Contains(s, e) \/ x = e
           /\ s # <<>> /\ s[1] = e => Contains(s, e)
<1> DEFINE m == Len(s)
           n == Len(t)
<1>1. m \in Nat /\ n \in Nat /\ s \o t \in Seq(S) /\ Len(s \o t) = m + n
  OBVIOUS
<1>2. /\ \A k \in 1..m : (s \o t)[k] = s[k]
      /\ \A k \in 1..n : (s \o t)[m + k] = t[k]
  OBVIOUS
<1>3. ASSUME Contains(s, e) PROVE Contains(s \o t, e)
  <2>1. PICK k \in 1..m : s[k] = e
    BY <1>3 DEF Contains
  <2>2. k \in 1..(m + n)
    BY <1>1
  <2>3. QED BY <1>1, <1>2, <2>1, <2>2 DEF Contains
<1>4. ASSUME Contains(t, e) PROVE Contains(s \o t, e)
  <2>1. PICK k \in 1..n : t[k] = e
    BY <1>4 DEF Contains
  <2>2. m + k \in 1..(m + n)
    BY <1>1
  <2>3. QED BY <1>1, <1>2, <2>1, <2>2 DEF Contains
<1>5. ASSUME Contains(s \o t, e) PROVE Contains(s, e) \/ Contains(t, e)
  <2>1. PICK k \in 1..(m + n) : (s \o t)[k] = e
    BY <1>1, <1>5 DEF Contains
  <2>2. CASE k \in 1..m
    BY <1>2, <2>1, <2>2 DEF Contains
  <2>3. CASE k \notin 1..m
    <3>1. k - m \in 1..n /\ m + (k - m) = k
      BY <1>1, <2>3
    <3>2. t[k - m] = e
      BY <1>2, <2>1, <3>1
    <3>3. QED BY <3>1, <3>2 DEF Contains
  <2>4. QED BY <2>2, <2>3
<1>6. Contains(Append(s, x), e) <=> Contains(s, e) \/ x = e
  BY DEF Contains
<1>7. s # <<>> /\ s[1] = e => Contains(s, e)
  BY DEF Contains
<1>8. QED BY <1>3, <1>4, <1>5, <1>6, <1>7

\* The entries of a list: its head, and those of its tail.
LEMMA HeadAndTail ==
    ASSUME NEW S, NEW s \in Seq(S), s # <<>>
    PROVE  /\ Head(s) \in S /\ Tail(s) \in Seq(S)
           /\ Len(s) = 1 => ToSet(Tail(s)) = {}
           /\ Len(s) # 1 => Tail(s) # <<>>
           /\ \A x \in ToSet(s) : x = Head(s) \/ x \in ToSet(Tail(s))
<1> DEFINE n == Len(s)
           t == Tail(s)
<1>1. n \in Nat /\ n # 0 /\ Head(s) \in S /\ Tail(s) \in Seq(S) /\ Len(Tail(s)) = n - 1
      /\ Head(s) = s[1] /\ \A i \in 1..(n - 1) : t[i] = s[i + 1]
  OBVIOUS
<1>2. DOMAIN s = 1..n /\ DOMAIN t = 1..(n - 1)
  BY <1>1
<1> HIDE DEF n, t
<1>3. ASSUME NEW x \in ToSet(s) PROVE x = Head(s) \/ x \in ToSet(t)
  <2>1. PICK i \in 1..n : x = s[i]
    BY <1>2 DEF ToSet
  <2>2. CASE i = 1
    BY <1>1, <2>1, <2>2
  <2>3. CASE i # 1
    <3>1. i - 1 \in 1..(n - 1) /\ (i - 1) + 1 = i
      BY <1>1, <2>3
    <3>2. t[i - 1] = x
      BY <1>1, <2>1, <3>1
    <3>3. QED BY <1>2, <3>1, <3>2 DEF ToSet
  <2>4. QED BY <2>2, <2>3
<1>4. n = 1 => ToSet(t) = {}
  BY <1>1, <1>2 DEF ToSet
<1>5. n # 1 => t # <<>>
  <2>1. Len(t) = n - 1
    BY <1>1 DEF t
  <2>2. Len(<<>>) = 0
    OBVIOUS
  <2>3. QED BY <1>1, <2>1, <2>2
<1>6. QED BY <1>1, <1>3, <1>4, <1>5 DEF n, t
-----------------------------------------------------------------------------
(* Only *)

\* A round of the filter.
Kept(kept, x, keep) == IF x \in keep THEN Append(kept, x) ELSE kept

LEMMA OnlyRuns ==
    ASSUME NEW S, NEW s \in Seq(S), NEW keep
    PROVE  \E run : /\ run[0] = <<>>
                    /\ \A i \in 1..Len(s) : run[i] = Kept(run[i - 1], s[i], keep)
                    /\ Only(s, keep) = run[Len(s)]
<1> DEFINE n == Len(s)
           h == [i \in 1..n |-> [v \in Seq(S) |-> Kept(v, s[i], keep)]]
           Is(f) == f = [u \in SUBSET (1..n) |->
                            IF u = {} THEN <<>>
                            ELSE Kept(f[u \ {Max(u)}], s[Max(u)], keep)]
           fold == CHOOSE f : Is(f)
<1>1. DOMAIN s = 1..n /\ n \in Nat
  OBVIOUS
<1>2. \A i \in 1..n : \A v \in Seq(S) : h[i][v] = Kept(v, s[i], keep) /\ h[i][v] \in Seq(S)
  BY DEF Kept
<1>3. PICK f : f \in [SUBSET (1..n) -> Seq(S)] /\ Folding(f, n, <<>>, h)
  <2>1. <<>> \in Seq(S)
    OBVIOUS
  <2>2. \A i \in 1..n : \A v \in Seq(S) : h[i][v] \in Seq(S)
    BY <1>2
  <2> HIDE DEF h, n
  <2>3. QED BY <1>1, <2>1, <2>2, FoldExists
<1>4. Is(f)
  <2>1. ASSUME NEW u \in SUBSET (1..n), u # {}
        PROVE  Max(u) \in 1..n /\ f[u \ {Max(u)}] \in Seq(S)
    BY <1>1, <1>3, <2>1, MaxIsThere
  <2> HIDE DEF h
  <2>2. QED BY <1>2, <1>3, <2>1 DEF Folding
<1>5. Is(fold)
  <2> HIDE DEF Is
  <2>1. QED BY <1>4
<1>6. Only(s, keep) = fold[1..n]
  BY <1>1 DEF Only, FoldLeft, MapThenFoldSet, Kept
<1> DEFINE run == [i \in 0..n |-> fold[1..i]]
<1>7. run[0] = <<>>
  <2>1. 1..0 = {} /\ 1..0 \in SUBSET (1..n) /\ 0 \in 0..n
    BY <1>1
  <2> HIDE DEF fold
  <2>2. QED BY <1>5, <2>1
<1>8. ASSUME NEW i \in 1..n PROVE run[i] = Kept(run[i - 1], s[i], keep)
  <2>1. i \in 0..n /\ i - 1 \in 0..n
    BY <1>1
  <2> HIDE DEF fold
  <2>2. 1..i \in SUBSET (1..n) /\ 1..i # {} /\ Max(1..i) = i /\ (1..i) \ {i} = 1..(i - 1)
    BY <1>1, Prefixed
  <2>3. fold[1..i] = Kept(fold[(1..i) \ {i}], s[i], keep)
    BY <1>5, <2>2
  <2>4. QED BY <2>1, <2>2, <2>3
<1>9. run[n] = Only(s, keep)
  BY <1>1, <1>6
<1> HIDE DEF run
<1>10. QED BY <1>7, <1>8, <1>9

\* The list of the first i entries.
Upto(s, i) == SubSeq(s, 1, i)

LEMMA UptoFacts ==
    ASSUME NEW S, NEW s \in Seq(S)
    PROVE  /\ Upto(s, 0) = <<>> /\ Upto(s, Len(s)) = s
           /\ \A i \in 0..Len(s) : Upto(s, i) \in Seq(S) /\ Len(Upto(s, i)) = i
           /\ \A i \in 1..Len(s) : Upto(s, i) = Append(Upto(s, i - 1), s[i])
<1>1. \A i \in 0..Len(s) : /\ Upto(s, i) = [k \in 1..i |-> s[k]]
                           /\ Upto(s, i) \in Seq(S) /\ Len(Upto(s, i)) = i
  BY DEF Upto
<1>2. Len(s) \in Nat /\ s = [k \in 1..Len(s) |-> s[k]]
  OBVIOUS
<1>3. ASSUME NEW i \in 1..Len(s) PROVE Upto(s, i) = Append(Upto(s, i - 1), s[i])
  <2>1. i - 1 \in 0..Len(s) /\ i \in 0..Len(s) /\ s[i] \in S
    BY <1>2
  <2>2. Append(Upto(s, i - 1), s[i]) \in Seq(S) /\ Len(Append(Upto(s, i - 1), s[i])) = i
    BY <1>1, <2>1
  <2>3. \A k \in 1..i : Upto(s, i)[k] = Append(Upto(s, i - 1), s[i])[k]
    BY <1>1, <2>1
  <2>4. Upto(s, i) \in Seq(S) /\ Len(Upto(s, i)) = i
    BY <1>1, <2>1
  <2>5. QED BY <2>2, <2>3, <2>4, SameEntries
<1>4. Upto(s, 0) = <<>>
  BY <1>1, <1>2
<1>5. Upto(s, Len(s)) = s
  BY <1>1, <1>2
<1>6. QED BY <1>1, <1>3, <1>4, <1>5

LEMMA OnlyOfNone == ASSUME NEW keep PROVE Only(<<>>, keep) = <<>>
<1>1. <<>> \in Seq({}) /\ Len(<<>>) = 0
  OBVIOUS
<1>2. QED BY <1>1, OnlyRuns

\* A filter takes one entry after the other.
LEMMA OnlyAppend ==
    ASSUME NEW S, NEW s \in Seq(S), NEW x \in S, NEW keep
    PROVE  Only(Append(s, x), keep) = Kept(Only(s, keep), x, keep)
<1> DEFINE t == Append(s, x)
           n == Len(s)
<1>1. n \in Nat /\ t \in Seq(S) /\ Len(t) = n + 1 /\ t[n + 1] = x /\ \A i \in 1..n : t[i] = s[i]
  OBVIOUS
<1> HIDE DEF t
<1>2. PICK a : /\ a[0] = <<>>
               /\ \A i \in 1..n : a[i] = Kept(a[i - 1], s[i], keep)
               /\ Only(s, keep) = a[n]
  BY OnlyRuns
<1>3. PICK b : /\ b[0] = <<>>
               /\ \A i \in 1..(n + 1) : b[i] = Kept(b[i - 1], t[i], keep)
               /\ Only(t, keep) = b[n + 1]
  BY <1>1, OnlyRuns
<1>4. a[n] = b[n]
  <2> DEFINE I == {i \in 0..n : a[i] = b[i]}
  <2>1. 0 \in I
    BY <1>1, <1>2, <1>3
  <2>2. ASSUME NEW i \in 1..n, i - 1 \in I PROVE i \in I
    <3>1. i \in 0..n /\ i \in 1..(n + 1)
      BY <1>1
    <3>2. QED BY <1>1, <1>2, <1>3, <2>2, <3>1
  <2>3. n \in I
    <3> HIDE DEF I, n
    <3>1. QED BY <1>1, <2>1, <2>2, LoopInduction
  <2>4. QED BY <2>3
<1>5. n + 1 \in 1..(n + 1) /\ (n + 1) - 1 = n
  BY <1>1
<1>6. QED BY <1>1, <1>2, <1>3, <1>4, <1>5 DEF t

LEMMA OnlyType ==
    ASSUME NEW S, NEW s \in Seq(S), NEW keep
    PROVE  Only(s, keep) \in Seq(S \cap keep)
<1> DEFINE n == Len(s)
           I == {i \in 0..n : Only(Upto(s, i), keep) \in Seq(S \cap keep)}
<1>1. n \in Nat
  OBVIOUS
<1>2. 0 \in I
  BY <1>1, UptoFacts, OnlyOfNone
<1>3. ASSUME NEW i \in 1..n, i - 1 \in I PROVE i \in I
  <2>1. i - 1 \in 0..n /\ i \in 0..n /\ s[i] \in S
    BY <1>1
  <2>2. Only(Upto(s, i), keep) = Kept(Only(Upto(s, i - 1), keep), s[i], keep)
    <3>1. Upto(s, i) = Append(Upto(s, i - 1), s[i]) /\ Upto(s, i - 1) \in Seq(S)
      BY <2>1, UptoFacts
    <3>2. QED BY <2>1, <3>1, OnlyAppend
  <2>3. Only(Upto(s, i - 1), keep) \in Seq(S \cap keep)
    BY <1>3
  <2>4. Kept(Only(Upto(s, i - 1), keep), s[i], keep) \in Seq(S \cap keep)
    BY <2>1, <2>3 DEF Kept
  <2>5. QED BY <2>1, <2>2, <2>4
<1>4. n \in I
  <2> HIDE DEF I, n
  <2>1. QED BY <1>1, <1>2, <1>3, LoopInduction
<1>5. QED BY <1>4, UptoFacts

LEMMA OnlyConcat ==
    ASSUME NEW S, NEW s \in Seq(S), NEW t \in Seq(S), NEW keep
    PROVE  Only(s \o t, keep) = Only(s, keep) \o Only(t, keep)
<1> DEFINE n == Len(t)
           I == {i \in 0..n : Only(s \o Upto(t, i), keep)
                              = Only(s, keep) \o Only(Upto(t, i), keep)}
<1>1. n \in Nat /\ Only(s, keep) \in Seq(S)
  <2>1. Only(s, keep) \in Seq(S \cap keep)
    BY OnlyType
  <2>2. QED BY <2>1
<1>2. 0 \in I
  <2>1. s \o <<>> = s /\ Only(s, keep) \o <<>> = Only(s, keep)
    BY <1>1
  <2>2. Upto(t, 0) = <<>> /\ 0 \in 0..n /\ Only(<<>>, keep) = <<>>
    BY <1>1, UptoFacts, OnlyOfNone
  <2>3. QED BY <2>1, <2>2
<1>3. ASSUME NEW i \in 1..n, i - 1 \in I PROVE i \in I
  <2> DEFINE p == Upto(t, i - 1)
             x == t[i]
  <2>1. /\ i - 1 \in 0..n /\ i \in 0..n /\ x \in S
        /\ p \in Seq(S) /\ Upto(t, i) = Append(p, x)
    <3>1. i - 1 \in 0..Len(t) /\ i \in 1..Len(t) /\ i \in 0..n /\ x \in S
      BY <1>1
    <3>2. QED BY <3>1, UptoFacts
  <2>2. Only(s \o p, keep) = Only(s, keep) \o Only(p, keep)
    BY <1>3
  <2>3. Only(p, keep) \in Seq(S)
    <3>1. Only(p, keep) \in Seq(S \cap keep)
      BY <2>1, OnlyType
    <3>2. QED BY <3>1
  <2> HIDE DEF p, x
  <2>4. s \o Append(p, x) = Append(s \o p, x) /\ s \o p \in Seq(S)
    BY <2>1
  <2>5. Only(s \o Append(p, x), keep) = Kept(Only(s \o p, keep), x, keep)
    BY <2>1, <2>4, OnlyAppend
  <2>6. Only(Append(p, x), keep) = Kept(Only(p, keep), x, keep)
    BY <2>1, OnlyAppend
  <2>7. Only(s, keep) \o Append(Only(p, keep), x) = Append(Only(s, keep) \o Only(p, keep), x)
    BY <1>1, <2>1, <2>3
  <2>8. Only(s \o Append(p, x), keep) = Only(s, keep) \o Only(Append(p, x), keep)
    BY <2>2, <2>5, <2>6, <2>7 DEF Kept
  <2>9. QED BY <2>1, <2>8
<1>4. n \in I
  <2> HIDE DEF I, n
  <2>1. QED BY <1>1, <1>2, <1>3, LoopInduction
<1>5. QED BY <1>4, UptoFacts

\* A filter that everything passes.
LEMMA OnlyAll ==
    ASSUME NEW keep, NEW s \in Seq(keep) PROVE Only(s, keep) = s
<1> DEFINE n == Len(s)
           I == {i \in 0..n : Only(Upto(s, i), keep) = Upto(s, i)}
<1>1. n \in Nat /\ \A i \in 1..n : s[i] \in keep
  OBVIOUS
<1>2. 0 \in I
  BY <1>1, UptoFacts, OnlyOfNone
<1>3. ASSUME NEW i \in 1..n, i - 1 \in I PROVE i \in I
  <2>1. i - 1 \in 0..n /\ i \in 0..n /\ s[i] \in keep
    BY <1>1
  <2>2. Upto(s, i) = Append(Upto(s, i - 1), s[i]) /\ Upto(s, i - 1) \in Seq(keep)
    BY <2>1, UptoFacts
  <2>3. Only(Append(Upto(s, i - 1), s[i]), keep) = Kept(Only(Upto(s, i - 1), keep), s[i], keep)
    BY <2>1, <2>2, OnlyAppend
  <2>4. QED BY <1>3, <2>1, <2>2, <2>3 DEF Kept
<1>4. n \in I
  <2> HIDE DEF I, n
  <2>1. QED BY <1>1, <1>2, <1>3, LoopInduction
<1>5. QED BY <1>4, UptoFacts
-----------------------------------------------------------------------------
(* The entries of lists made of others *)

LEMMA Stretch ==
    ASSUME NEW S, NEW s \in Seq(S), NEW a \in Nat \ {0}, NEW b \in Nat, b <= Len(s)
    PROVE  SubSeq(s, a, b) \in Seq(S)
OBVIOUS

LEMMA Joined ==
    ASSUME NEW S, NEW s \in Seq(S), NEW t \in Seq(S)
    PROVE  /\ s \o t \in Seq(S) /\ Len(s \o t) = Len(s) + Len(t)
           /\ \A i \in 1..Len(s) : (s \o t)[i] = s[i]
           /\ \A i \in 1..Len(t) : (s \o t)[Len(s) + i] = t[i]
OBVIOUS

\* The entries of a list, by their places.
LEMMA EntriesAre ==
    ASSUME NEW S, NEW s \in Seq(S)
    PROVE  /\ DOMAIN s = 1..Len(s) /\ Len(s) \in Nat
           /\ \A i \in 1..Len(s) : s[i] \in ToSet(s) /\ s[i] \in S
           /\ \A x \in ToSet(s) : x \in S /\ \E i \in 1..Len(s) : s[i] = x
BY DEF ToSet

LEMMA JoinedSet ==
    ASSUME NEW S, NEW s \in Seq(S), NEW t \in Seq(S)
    PROVE  ToSet(s \o t) = ToSet(s) \cup ToSet(t)
<1> DEFINE m == Len(s)
           n == Len(t)
<1>1. PICK u \in Seq(S) : u = s \o t
  BY Joined
<1>2. /\ Len(u) = m + n
      /\ \A i \in 1..m : u[i] = s[i]
      /\ \A i \in 1..n : u[m + i] = t[i]
  BY <1>1, Joined
<1>3. /\ DOMAIN u = 1..m + n /\ DOMAIN s = 1..m /\ DOMAIN t = 1..n /\ m \in Nat /\ n \in Nat
  BY <1>2, EntriesAre
<1> HIDE DEF m, n
<1>4. ASSUME NEW x \in ToSet(u) PROVE x \in ToSet(s) \cup ToSet(t)
  <2>1. PICK k \in 1..m + n : u[k] = x
    BY <1>3 DEF ToSet
  <2>2. CASE k \in 1..m
    BY <1>2, <1>3, <2>1, <2>2 DEF ToSet
  <2>3. CASE k \notin 1..m
    <3>1. k - m \in 1..n /\ m + (k - m) = k
      BY <1>3, <2>3
    <3>2. t[k - m] = x
      BY <1>2, <2>1, <3>1
    <3>3. QED BY <1>3, <3>1, <3>2 DEF ToSet
  <2>4. QED BY <2>2, <2>3
<1>5. ASSUME NEW x \in ToSet(s) PROVE x \in ToSet(u)
  <2>1. PICK k \in 1..m : s[k] = x
    BY <1>3 DEF ToSet
  <2>2. k \in 1..m + n
    BY <1>3
  <2>3. QED BY <1>2, <1>3, <2>1, <2>2 DEF ToSet
<1>6. ASSUME NEW x \in ToSet(t) PROVE x \in ToSet(u)
  <2>1. PICK k \in 1..n : t[k] = x
    BY <1>3 DEF ToSet
  <2>2. m + k \in 1..m + n
    BY <1>3
  <2>3. QED BY <1>2, <1>3, <2>1, <2>2 DEF ToSet
<1>7. QED BY <1>1, <1>4, <1>5, <1>6

LEMMA AppendedSet ==
    ASSUME NEW S, NEW s \in Seq(S), NEW x \in S
    PROVE  ToSet(Append(s, x)) = ToSet(s) \cup {x}
<1> DEFINE n == Len(s)
<1>1. PICK u \in Seq(S) : u = Append(s, x)
  <2>1. Append(s, x) \in Seq(S)
    OBVIOUS
  <2>2. QED BY <2>1
<1>2. Len(u) = n + 1 /\ u[n + 1] = x /\ \A i \in 1..n : u[i] = s[i]
  BY <1>1
<1>3. DOMAIN u = 1..n + 1 /\ DOMAIN s = 1..n /\ n \in Nat
  BY <1>2, EntriesAre
<1> HIDE DEF n
<1>4. 1..n + 1 = (1..n) \cup {n + 1}
  BY <1>3
<1>5. ToSet(u) = ToSet(s) \cup {x}
  BY <1>2, <1>3, <1>4 DEF ToSet
<1>6. QED BY <1>1, <1>5

LEMMA EmptySet == ToSet(<<>>) = {}
<1>1. DOMAIN <<>> = {}
  OBVIOUS
<1>2. QED BY <1>1 DEF ToSet

\* A filter keeps the entries it is for.
LEMMA OnlySet ==
    ASSUME NEW S, NEW s \in Seq(S), NEW keep
    PROVE  ToSet(Only(s, keep)) = ToSet(s) \cap keep
<1> DEFINE n == Len(s)
           I == {i \in 0..n : ToSet(Only(Upto(s, i), keep)) = ToSet(Upto(s, i)) \cap keep}
<1>1. n \in Nat
  OBVIOUS
<1>2. 0 \in I
  BY <1>1, UptoFacts, OnlyOfNone, EmptySet
<1>3. ASSUME NEW i \in 1..n, i - 1 \in I PROVE i \in I
  <2>1. i - 1 \in 0..n /\ i \in 0..n /\ s[i] \in S
    BY <1>1
  <2>2. PICK t \in Seq(S) : t = Upto(s, i - 1)
    BY <2>1, UptoFacts
  <2>3. Upto(s, i) = Append(t, s[i])
    BY <2>2, UptoFacts
  <2>4. PICK x \in S : x = s[i]
    BY <2>1
  <2>5. Only(Upto(s, i), keep) = Kept(Only(t, keep), x, keep)
    BY <2>3, <2>4, OnlyAppend
  <2>6. PICK u \in Seq(S \cap keep) : u = Only(t, keep)
    BY OnlyType
  <2>7. ToSet(u) = ToSet(t) \cap keep
    BY <1>3, <2>2, <2>6
  <2>8. ToSet(Upto(s, i)) = ToSet(t) \cup {x}
    BY <2>3, <2>4, AppendedSet
  <2>9. CASE x \in keep
    <3>1. ToSet(Append(u, x)) = ToSet(u) \cup {x}
      BY <2>9, AppendedSet
    <3>2. Only(Upto(s, i), keep) = Append(u, x)
      BY <2>5, <2>6, <2>9 DEF Kept
    <3>3. QED BY <2>1, <2>7, <2>8, <2>9, <3>1, <3>2
  <2>10. CASE x \notin keep
    <3>1. Only(Upto(s, i), keep) = u
      BY <2>5, <2>6, <2>10 DEF Kept
    <3>2. QED BY <2>1, <2>7, <2>8, <2>10, <3>1
  <2>11. QED BY <2>9, <2>10
<1>4. n \in I
  <2> HIDE DEF I
  <2>1. QED BY <1>1, <1>2, <1>3, LoopInduction
<1>5. QED BY <1>4, UptoFacts

\* The first of some places, or 0: what SelectInSeq returns.
Foremost(I) == IF I # {} THEN Min(I) ELSE 0

LEMMA ForemostFacts ==
    ASSUME NEW n \in Nat, NEW I, I \subseteq 1..n
    PROVE  \/ Foremost(I) = 0 /\ I = {}
           \/ Foremost(I) \in I /\ \A i \in 1..Foremost(I) - 1 : i \notin I
<1>1. CASE I = {}
  BY <1>1 DEF Foremost
<1>2. CASE I # {}
  <2>1. Foremost(I) \in I /\ \A i \in I : Foremost(I) <= i
    <3>1. I \subseteq Nat
      OBVIOUS
    <3>2. QED BY <1>2, <3>1, MinIsThere DEF Foremost
  <2>2. PICK m \in 1..n : m = Foremost(I)
    BY <2>1
  <2>3. QED BY <2>1, <2>2
<1>3. QED BY <1>1, <1>2

\* A list of lists, one after the other.
LEMMA FlattenFacts ==
    ASSUME NEW S, NEW seqs \in Seq(Seq(S))
    PROVE  /\ FlattenSeq(seqs) \in Seq(S)
           /\ \A x : x \in ToSet(FlattenSeq(seqs)) <=>
                        \E k \in 1..Len(seqs) : x \in ToSet(seqs[k])
<1> DEFINE n == Len(seqs)
           V == Seq(S)
           h == [i \in 1..n |-> [v \in V |-> v \o seqs[i]]]
           IsFlat(f) == f = [i \in 1..n |-> IF i = 1 THEN seqs[i] ELSE f[i - 1] \o seqs[i]]
           flatten == CHOOSE f : IsFlat(f)
<1>1. n \in Nat /\ \A i \in 1..n : seqs[i] \in V
  OBVIOUS
<1>2. \A i \in 1..n : \A v \in V : h[i][v] = v \o seqs[i] /\ h[i][v] \in V
  BY <1>1, Joined
<1>3. PICK f : f \in [SUBSET (1..n) -> V] /\ Folding(f, n, <<>>, h)
  <2>1. <<>> \in V
    OBVIOUS
  <2> HIDE DEF h, V, n
  <2>2. QED BY <1>1, <1>2, <2>1, FoldExists
<1> DEFINE g == [i \in 1..n |-> f[1..i]]
<1>4. ASSUME NEW i \in 1..n PROVE g[i] = IF i = 1 THEN seqs[i] ELSE g[i - 1] \o seqs[i]
  <2>1. f[1..i] = h[i][f[1..i - 1]] /\ f[1..i - 1] \in V /\ f[1..0] = <<>>
    <3>1. 1..0 = {} /\ 1..0 \in SUBSET (1..n) /\ 1..i - 1 \in SUBSET (1..n)
      BY <1>1
    <3>2. /\ 1..i \in SUBSET (1..n) /\ 1..i # {} /\ Max(1..i) = i
          /\ (1..i) \ {i} = 1..i - 1
      <4> HIDE DEF n
      <4>1. QED BY <1>1, Prefixed
    <3> HIDE DEF h, V, n
    <3>3. f[1..i] = h[Max(1..i)][f[(1..i) \ {Max(1..i)}]] /\ f[1..0] = <<>>
      BY <1>3, <3>1, <3>2 DEF Folding
    <3>4. f[1..i - 1] \in V
      BY <1>3, <3>1
    <3>5. QED BY <3>2, <3>3, <3>4
  <2>2. f[1..i] = f[1..i - 1] \o seqs[i]
    BY <1>2, <2>1
  <2>3. CASE i = 1
    <3>1. PICK s \in V : s = seqs[i]
      BY <1>1
    <3>2. <<>> \o s = s
      OBVIOUS
    <3>3. f[1..i] = s
      <4>1. i - 1 = 0
        BY <2>3
      <4> HIDE DEF h, V
      <4>2. QED BY <2>1, <2>2, <3>1, <3>2, <4>1
    <3>4. QED BY <2>3, <3>1, <3>3
  <2>4. CASE i # 1
    <3>1. i - 1 \in 1..n
      BY <1>1, <2>4
    <3>2. QED BY <2>2, <2>4, <3>1
  <2>5. QED BY <2>3, <2>4
<1>5. IsFlat(flatten)
  <2>1. IsFlat(g)
    <3> HIDE DEF n
    <3>1. QED BY <1>4
  <2> HIDE DEF IsFlat
  <2>2. QED BY <2>1
<1>6. n # 0 => FlattenSeq(seqs) = flatten[n]
  BY DEF FlattenSeq
<1> DEFINE In(x, i) == \E k \in 1..i : x \in ToSet(seqs[k])
           I == {i \in 0..n : i # 0 => /\ flatten[i] \in V
                                       /\ \A x : x \in ToSet(flatten[i]) <=> In(x, i)}
<1>7. ASSUME NEW i \in 1..n, i - 1 \in I PROVE i \in I
  <2> HIDE DEF flatten
  <2>1. flatten[i] = IF i = 1 THEN seqs[i] ELSE flatten[i - 1] \o seqs[i]
    BY <1>5
  <2>2. PICK s \in V : s = seqs[i]
    BY <1>1
  <2>3. CASE i = 1
    <3>1. flatten[i] = s /\ 1..i = {1}
      BY <2>1, <2>2, <2>3
    <3>2. \A x : x \in ToSet(flatten[i]) <=> In(x, i)
      BY <2>2, <2>3, <3>1
    <3>3. QED BY <2>2, <3>1, <3>2
  <2>4. CASE i # 1
    <3>1. i - 1 # 0 /\ 1..i = (1..i - 1) \cup {i}
      BY <2>4
    <3>2. PICK t \in V : t = flatten[i - 1]
      BY <1>7, <3>1
    <3>3. flatten[i] = t \o s
      BY <2>1, <2>2, <2>4, <3>2
    <3>4. flatten[i] \in V /\ ToSet(flatten[i]) = ToSet(t) \cup ToSet(s)
      BY <3>3, Joined, JoinedSet
    <3>5. \A x : x \in ToSet(t) <=> In(x, i - 1)
      BY <1>7, <3>1, <3>2
    <3>6. \A x : x \in ToSet(flatten[i]) <=> In(x, i)
      BY <2>2, <3>1, <3>4, <3>5
    <3>7. QED BY <3>4, <3>6
  <2>5. QED BY <2>3, <2>4
<1>8. n \in I
  <2>1. 0 \in I
    BY <1>1
  <2> HIDE DEF I, n
  <2>2. QED BY <1>1, <1>7, <2>1, LoopInduction
<1>9. CASE n = 0
  <2>1. seqs = <<>> /\ FlattenSeq(seqs) = seqs
    BY <1>9 DEF FlattenSeq
  <2>2. <<>> \in Seq(S)
    OBVIOUS
  <2>3. 1..Len(seqs) = {}
    BY <1>9
  <2>4. QED BY <2>1, <2>2, <2>3, EmptySet
<1>10. CASE n # 0
  <2> HIDE DEF flatten
  <2>1. QED BY <1>6, <1>8, <1>10
<1>11. QED BY <1>9, <1>10

LEMMA FlattenOne ==
    ASSUME NEW s
    PROVE  FlattenSeq(<<s>>) = s
<1> DEFINE IsFlat(f) == f = [i \in 1..1 |-> IF i = 1 THEN s ELSE f[i - 1] \o s]
           flatten == CHOOSE f : IsFlat(f)
<1>1. IsFlat(flatten)
  <2>1. IsFlat([i \in 1..1 |-> s])
    OBVIOUS
  <2> HIDE DEF IsFlat
  <2>2. QED BY <2>1
<1>2. FlattenSeq(<<s>>) = flatten[1]
  <2>1. Len(<<s>>) = 1 /\ \A i \in 1..1 : <<s>>[i] = s
    OBVIOUS
  <2>2. QED BY <2>1 DEF FlattenSeq
<1>3. QED BY <1>1, <1>2
-----------------------------------------------------------------------------
(* Folds *)

\* The values of the accumulator.
IsRun(run, n, V, base, h) ==
    /\ run[0] = base
    /\ \A i \in 0..n : run[i] \in V
    /\ \A i \in 1..n : run[i] = h[i][run[i - 1]]

\* No round leaves V.
StaysIn(h, n, V) == \A i \in 1..n : \A v \in V : h[i][v] \in V

\* fold takes one entry after the other, as h says.
InTurn(fold, n, V, base, h) ==
    /\ fold[{}] = base
    /\ \A i \in 1..n : fold[1..i - 1] \in V => fold[1..i] = h[i][fold[1..i - 1]]

\* Then it has a run.
LEMMA FoldRuns ==
    ASSUME NEW n \in Nat, NEW V, NEW base \in V,
           NEW h, StaysIn(h, n, V),
           NEW fold, InTurn(fold, n, V, base, h)
    PROVE  \E run : IsRun(run, n, V, base, h) /\ run[n] = fold[1..n]
<1> DEFINE run == [i \in 0..n |-> fold[1..i]]
           I == {i \in 0..n : run[i] \in V}
<1>1. run[0] = base
  <2>1. 1..0 = {} /\ 0 \in 0..n
    OBVIOUS
  <2>2. QED BY <2>1 DEF InTurn
<1>2. ASSUME NEW i \in 1..n, run[i - 1] \in V
      PROVE  run[i] = h[i][run[i - 1]] /\ run[i] \in V
  <2>1. i \in 0..n /\ i - 1 \in 0..n
    OBVIOUS
  <2>2. QED BY <1>2, <2>1 DEF InTurn, StaysIn
<1>3. 0..n \subseteq I
  <2>1. 0 \in I
    BY <1>1
  <2>2. ASSUME NEW i \in 1..n, i - 1 \in I PROVE i \in I
    <3>1. i \in 0..n
      OBVIOUS
    <3> HIDE DEF run
    <3>2. QED BY <1>2, <2>2, <3>1
  <2> HIDE DEF I
  <2>3. QED BY <2>1, <2>2, LoopInduction
<1>4. run[n] = fold[1..n]
  OBVIOUS
<1> HIDE DEF run
<1>5. \A i \in 1..n : i - 1 \in 0..n
  OBVIOUS
<1>6. IsRun(run, n, V, base, h)
  BY <1>1, <1>2, <1>3, <1>5 DEF IsRun
<1>7. QED BY <1>4, <1>6

\* A step of MapThenFoldSet over a list: the sets of its first places.
LEMMA FoldStep ==
    ASSUME NEW n \in Nat
    PROVE  /\ {} \in SUBSET (1..n) /\ 1..0 = {}
           /\ \A i \in 1..n : /\ 1..i \in SUBSET (1..n) /\ 1..i # {}
                              /\ Max(1..i) = i /\ (1..i) \ {Max(1..i)} = 1..i - 1
           /\ \A u \in SUBSET (1..n) : u # {} => /\ Max(u) \in 1..n
                                                 /\ u \ {Max(u)} \in SUBSET (1..n)
<1>1. \A i \in 1..n : /\ 1..i \in SUBSET (1..n) /\ 1..i # {}
                      /\ Max(1..i) = i /\ (1..i) \ {i} = 1..i - 1
  BY Prefixed
<1>2. \A u \in SUBSET (1..n) : u # {} => Max(u) \in 1..n
  BY MaxIsThere
<1>3. 1..0 = {}
  OBVIOUS
<1>4. QED BY <1>1, <1>2, <1>3
-----------------------------------------------------------------------------
(* More about entries *)

LEMMA ListOf ==
    ASSUME NEW V, NEW m \in Nat, NEW f \in [1..m -> V]
    PROVE  f \in Seq(V) /\ Len(f) = m
OBVIOUS

LEMMA UptoSet ==
    ASSUME NEW S, NEW s \in Seq(S), NEW i \in 1..Len(s)
    PROVE  ToSet(Upto(s, i)) = ToSet(Upto(s, i - 1)) \cup {s[i]}
<1>1. i - 1 \in 0..Len(s) /\ s[i] \in S
  OBVIOUS
<1>2. PICK u \in Seq(S), x \in S : u = Upto(s, i - 1) /\ x = s[i]
  BY <1>1, UptoFacts
<1>3. Upto(s, i) = Append(u, x)
  BY <1>2, UptoFacts
<1>4. QED BY <1>2, <1>3, AppendedSet

LEMMA SomeEntry ==
    ASSUME NEW S, NEW s \in Seq(S)
    PROVE  s = <<>> <=> ToSet(s) = {}
<1>1. s = <<>> <=> Len(s) = 0
  OBVIOUS
<1>2. Len(s) \in Nat
  OBVIOUS
<1>3. CASE Len(s) = 0
  BY <1>1, <1>3, EmptySet
<1>4. CASE Len(s) # 0
  <2>1. 1 \in 1..Len(s)
    BY <1>2, <1>4
  <2>2. s[1] \in ToSet(s)
    BY <2>1, EntriesAre
  <2>3. QED BY <1>1, <1>4, <2>2
<1>5. QED BY <1>3, <1>4

LEMMA ContainsMeans ==
    ASSUME NEW S, NEW s \in Seq(S), NEW e
    PROVE  Contains(s, e) <=> e \in ToSet(s)
BY EntriesAre DEF Contains, ToSet

LEMMA PrefixIs ==
    ASSUME NEW S, NEW s \in Seq(S), NEW t \in Seq(S), Len(s) <= Len(t),
           \A i \in 1..Len(s) : s[i] = t[i]
    PROVE  IsPrefix(s, t)
<1> DEFINE m == Len(s)
<1>1. m \in Nat /\ \A i \in 1..m : i \in 1..Len(t)
  OBVIOUS
<1>2. SubSeq(s, 1, m) = [i \in 1..m |-> s[i]]
  BY <1>1
<1>3. SubSeq(t, 1, m) = [i \in 1..m |-> t[i]]
  BY <1>1
<1>4. [i \in 1..m |-> s[i]] = [i \in 1..m |-> t[i]]
  OBVIOUS
<1>5. QED BY <1>2, <1>3, <1>4 DEF IsPrefix

\* r is s with x put in at place p.
IsInserted(r, s, x, p) ==
    /\ Len(r) = Len(s) + 1 /\ r[p] = x
    /\ \A i \in 1..p - 1 : r[i] = s[i]
    /\ \A i \in p..Len(s) : r[i + 1] = s[i]

\* Every place of r is one of s, the place of x, or one of s moved by one.
LEMMA Places ==
    ASSUME NEW n \in Nat, NEW p \in 1..n + 1, NEW i \in 1..n + 1
    PROVE  \/ i \in 1..p - 1 /\ i \in 1..n
           \/ i = p
           \/ i - 1 \in p..n /\ i - 1 \in 1..n /\ (i - 1) + 1 = i
OBVIOUS

LEMMA PlacesBack ==
    ASSUME NEW n \in Nat, NEW p \in 1..n + 1, NEW i \in 1..n
    PROVE  \/ i \in 1..p - 1 /\ i \in 1..n + 1
           \/ i \in p..n /\ i + 1 \in 1..n + 1
OBVIOUS

LEMMA InsertedSet ==
    ASSUME NEW S, NEW r \in Seq(S), NEW s \in Seq(S), NEW x \in S,
           NEW p \in 1..Len(s) + 1, IsInserted(r, s, x, p)
    PROVE  ToSet(r) = ToSet(s) \cup {x}
<1> DEFINE n == Len(s)
<1>1. /\ n \in Nat /\ DOMAIN r = 1..n + 1 /\ DOMAIN s = 1..n /\ r[p] = x
      /\ \A i \in 1..p - 1 : r[i] = s[i]
      /\ \A i \in p..n : r[i + 1] = s[i]
      /\ p \in 1..n + 1
  BY EntriesAre DEF IsInserted
<1> HIDE DEF n
<1>2. ASSUME NEW i \in 1..n + 1 PROVE r[i] \in ToSet(s) \cup {x}
  <2>1. \/ i \in 1..p - 1 /\ i \in 1..n
        \/ i = p
        \/ i - 1 \in p..n /\ i - 1 \in 1..n /\ (i - 1) + 1 = i
    BY <1>1, Places
  <2>2. CASE i \in 1..p - 1 /\ i \in 1..n
    BY <1>1, <2>2 DEF ToSet
  <2>3. CASE i = p
    BY <1>1, <2>3
  <2>4. CASE i - 1 \in p..n /\ i - 1 \in 1..n /\ (i - 1) + 1 = i
    <3>1. r[i] = s[i - 1]
      BY <1>1, <2>4
    <3>2. QED BY <1>1, <2>4, <3>1 DEF ToSet
  <2>5. QED BY <2>1, <2>2, <2>3, <2>4
<1>3. ASSUME NEW i \in 1..n PROVE s[i] \in ToSet(r)
  <2>1. \/ i \in 1..p - 1 /\ i \in 1..n + 1
        \/ i \in p..n /\ i + 1 \in 1..n + 1
    BY <1>1, PlacesBack
  <2>2. CASE i \in 1..p - 1 /\ i \in 1..n + 1
    <3>1. r[i] = s[i]
      BY <1>1, <2>2
    <3>2. QED BY <1>1, <2>2, <3>1 DEF ToSet
  <2>3. CASE i \in p..n /\ i + 1 \in 1..n + 1
    <3>1. r[i + 1] = s[i]
      BY <1>1, <2>3
    <3>2. QED BY <1>1, <2>3, <3>1 DEF ToSet
  <2>4. QED BY <2>1, <2>2, <2>3
<1>4. x \in ToSet(r)
  BY <1>1 DEF ToSet
<1>5. \A y \in ToSet(r) : y \in ToSet(s) \cup {x}
  BY <1>1, <1>2 DEF ToSet
<1>6. \A y \in ToSet(s) : y \in ToSet(r)
  BY <1>1, <1>3 DEF ToSet
<1>7. QED BY <1>4, <1>5, <1>6

LEMMA LastOrBefore ==
    ASSUME NEW m \in Nat, NEW j \in 1..m + 1
    PROVE  j = m + 1 \/ (j \in 1..m /\ j # m + 1)
OBVIOUS

\* r is a part of the first n entries of s, in their order.
Embeds(e, r, s, n) ==
    /\ e \in [1..Len(r) -> 1..n]
    /\ \A i \in 1..Len(r) : r[i] = s[e[i]]
    /\ \A i, j \in 1..Len(r) : i < j => e[i] < e[j]

LEMMA OnlyEmbeds ==
    ASSUME NEW S, NEW s \in Seq(S), NEW keep
    PROVE  \E e : Embeds(e, Only(s, keep), s, Len(s))
<1> DEFINE n == Len(s)
           I == {i \in 0..n : \E e : Embeds(e, Only(Upto(s, i), keep), s, i)}
<1>1. n \in Nat /\ \A i \in 1..n : s[i] \in S
  OBVIOUS
<1>2. 0 \in I
  <2>1. Only(Upto(s, 0), keep) = <<>>
    BY UptoFacts, OnlyOfNone
  <2>2. 1..Len(<<>>) = {} /\ 0 \in 0..n
    BY <1>1
  <2>3. [i \in {} |-> 0] \in [{} -> 1..0]
    OBVIOUS
  <2>4. Embeds([i \in {} |-> 0], <<>>, s, 0)
    BY <2>2, <2>3 DEF Embeds
  <2>5. QED BY <2>1, <2>2, <2>4
<1>3. ASSUME NEW i \in 1..n, i - 1 \in I PROVE i \in I
  <2>1. i - 1 \in 0..n /\ i \in 0..n /\ s[i] \in S
    BY <1>1
  <2>2. PICK t \in Seq(S), x \in S : t = Upto(s, i - 1) /\ x = s[i]
    BY <2>1, UptoFacts
  <2>3. Upto(s, i) = Append(t, x)
    BY <2>2, UptoFacts
  <2>4. Only(Upto(s, i), keep) = Kept(Only(t, keep), x, keep)
    BY <2>3, OnlyAppend
  <2>5. PICK r \in Seq(S \cap keep) : r = Only(t, keep)
    BY OnlyType
  <2>6. PICK e : Embeds(e, r, s, i - 1)
    BY <1>3, <2>2, <2>5
  <2> DEFINE m == Len(r)
  <2>7. /\ m \in Nat /\ \A j \in 1..m : e[j] \in 1..i - 1 /\ r[j] = s[e[j]]
        /\ \A j, k \in 1..m : j < k => e[j] < e[k]
        /\ e \in [1..m -> 1..i - 1]
    <3>1. m \in Nat
      OBVIOUS
    <3>2. e \in [1..m -> 1..i - 1]
      BY <2>6 DEF Embeds
    <3>3. \A j \in 1..m : e[j] \in 1..i - 1
      BY <3>2
    <3>4. \A j \in 1..m : r[j] = s[e[j]]
      BY <2>6 DEF Embeds
    <3>5. \A j, k \in 1..m : j < k => e[j] < e[k]
      BY <2>6 DEF Embeds
    <3>6. QED BY <3>1, <3>2, <3>3, <3>4, <3>5
  <2>8. 1..i - 1 \subseteq 1..i
    BY <1>1
  <2>9. CASE x \in keep
    <3>1. PICK u \in Seq(S) : u = Append(r, x)
      <4>1. r \in Seq(S)
        OBVIOUS
      <4>2. Append(r, x) \in Seq(S)
        BY <4>1
      <4>3. QED BY <4>2
    <3>2. Len(u) = m + 1 /\ u[m + 1] = x /\ \A j \in 1..m : u[j] = r[j]
      BY <3>1
    <3> HIDE DEF m
    <3> m \in Nat
      BY <2>7
    <3> DEFINE g == [j \in 1..m + 1 |-> IF j = m + 1 THEN i ELSE e[j]]
    <3>3. \A j \in 1..m + 1 : j = m + 1 \/ (j \in 1..m /\ j # m + 1)
      BY LastOrBefore
    <3>4. i \in 1..i
      BY <1>1
    <3>5. \A j \in 1..m + 1 : g[j] \in 1..i
      BY <2>7, <2>8, <3>3, <3>4
    <3>6. \A j \in 1..m + 1 : u[j] = s[g[j]]
      BY <2>2, <2>7, <3>2, <3>3
    <3>7. ASSUME NEW j \in 1..m + 1, NEW k \in 1..m + 1, j < k PROVE g[j] < g[k]
      <4>1. j \in 1..m /\ g[j] = e[j] /\ e[j] \in 1..i - 1
        BY <2>7, <3>7
      <4>2. CASE k = m + 1
        <5>1. g[k] = i
          BY <4>2
        <5>2. e[j] < i
          BY <4>1
        <5>3. QED BY <4>1, <5>1, <5>2
      <4>3. CASE k \in 1..m /\ k # m + 1
        BY <2>7, <3>7, <4>1, <4>3
      <4>4. QED BY <3>3, <4>2, <4>3
    <3>8. g \in [1..m + 1 -> 1..i]
      BY <3>5
    <3> HIDE DEF g
    <3>9. Embeds(g, u, s, i)
      BY <3>2, <3>6, <3>7, <3>8 DEF Embeds
    <3>10. Only(Upto(s, i), keep) = u
      BY <2>4, <2>5, <2>9, <3>1 DEF Kept
    <3>11. QED BY <2>1, <3>9, <3>10
  <2>10. CASE x \notin keep
    <3>1. Only(Upto(s, i), keep) = r
      BY <2>4, <2>5, <2>10 DEF Kept
    <3>2. e \in [1..m -> 1..i]
      BY <2>7, <2>8
    <3>3. Embeds(e, r, s, i)
      BY <2>7, <3>2 DEF Embeds
    <3>4. QED BY <2>1, <3>1, <3>3
  <2>11. QED BY <2>9, <2>10
<1>4. n \in I
  <2> HIDE DEF I, n
  <2>1. QED BY <1>1, <1>2, <1>3, LoopInduction
<1>5. Upto(s, n) = s
  BY UptoFacts
<1>6. QED BY <1>4, <1>5
=============================================================================

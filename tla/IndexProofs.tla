----------------------------- MODULE IndexProofs -----------------------------
(***************************************************************************)
(* Theorems about ArtifactIndex, for any places, ids, texts, models and    *)
(* archives, and whatever may go wrong.  An ingest is known by what it     *)
(* does to the stores it starts from: every outcome of it leaves rows and  *)
(* embeddings that were there, and every record it loads has its row.      *)
(***************************************************************************)
EXTENDS ArtifactIndex, FiniteSetTheorems, WellFoundedInduction, TLAPS

IsBatch(batch) == DOMAIN batch \subseteq Files /\ \A f \in DOMAIN batch : batch[f] \in Texts

KeptRows(old, new) ==
    \A i \in Ids :
        /\ old[i].hash # Nothing => new[i].hash # Nothing
        /\ \A m \in Models : old[i].vector[m] # Nothing => new[i].vector[m] # Nothing

Backed(r, rec) == rec # Nothing => r.hash # Nothing /\ r.vector[rec.by] # Nothing

StoresOK(st) ==
    /\ st.row \in [Ids -> Row] /\ st.record \in [Ids -> Record]
    /\ \A i \in Ids : Backed(st.row[i], st.record[i])

Follows(st, new) == StoresOK(new) /\ KeptRows(st.row, new.row)
-----------------------------------------------------------------------------
(* Places *)

\* Finitely many numbers have a largest one: of the sets of those that are
\* not smaller than one of them, take a smallest.
LEMMA LastIsThere ==
    ASSUME NEW ps, ps \subseteq Places, ps # {}
    PROVE  LastOf(ps) \in ps /\ \A q \in ps : q <= LastOf(ps)
<1> DEFINE Up(x) == {y \in ps : x <= y}
           R == StrictSubsetOrdering(ps)
<1>1. IsFiniteSet(ps) /\ ps \subseteq Nat
  BY CorpusAssumption, FS_Subset
<1>2. IsWellFoundedOn(R, SUBSET ps)
  BY <1>1, FS_StrictSubsetOrderingWellFounded, FS_FiniteSubsetsOfFinite
<1>3. {Up(x) : x \in ps} \subseteq SUBSET ps /\ {Up(x) : x \in ps} # {}
  OBVIOUS
<1>4. \E u \in {Up(x) : x \in ps} : \A v \in {Up(x) : x \in ps} : <<v, u>> \notin R
  <2> HIDE DEF R, Up
  <2>1. QED BY <1>2, <1>3, WFMin
<1>5. PICK x \in ps : \A y \in ps : <<Up(y), Up(x)>> \notin R
  BY <1>4
<1>6. ASSUME NEW y \in ps PROVE y <= x
  <2>1. SUFFICES ASSUME ~(y <= x) PROVE FALSE
    OBVIOUS
  <2>2. x <= y /\ ~(y <= x) /\ x \in Nat /\ y \in Nat
    BY <1>1, <2>1
  <2>3. Up(y) \subseteq Up(x) /\ x \in Up(x) /\ x \notin Up(y)
    <3>1. ASSUME NEW z \in ps, y <= z PROVE x <= z
      BY <1>1, <2>2, <3>1
    <3>2. x <= x /\ ~(y <= x)
      BY <2>2
    <3>3. QED BY <3>1, <3>2
  <2>4. Up(y) \in SUBSET ps /\ Up(x) \in SUBSET ps /\ Up(y) # Up(x)
    BY <2>3
  <2> HIDE DEF Up
  <2>5. <<Up(y), Up(x)>> \in R
    BY <2>3, <2>4 DEF StrictSubsetOrdering
  <2>6. QED BY <1>5, <2>5
<1>7. QED BY <1>6 DEF LastOf

LEMMA LastFile ==
    ASSUME NEW batch, IsBatch(batch), NEW fs, fs \subseteq DOMAIN batch,
           NEW i, i \in IdsOf(fs)
    PROVE  /\ i \in Ids /\ LastText(batch, fs, i) \in Texts
           /\ \E f \in fs : f[2] = i /\ LastText(batch, fs, i) = batch[f]
<1> DEFINE ps == PlacesOf(fs, i)
<1>1. fs \subseteq Places \X Ids
  BY DEF IsBatch, Files
<1>2. \A f \in fs : f = <<f[1], f[2]>> /\ f[1] \in Places /\ f[2] \in Ids
  BY <1>1
<1>3. ps \subseteq Places /\ ps # {} /\ i \in Ids
  BY <1>2 DEF PlacesOf, IdsOf
<1>4. LastOf(ps) \in ps
  <2> HIDE DEF ps
  <2>1. QED BY <1>3, LastIsThere
<1>5. PICK f \in fs : f[2] = i /\ f[1] = LastOf(ps)
  BY <1>4 DEF PlacesOf
<1>6. f = <<LastOf(ps), i>>
  BY <1>2, <1>5
<1>7. LastText(batch, fs, i) = batch[f]
  BY <1>6 DEF LastText
<1>8. QED BY <1>3, <1>5, <1>7 DEF IsBatch
-----------------------------------------------------------------------------
(* Ingests *)

\* An id of the batch gets an embedding, the stored one or a new one.
LEMMA VectorIsText ==
    ASSUME NEW st, st.row \in [Ids -> Row], NEW batch, IsBatch(batch), NEW m \in Models,
           NEW i, i \in IdsOf(DOMAIN batch)
    PROVE  VectorFor(st, batch, m, i) \in Texts
<1> DEFINE fresh == {f \in DOMAIN batch : f[2] = i /\ ~Reusable(st, batch, m, f)}
<1>1. CASE fresh = {}
  <2>1. PICK f \in DOMAIN batch : f[2] = i
    BY DEF IdsOf
  <2>2. i \in Ids /\ Reusable(st, batch, m, f)
    BY <1>1, <2>1, LastFile
  <2>3. st.row[i].vector \in [Models -> Texts \cup {Nothing}]
    BY <2>2 DEF Row
  <2>4. st.row[i].vector[m] \in Texts
    BY <2>1, <2>2, <2>3 DEF Reusable
  <2>5. QED BY <1>1, <2>4 DEF VectorFor
<1>2. CASE fresh # {}
  <2>1. i \in IdsOf(fresh) /\ fresh \subseteq DOMAIN batch
    BY <1>2 DEF IdsOf
  <2>2. VectorFor(st, batch, m, i) = LastText(batch, fresh, i)
    BY <1>2 DEF VectorFor
  <2> HIDE DEF fresh
  <2>3. QED BY <2>1, <2>2, LastFile
<1>3. QED BY <1>1, <1>2

LEMMA UpsertKeepsRows ==
    ASSUME NEW st, st.row \in [Ids -> Row], NEW batch, IsBatch(batch), NEW m \in Models,
           NEW done, done \subseteq DOMAIN batch
    PROVE  /\ Upserted(st, batch, m, done) \in [Ids -> Row]
           /\ KeptRows(st.row, Upserted(st, batch, m, done))
           /\ \A i \in IdsOf(done) : /\ Upserted(st, batch, m, done)[i].hash # Nothing
                                     /\ Upserted(st, batch, m, done)[i].vector[m] # Nothing
<1> DEFINE rows == Upserted(st, batch, m, done)
<1>1. ASSUME NEW i \in Ids
      PROVE  /\ rows[i] \in Row
             /\ st.row[i].hash # Nothing => rows[i].hash # Nothing
             /\ \A n \in Models : st.row[i].vector[n] # Nothing => rows[i].vector[n] # Nothing
             /\ i \in IdsOf(done) => rows[i].hash # Nothing /\ rows[i].vector[m] # Nothing
  <2>1. CASE i \notin IdsOf(done)
    BY <2>1 DEF Upserted
  <2>2. CASE i \in IdsOf(done)
    <3> DEFINE h == LastText(batch, done, i)
               v == VectorFor(st, batch, m, i)
    <3>1. i \in IdsOf(DOMAIN batch)
      BY <2>2 DEF IdsOf
    <3>2. h \in Texts /\ v \in Texts
      BY <2>2, <3>1, LastFile, VectorIsText
    <3>3. rows[i] = [hash |-> h, vector |-> [st.row[i].vector EXCEPT ![m] = v]]
      BY <2>2 DEF Upserted
    <3>4. st.row[i].vector \in [Models -> Texts \cup {Nothing}]
      BY DEF Row
    <3> HIDE DEF h, v, rows
    <3>5. rows[i].hash = h /\ rows[i].vector = [st.row[i].vector EXCEPT ![m] = v]
      BY <3>3
    <3>6. rows[i].vector \in [Models -> Texts \cup {Nothing}]
      BY <3>2, <3>4, <3>5
    <3>7. rows[i] = [hash |-> rows[i].hash, vector |-> rows[i].vector]
      BY <3>3, <3>5
    <3>8. rows[i] \in Row
      BY <3>2, <3>5, <3>6, <3>7 DEF Row
    <3>9. QED BY <3>2, <3>4, <3>5, <3>8, CorpusAssumption
  <2>3. QED BY <2>1, <2>2
<1>2. rows \in [Ids -> Row]
  BY <1>1 DEF Upserted
<1>3. IdsOf(done) \subseteq Ids
  BY LastFile
<1> HIDE DEF rows
<1>4. QED BY <1>1, <1>2, <1>3 DEF KeptRows, rows

\* The records of a batch are loaded after its rows are written.
LEMMA LoadFollows ==
    ASSUME NEW st, StoresOK(st), NEW batch, IsBatch(batch), NEW m \in Models,
           NEW done, done \subseteq DOMAIN batch,
           NEW new, new.row = Upserted(st, batch, m, DOMAIN batch),
           new.record = LoadedRecords(st, batch, m, done)
    PROVE  Follows(st, new)
<1> DEFINE rows == Upserted(st, batch, m, DOMAIN batch)
           recs == LoadedRecords(st, batch, m, done)
<1>1. /\ rows \in [Ids -> Row] /\ KeptRows(st.row, rows)
      /\ \A i \in IdsOf(DOMAIN batch) : rows[i].hash # Nothing /\ rows[i].vector[m] # Nothing
  BY UpsertKeepsRows DEF StoresOK
<1> HIDE DEF rows
<1>2. ASSUME NEW i \in Ids PROVE recs[i] \in Record /\ Backed(rows[i], recs[i])
  <2>1. CASE i \notin IdsOf(done)
    <3>1. recs[i] = st.record[i]
      BY <2>1 DEF LoadedRecords
    <3>2. st.record[i] \in Record /\ Backed(st.row[i], st.record[i])
      BY DEF StoresOK
    <3>3. st.record[i] # Nothing => st.record[i].by \in Models
      BY <3>2 DEF Record
    <3> HIDE DEF recs
    <3>4. QED BY <1>1, <3>1, <3>2, <3>3 DEF Backed, KeptRows
  <2>2. CASE i \in IdsOf(done)
    <3> DEFINE h == LastText(batch, done, i)
               v == VectorFor(st, batch, m, i)
    <3>1. i \in IdsOf(DOMAIN batch)
      BY <2>2 DEF IdsOf
    <3>2. h \in Texts /\ v \in Texts
      BY <2>2, <3>1, LastFile, VectorIsText DEF StoresOK
    <3>3. recs[i] = [text |-> h, vector |-> v, by |-> m]
      BY <2>2 DEF LoadedRecords
    <3> HIDE DEF h, v, recs
    <3>4. recs[i] \in Record /\ recs[i].by = m
      BY <3>2, <3>3 DEF Record
    <3>5. QED BY <1>1, <3>1, <3>4 DEF Backed
  <2>3. QED BY <2>1, <2>2
<1>3. recs \in [Ids -> Record]
  BY <1>2 DEF LoadedRecords
<1> HIDE DEF recs
<1>4. new.row = rows /\ new.record = recs
  BY DEF rows, recs
<1>5. QED BY <1>1, <1>2, <1>3, <1>4 DEF Follows, StoresOK

\* Writing rows alone cannot part a record from its row.
LEMMA RowsFollow ==
    ASSUME NEW st, StoresOK(st), NEW new, new.record = st.record,
           new.row \in [Ids -> Row], KeptRows(st.row, new.row)
    PROVE  Follows(st, new)
<1>1. ASSUME NEW i \in Ids PROVE Backed(new.row[i], st.record[i])
  <2>1. st.record[i] \in Record /\ Backed(st.row[i], st.record[i])
    BY DEF StoresOK
  <2>2. st.record[i] # Nothing => st.record[i].by \in Models
    BY <2>1 DEF Record
  <2>3. QED BY <2>1, <2>2 DEF Backed, KeptRows
<1>2. QED BY <1>1 DEF Follows, StoresOK

LEMMA TornKeepsRows ==
    ASSUME NEW rows \in [Ids -> Row], NEW batch, IsBatch(batch), NEW f \in DOMAIN batch
    PROVE  Torn(rows, batch, f) \in [Ids -> Row] /\ KeptRows(rows, Torn(rows, batch, f))
<1> DEFINE torn == Torn(rows, batch, f)
<1>1. f[2] \in Ids /\ batch[f] \in Texts
  BY DEF IsBatch, Files
<1>2. torn = [rows EXCEPT ![f[2]] = [rows[f[2]] EXCEPT !.hash = batch[f]]]
  BY DEF Torn
<1>3. rows[f[2]] \in Row
  BY <1>1
<1>4. PICK r : r = [rows[f[2]] EXCEPT !.hash = batch[f]]
  OBVIOUS
<1>5. r.hash = batch[f] /\ r.vector = rows[f[2]].vector /\ r \in Row
  BY <1>1, <1>3, <1>4 DEF Row
<1>6. torn = [rows EXCEPT ![f[2]] = r]
  BY <1>2, <1>4
<1> HIDE DEF torn
<1>7. torn \in [Ids -> Row] /\ KeptRows(rows, torn)
  BY <1>1, <1>5, <1>6, CorpusAssumption DEF KeptRows
<1>8. QED BY <1>7 DEF torn

\* Whatever an ingest leaves, failed or not, follows from where it began.
LEMMA IngestFollows ==
    ASSUME NEW st, StoresOK(st), NEW batch, IsBatch(batch), NEW m \in Models,
           NEW new, \/ new = IngestSucceeds(st, batch, m)
                    \/ new \in AfterFailure(st, batch, m)
    PROVE  Follows(st, new)
<1>1. CASE new = IngestSucceeds(st, batch, m)
  <2>1. /\ new.row = Upserted(st, batch, m, DOMAIN batch)
        /\ new.record = LoadedRecords(st, batch, m, DOMAIN batch)
    BY <1>1 DEF IngestSucceeds
  <2>2. QED BY <2>1, LoadFollows
<1>2. CASE new \in AfterFailure(st, batch, m)
  <2>1. CASE new = st
    BY <2>1, RowsFollow DEF StoresOK, KeptRows
  <2>2. ASSUME NEW done \in SUBSET DOMAIN batch,
               new = [st EXCEPT !.row = Upserted(st, batch, m, done)]
        PROVE  Follows(st, new)
    <3>1. new.row = Upserted(st, batch, m, done) /\ new.record = st.record
      BY <2>2
    <3>2. QED BY <3>1, UpsertKeepsRows, RowsFollow DEF StoresOK
  <2>3. ASSUME NEW f \in DOMAIN batch, NEW done \in SUBSET (DOMAIN batch \ {f}),
               new = [st EXCEPT !.row = Torn(Upserted(st, batch, m, done), batch, f)]
        PROVE  Follows(st, new)
    <3> DEFINE rows == Upserted(st, batch, m, done)
    <3>1. new.row = Torn(rows, batch, f) /\ new.record = st.record
      BY <2>3
    <3>2. rows \in [Ids -> Row] /\ KeptRows(st.row, rows)
      BY UpsertKeepsRows DEF StoresOK
    <3> HIDE DEF rows
    <3>3. new.row \in [Ids -> Row] /\ KeptRows(rows, new.row)
      BY <3>1, <3>2, TornKeepsRows
    <3>4. KeptRows(st.row, new.row)
      BY <3>2, <3>3 DEF KeptRows
    <3>5. QED BY <3>1, <3>3, <3>4, RowsFollow
  <2>4. ASSUME NEW done \in SUBSET DOMAIN batch,
               new = [row |-> Upserted(st, batch, m, DOMAIN batch),
                      record |-> LoadedRecords(st, batch, m, done)]
        PROVE  Follows(st, new)
    <3>1. /\ new.row = Upserted(st, batch, m, DOMAIN batch)
          /\ new.record = LoadedRecords(st, batch, m, done)
      BY <2>4
    <3>2. QED BY <3>1, LoadFollows
  <2>5. QED
    BY <1>2, <2>1, <2>2, <2>3, <2>4 DEF AfterFailure
<1>3. QED BY <1>1, <1>2
-----------------------------------------------------------------------------
(* Steps *)

Knowns == [Ids -> Texts \cup {Nothing}]

GoodWorld(w) ==
    w.file \in Tree /\ StoresOK(w.st) /\ w.known \in Knowns /\ w.settled \subseteq Ids

IndexInv == IndexTypeOK /\ RedisRebuildable

LEMMA InvIsGood ==
    ASSUME IndexInv
    PROVE  /\ StoresOK(Stores) /\ GoodWorld(World)
           /\ \A i \in Ids : Backed(row[i], record[i]) /\ Backed(row[i], snapshot[i])
<1>1. Stores.row = row /\ Stores.record = record
  BY DEF Stores
<1>2. \A i \in Ids : Backed(row[i], record[i]) /\ Backed(row[i], snapshot[i])
  BY DEF IndexInv, RedisRebuildable, Backed
<1>3. StoresOK(Stores)
  BY <1>1, <1>2 DEF StoresOK, IndexInv, IndexTypeOK
<1>4. /\ World.file = file /\ World.st = Stores /\ World.known = known
      /\ World.settled = settled
  BY DEF World
<1>5. GoodWorld(World)
  BY <1>3, <1>4 DEF GoodWorld, IndexInv, IndexTypeOK, Knowns
<1>6. QED BY <1>2, <1>3, <1>5

LEMMA TreeIsBatch ==
    ASSUME NEW tree \in Tree, NEW fs, fs \subseteq {g \in Files : tree[g] # Nothing}
    PROVE  IsBatch([f \in fs |-> tree[f]])
BY DEF IsBatch, Tree

LEMMA RememberedIsKnown ==
    ASSUME NEW batch, IsBatch(batch), NEW base \in Knowns
    PROVE  Remembered(batch, base) \in Knowns
<1>1. ASSUME NEW i \in Ids PROVE Remembered(batch, base)[i] \in Texts \cup {Nothing}
  <2>1. CASE i \in IdsOf(DOMAIN batch)
    BY <2>1, LastFile DEF Remembered
  <2>2. CASE i \notin IdsOf(DOMAIN batch)
    BY <2>2 DEF Remembered, Knowns
  <2>3. QED BY <2>1, <2>2
<1>2. QED BY <1>1 DEF Remembered, Knowns

\* A writer leaves a good world of the one it starts from.
LEMMA WrittenIsGood ==
    ASSUME NEW v, GoodWorld(v), model \in Models, NEW f \in Files, NEW text \in Texts,
           NEW w \in Written(v, f, text)
    PROVE  GoodWorld(w) /\ KeptRows(v.st.row, w.st.row)
<1> DEFINE batch == [g \in {f} |-> text]
           tree == [v.file EXCEPT ![f] = text]
<1>1. IsBatch(batch) /\ tree \in Tree /\ f[2] \in Ids
  BY DEF IsBatch, GoodWorld, Tree, Files
<1>2. Remembered(batch, v.known) \in Knowns
  BY <1>1, RememberedIsKnown DEF GoodWorld
<1>3. \/ /\ w.file = tree /\ w.st = IngestSucceeds(v.st, batch, model)
         /\ w.known = Remembered(batch, v.known)
         /\ w.settled \in {v.settled \ {f[2]}, v.settled \cup {f[2]}}
      \/ /\ w.file = tree /\ w.st \in AfterFailure(v.st, batch, model)
         /\ w.known = v.known /\ w.settled = v.settled \ {f[2]}
  BY DEF Written
<1> HIDE DEF batch, tree
<1>4. Follows(v.st, w.st)
  BY <1>1, <1>3, IngestFollows DEF GoodWorld
<1>5. w.file \in Tree /\ w.known \in Knowns /\ w.settled \subseteq Ids
  BY <1>1, <1>2, <1>3 DEF GoodWorld
<1>6. QED BY <1>4, <1>5 DEF GoodWorld, Follows

\* A good world whose rows follow from the ones now keeps the invariant.
LEMMA WorldKeepsInv ==
    ASSUME IndexInv, NEW w, GoodWorld(w), KeptRows(row, w.st.row), WorldBecomes(w)
    PROVE  IndexInv'
<1>1. /\ file' = w.file /\ row' = w.st.row /\ record' = w.st.record
      /\ known' = w.known /\ settled' = w.settled
      /\ UNCHANGED <<world, model, snapshot, mixed>>
  BY DEF WorldBecomes, Become
<1>2. IndexTypeOK'
  BY <1>1 DEF IndexInv, IndexTypeOK, GoodWorld, StoresOK, Knowns
<1>3. ASSUME NEW i \in Ids PROVE Backed(row'[i], record'[i]) /\ Backed(row'[i], snapshot'[i])
  <2>1. Backed(row'[i], record'[i])
    BY <1>1 DEF GoodWorld, StoresOK
  <2>2. Backed(row[i], snapshot[i]) /\ snapshot[i] \in Record
    BY InvIsGood DEF IndexInv, IndexTypeOK
  <2>3. snapshot[i] # Nothing => snapshot[i].by \in Models
    BY <2>2 DEF Record
  <2>4. QED BY <1>1, <2>1, <2>2, <2>3 DEF KeptRows, Backed
<1>4. QED BY <1>2, <1>3 DEF IndexInv, RedisRebuildable, Backed

\* What every index of a corpus keeps.
LEMMA IndexKeepsStores ==
    ASSUME IndexInv, NEW corpus, IsBatch(corpus), NEW m \in Models, NEW base \in Knowns,
           NEW changed, IndexFrom(corpus, m, base, changed), UNCHANGED snapshot
    PROVE  /\ row' \in [Ids -> Row] /\ record' \in [Ids -> Record]
           /\ known' \in Knowns /\ settled' \subseteq Ids /\ mixed' \subseteq Ids
           /\ RedisRebuildable'
<1>1. PICK st : /\ st = IngestSucceeds(Stores, corpus, m) \/ st \in AfterFailure(Stores, corpus, m)
                /\ Become(st)
  BY DEF IndexFrom
<1>2. StoresOK(st) /\ KeptRows(row, st.row)
  BY <1>1, InvIsGood, IngestFollows DEF Follows, Stores
<1>3. row' = st.row /\ record' = st.record
  BY <1>1 DEF Become
<1>4. ASSUME NEW i \in Ids PROVE Backed(row'[i], record'[i]) /\ Backed(row'[i], snapshot'[i])
  <2>1. Backed(row'[i], record'[i])
    BY <1>2, <1>3 DEF StoresOK
  <2>2. Backed(row[i], snapshot[i]) /\ snapshot[i] \in Record
    BY InvIsGood DEF IndexInv, IndexTypeOK
  <2>3. snapshot[i] # Nothing => snapshot[i].by \in Models
    BY <2>2 DEF Record
  <2>4. QED BY <1>2, <1>3, <2>1, <2>2, <2>3 DEF KeptRows, Backed
<1>5. known' \in Knowns /\ settled' \subseteq Ids /\ mixed' \subseteq Ids
  <2>1. known' = Remembered(corpus, base) \/ known' = base
    BY DEF IndexFrom
  <2>2. settled' = Ids \/ settled' = settled \ changed
    BY DEF IndexFrom
  <2>3. mixed' = mixed \cup {i \in Ids : Cardinality(PlacesOf(DOMAIN corpus, i)) > 1}
    BY DEF IndexFrom
  <2>4. QED BY <2>1, <2>2, <2>3, RememberedIsKnown DEF IndexInv, IndexTypeOK
<1>6. QED BY <1>2, <1>3, <1>4, <1>5 DEF StoresOK, RedisRebuildable, Backed

\* The first place that has an id, by the same argument as the last.
LEMMA FindIsFile ==
    ASSUME file \in Tree, NEW i \in Ids, PlacesOf(Visible, i) # {}
    PROVE  /\ Find(i) \in Visible /\ Find(i)[2] = i
<1> DEFINE ps == PlacesOf(Visible, i)
           Down(x) == {y \in ps : y <= x}
           R == StrictSubsetOrdering(ps)
<1>1. \A f \in Visible : f = <<f[1], f[2]>> /\ f[1] \in Places
  BY DEF Visible, Files
<1>2. ps \subseteq Places /\ IsFiniteSet(ps) /\ ps \subseteq Nat
  BY <1>1, CorpusAssumption, FS_Subset DEF PlacesOf
<1>3. IsWellFoundedOn(R, SUBSET ps)
  BY <1>2, FS_StrictSubsetOrderingWellFounded, FS_FiniteSubsetsOfFinite
<1>4. {Down(x) : x \in ps} \subseteq SUBSET ps /\ {Down(x) : x \in ps} # {}
  <2> HIDE DEF ps
  <2>1. ps # {}
    BY DEF ps
  <2>2. QED BY <2>1
<1>5. PICK x \in ps : \A y \in ps : <<Down(y), Down(x)>> \notin R
  <2>1. \E u \in {Down(x) : x \in ps} : \A v \in {Down(x) : x \in ps} : <<v, u>> \notin R
    <3> HIDE DEF R, Down
    <3>1. QED BY <1>3, <1>4, WFMin
  <2> HIDE DEF R, ps
  <2>2. QED BY <2>1
<1> HIDE DEF ps
<1>6. ASSUME NEW y \in ps PROVE x <= y
  <2>1. SUFFICES ASSUME ~(x <= y) PROVE FALSE
    OBVIOUS
  <2>2. y <= x /\ ~(x <= y) /\ x \in Nat /\ y \in Nat
    BY <1>2, <2>1
  <2>3. Down(y) \subseteq Down(x) /\ x \in Down(x) /\ x \notin Down(y)
    <3>1. ASSUME NEW z \in ps, z <= y PROVE z <= x
      BY <1>2, <2>2, <3>1
    <3>2. x <= x /\ ~(x <= y)
      BY <2>2
    <3>3. QED BY <3>1, <3>2
  <2>4. Down(y) \in SUBSET ps /\ Down(x) \in SUBSET ps /\ Down(y) # Down(x)
    BY <2>3
  <2> HIDE DEF Down
  <2>5. <<Down(y), Down(x)>> \in R
    BY <2>3, <2>4 DEF StrictSubsetOrdering
  <2>6. QED BY <1>5, <2>5
<1>7. FirstOf(ps) \in ps
  BY <1>6 DEF FirstOf
<1>8. PICK f \in Visible : f[2] = i /\ f[1] = FirstOf(ps)
  BY <1>7 DEF ps, PlacesOf
<1>9. Find(i) = f
  BY <1>1, <1>8 DEF Find, ps
<1>10. QED BY <1>8, <1>9

LEMMA StepKeepsIndex ==
    ASSUME IndexInv, [IndexNext]_indexVars
    PROVE  IndexInv'
<1>1. /\ file \in Tree /\ model \in Models /\ known \in Knowns /\ world \in Worlds
      /\ GoodWorld(World) /\ World.st.row = row
  BY InvIsGood DEF IndexInv, IndexTypeOK, Knowns, World, Stores
<1>2. IsBatch(Corpus) /\ (file' \in Tree => IsBatch(Corpus'))
  <2>1. Visible \subseteq {g \in Files : file[g] # Nothing}
    BY DEF Visible
  <2>2. IsBatch([f \in Visible |-> file[f]])
    BY <1>1, <2>1, TreeIsBatch
  <2>3. ASSUME file' \in Tree PROVE IsBatch([f \in Visible' |-> file'[f]])
    <3>1. Visible' \subseteq {g \in Files : file'[g] # Nothing}
      BY DEF Visible
    <3>2. QED BY <2>3, <3>1, TreeIsBatch
  <2>4. QED BY <2>2, <2>3 DEF Corpus, BatchOf
<1>3. ASSUME NEW f \in Files, FileChanges(f) PROVE IndexInv'
  <2>1. file' \in Tree /\ settled' \subseteq Ids
    BY <1>3 DEF FileChanges, Tree, IndexInv, IndexTypeOK
  <2>2. QED
    BY <1>3, <2>1 DEF FileChanges, derived, IndexInv, IndexTypeOK, RedisRebuildable
<1>4. ASSUME NEW f \in Files, NEW text \in Texts, WriteArtifact(f, text) PROVE IndexInv'
  <2>1. PICK w \in Written(World, f, text) : WorldBecomes(w)
    BY <1>4 DEF WriteArtifact
  <2>2. QED BY <1>1, <2>1, WrittenIsGood, WorldKeepsInv
<1>5. ASSUME NEW i \in Ids, NEW text \in Texts, ConfigureSkill(i, text) PROVE IndexInv'
  <2>1. PICK w \in Written(World, Find(i), text) : WorldBecomes(w)
    BY <1>5 DEF ConfigureSkill
  <2>2. Find(i) \in Files
    BY <1>1, <1>5, FindIsFile DEF ConfigureSkill, Visible
  <2>3. QED BY <1>1, <2>1, <2>2, WrittenIsGood, WorldKeepsInv
<1>6. ASSUME NEW f \in Files, NEW g \in Files, NEW text \in Texts, NEW other \in Texts,
             IngestDocument(f, text, g, other)
      PROVE  IndexInv'
  <2>1. PICK v \in Written(World, f, text) :
            \E w \in IF v.done THEN Written(v, g, other) ELSE {v} : WorldBecomes(w)
    BY <1>6 DEF IngestDocument
  <2>2. PICK w : (w \in Written(v, g, other) \/ w = v) /\ WorldBecomes(w)
    BY <2>1
  <2>3. GoodWorld(v) /\ KeptRows(row, v.st.row)
    BY <1>1, <2>1, WrittenIsGood
  <2>4. GoodWorld(w) /\ KeptRows(row, w.st.row)
    <3>1. CASE w = v
      BY <2>3, <3>1
    <3>2. CASE w \in Written(v, g, other)
      <4>1. GoodWorld(w) /\ KeptRows(v.st.row, w.st.row)
        BY <1>1, <2>3, <3>2, WrittenIsGood
      <4>2. QED BY <2>3, <4>1 DEF KeptRows
    <3>3. QED BY <2>2, <3>1, <3>2
  <2>5. QED BY <2>2, <2>4, WorldKeepsInv
<1>7. ASSUME NEW archive \in Archives, SyncLands(archive) PROVE IndexInv'
  <2>1. file' \in Tree
    <3>1. \A f \in DOMAIN archive : archive[f] \in Texts
      BY DEF Archives
    <3>2. QED BY <1>1, <1>7, <3>1 DEF SyncLands, Landed, Tree
  <2>2. IndexFrom(Corpus', model, known, {f[2] : f \in {g \in Files : file'[g] # file[g]}})
    BY <1>7 DEF SyncLands
  <2>3. UNCHANGED <<world, model, snapshot>>
    BY <1>7 DEF SyncLands
  <2>4. IsBatch(Corpus')
    BY <1>2, <2>1
  <2> HIDE DEF Corpus
  <2>5. QED
    BY <1>1, <2>1, <2>2, <2>3, <2>4, IndexKeepsStores DEF IndexInv, IndexTypeOK, Knowns
<1>8. CASE IndexCorpus
  BY <1>1, <1>2, <1>8, IndexKeepsStores DEF IndexCorpus, IndexInv, IndexTypeOK, Knowns
<1>9. CASE Restart
  <2>1. model' \in Models
    BY <1>1, <1>9 DEF Restart
  <2>2. NothingFor \in Knowns
    BY DEF NothingFor, Knowns
  <2>3. QED
    BY <1>1, <1>2, <1>9, <2>1, <2>2, IndexKeepsStores
       DEF Restart, IndexInv, IndexTypeOK, Knowns
<1>10. CASE RedisSaves
  BY <1>10 DEF RedisSaves, derived, IndexInv, IndexTypeOK, RedisRebuildable
<1>11. CASE RedisRestarts
  BY <1>11 DEF RedisRestarts, IndexInv, IndexTypeOK, RedisRebuildable
<1>12. CASE UNCHANGED indexVars
  BY <1>12 DEF indexVars, derived, IndexInv, IndexTypeOK, RedisRebuildable
<1>13. QED
  BY <1>3, <1>4, <1>5, <1>6, <1>7, <1>8, <1>9, <1>10, <1>11, <1>12 DEF IndexNext
-----------------------------------------------------------------------------
\* The index keeps its types, and every record of the search index, or of the
\* snapshot Redis may come back from, has its row and an embedding of its
\* model in Postgres: through ingests that fail anywhere, restarts of either
\* process, landings and changes of the model.
THEOREM RedisStaysRebuildable == IndexSpec => [](IndexTypeOK /\ RedisRebuildable)
<1>1. ASSUME IndexInit PROVE IndexInv
  <2>1. NoRow \in Row
    BY DEF NoRow, Row
  <2>2. IndexTypeOK
    BY <1>1, <2>1 DEF IndexInit, IndexTypeOK, NothingFor, Record
  <2>3. RedisRebuildable
    BY <1>1 DEF IndexInit, RedisRebuildable, NothingFor
  <2>4. QED BY <2>2, <2>3 DEF IndexInv
<1>2. IndexInv /\ [IndexNext]_indexVars => IndexInv'
  BY StepKeepsIndex
<1>3. QED BY <1>1, <1>2, PTL DEF IndexSpec, IndexInv

\* Type correctness of ArtifactIndex: the stores, what is running and the
\* history keep their types.
THEOREM IndexTypeCorrect == IndexSpec => []IndexTypeOK
BY RedisStaysRebuildable, PTL

\* What a landing brings has no file outside the two synced directories, so
\* that no id the user wrote a file for is taken over.
THEOREM LandingsStayApart == IndexSpec => LandingStaysApart
<1>1. ASSUME NEW archive \in Archives, SyncLands(archive), NEW f \in DOMAIN archive
      PROVE  PlacesOf(Visible', f[2]) \subseteq SyncPlaces
  <2>1. SUFFICES ASSUME NEW g \in Visible', g[2] = f[2], g[1] \notin SyncPlaces
                 PROVE  FALSE
    BY DEF PlacesOf
  <2>2. g \in Files /\ g[1] \notin HiddenPlaces /\ file'[g] # Nothing
    BY DEF Visible
  <2>3. file'[g] = file[g]
    BY <1>1, <2>1, <2>2 DEF SyncLands, Landed
  <2>4. g \in Visible /\ g[2] \in IdsOf(DOMAIN archive)
    BY <2>1, <2>2, <2>3 DEF Visible, IdsOf
  <2>5. QED BY <1>1, <2>1, <2>4 DEF SyncLands, Collides
<1>2. IndexNext => \A archive \in Archives : SyncLands(archive) =>
        \A f \in DOMAIN archive : PlacesOf(Visible', f[2]) \subseteq SyncPlaces
  BY <1>1
<1>3. QED BY <1>2, PTL DEF IndexSpec, LandingStaysApart
-----------------------------------------------------------------------------
(* Embeddings and texts, while Postgres takes both statements of an        *)
(* artifact or none and every boot has the same model.                     *)

Calm == \A w \in Worlds : "pg_tears" \notin w /\ "model_switch" \notin w

\* Nothing of an id is searched by another text's embedding.
Matches(st, i) ==
    /\ st.row[i].vector[model] # Nothing => st.row[i].vector[model] = st.row[i].hash
    /\ st.record[i] # Nothing => st.record[i].vector = st.record[i].text

Lone(fs, i) == \A f, g \in fs : f[2] = i /\ g[2] = i => f = g

RecordOf(text) == [text |-> text, vector |-> text, by |-> model]

LEMMA FewPlacesAreLone ==
    ASSUME NEW fs, fs \subseteq Files, NEW i, ~(Cardinality(PlacesOf(fs, i)) > 1)
    PROVE  Lone(fs, i)
<1> DEFINE ps == PlacesOf(fs, i)
<1>1. SUFFICES ASSUME NEW f \in fs, NEW g \in fs, f[2] = i, g[2] = i, f[1] # g[1]
               PROVE  FALSE
  <2>1. \A f \in fs : f = <<f[1], f[2]>>
    BY DEF Files
  <2>2. QED BY <2>1 DEF Lone
<1>2. ps \subseteq Places /\ {f[1], g[1]} \subseteq ps
  BY <1>1 DEF PlacesOf, Files
<1>3. IsFiniteSet(ps) /\ IsFiniteSet({f[1], g[1]})
  BY <1>2, CorpusAssumption, FS_Subset
<1>4. Cardinality({f[1], g[1]}) = 2
  <2>1. Cardinality({f[1]}) = 1 /\ IsFiniteSet({f[1]})
    BY FS_Singleton
  <2>2. {f[1]} \cup {g[1]} = {f[1], g[1]} /\ g[1] \notin {f[1]}
    BY <1>1
  <2>3. Cardinality({f[1]} \cup {g[1]}) = Cardinality({f[1]}) + 1
    <3>1. PICK one, x : one = {f[1]} /\ x = g[1]
      OBVIOUS
    <3>2. IsFiniteSet(one) /\ x \notin one
      BY <2>1, <2>2, <3>1
    <3>3. Cardinality(one \cup {x}) = Cardinality(one) + 1
      BY <3>2, FS_AddElement
    <3>4. QED BY <3>1, <3>3
  <2>4. QED BY <2>1, <2>2, <2>3
<1>5. Cardinality(ps) \in Nat /\ Cardinality({f[1], g[1]}) <= Cardinality(ps)
  BY <1>2, <1>3, FS_Subset, FS_CardinalityType
<1>6. QED BY <1>4, <1>5

\* An id with one file in the batch gets the text of that file, and for it the
\* embedding of that text, reused or new.
LEMMA LoneTexts ==
    ASSUME NEW st, StoresOK(st), NEW batch, IsBatch(batch), model \in Models,
           NEW i, Matches(st, i), Lone(DOMAIN batch, i), NEW f \in DOMAIN batch, f[2] = i
    PROVE  /\ VectorFor(st, batch, model, i) = batch[f]
           /\ \A done \in SUBSET DOMAIN batch :
                i \in IdsOf(done) => LastText(batch, done, i) = batch[f]
<1>1. ASSUME NEW done \in SUBSET DOMAIN batch, i \in IdsOf(done)
      PROVE  LastText(batch, done, i) = batch[f]
  <2>1. PICK g \in done : g[2] = i /\ LastText(batch, done, i) = batch[g]
    BY <1>1, LastFile
  <2>2. QED BY <2>1 DEF Lone
<1> DEFINE fresh == {g \in DOMAIN batch : g[2] = i /\ ~Reusable(st, batch, model, g)}
<1>2. CASE fresh = {}
  <2>1. Reusable(st, batch, model, f)
    BY <1>2
  <2>2. VectorFor(st, batch, model, i) = st.row[i].vector[model]
    BY <1>2 DEF VectorFor
  <2>3. QED BY <1>1, <2>1, <2>2 DEF Reusable, Matches
<1>3. CASE fresh # {}
  <2>1. VectorFor(st, batch, model, i) = LastText(batch, fresh, i)
    BY <1>3 DEF VectorFor
  <2>2. fresh \in SUBSET DOMAIN batch /\ i \in IdsOf(fresh)
    BY <1>3 DEF IdsOf
  <2> HIDE DEF fresh
  <2>3. QED BY <1>1, <2>1, <2>2
<1>4. QED BY <1>1, <1>2, <1>3

LEMMA LoneUpsert ==
    ASSUME NEW st, StoresOK(st), NEW batch, IsBatch(batch), model \in Models,
           NEW i \in Ids, Matches(st, i), Lone(DOMAIN batch, i),
           NEW done \in SUBSET DOMAIN batch
    PROVE  LET r == Upserted(st, batch, model, done)[i]
           IN  r.vector[model] # Nothing => r.vector[model] = r.hash
<1> DEFINE r == Upserted(st, batch, model, done)[i]
<1>1. CASE i \notin IdsOf(done)
  BY <1>1 DEF Upserted, Matches
<1>2. CASE i \in IdsOf(done)
  <2>1. PICK f \in DOMAIN batch : f[2] = i
    BY <1>2 DEF IdsOf
  <2>2. VectorFor(st, batch, model, i) = batch[f] /\ LastText(batch, done, i) = batch[f]
    BY <1>2, <2>1, LoneTexts
  <2>3. r = [hash |-> batch[f], vector |-> [st.row[i].vector EXCEPT ![model] = batch[f]]]
    BY <1>2, <2>2 DEF Upserted
  <2>4. st.row[i].vector \in [Models -> Texts \cup {Nothing}]
    BY DEF StoresOK, Row
  <2> HIDE DEF r
  <2>5. r.hash = batch[f] /\ r.vector[model] = batch[f]
    BY <2>3, <2>4
  <2>6. QED BY <2>5 DEF r
<1>3. QED BY <1>1, <1>2

LEMMA LoneRecords ==
    ASSUME NEW st, StoresOK(st), NEW batch, IsBatch(batch), model \in Models,
           NEW i \in Ids, Matches(st, i), Lone(DOMAIN batch, i),
           NEW done \in SUBSET DOMAIN batch
    PROVE  LET rec == LoadedRecords(st, batch, model, done)[i]
           IN  /\ i \notin IdsOf(done) => rec = st.record[i]
               /\ \A f \in DOMAIN batch : f[2] = i /\ i \in IdsOf(done) => rec = RecordOf(batch[f])
               /\ rec # Nothing => rec.vector = rec.text
<1> DEFINE rec == LoadedRecords(st, batch, model, done)[i]
<1>1. CASE i \notin IdsOf(done)
  BY <1>1 DEF LoadedRecords, Matches
<1>2. CASE i \in IdsOf(done)
  <2>1. ASSUME NEW f \in DOMAIN batch, f[2] = i
        PROVE  rec = RecordOf(batch[f])
    <3>1. VectorFor(st, batch, model, i) = batch[f] /\ LastText(batch, done, i) = batch[f]
      BY <1>2, <2>1, LoneTexts
    <3>2. QED BY <1>2, <3>1 DEF LoadedRecords, RecordOf
  <2>2. PICK f \in DOMAIN batch : f[2] = i
    BY <1>2 DEF IdsOf
  <2>3. rec = RecordOf(batch[f])
    BY <2>1, <2>2
  <2>4. rec.vector = rec.text
    BY <2>3 DEF RecordOf
  <2>5. QED BY <1>2, <2>1, <2>4
<1>3. QED BY <1>1, <1>2

\* What an ingest does to an id with one file in its batch, or none.
LEMMA IngestMatches ==
    ASSUME "pg_tears" \notin world, NEW st, StoresOK(st), NEW batch, IsBatch(batch),
           model \in Models, NEW i \in Ids, Matches(st, i), Lone(DOMAIN batch, i),
           NEW new, \/ new = IngestSucceeds(st, batch, model)
                    \/ new \in AfterFailure(st, batch, model)
    PROVE  /\ Matches(new, i)
           /\ \/ new.record[i] = st.record[i]
              \/ \E f \in DOMAIN batch : f[2] = i /\ new.record[i] = RecordOf(batch[f])
           /\ new = IngestSucceeds(st, batch, model) =>
                \A f \in DOMAIN batch : f[2] = i => new.record[i] = RecordOf(batch[f])
<1>1. ASSUME NEW done \in SUBSET DOMAIN batch,
             new.row = Upserted(st, batch, model, DOMAIN batch),
             new.record = LoadedRecords(st, batch, model, done)
      PROVE  /\ Matches(new, i)
             /\ \/ new.record[i] = st.record[i]
                \/ \E f \in DOMAIN batch : f[2] = i /\ new.record[i] = RecordOf(batch[f])
             /\ \A f \in DOMAIN batch :
                    f[2] = i /\ i \in IdsOf(done) => new.record[i] = RecordOf(batch[f])
  <2>1. new.row[i].vector[model] # Nothing => new.row[i].vector[model] = new.row[i].hash
    BY <1>1, LoneUpsert
  <2>2. /\ i \notin IdsOf(done) => new.record[i] = st.record[i]
        /\ \A f \in DOMAIN batch :
                f[2] = i /\ i \in IdsOf(done) => new.record[i] = RecordOf(batch[f])
        /\ new.record[i] # Nothing => new.record[i].vector = new.record[i].text
    BY <1>1, LoneRecords
  <2>3. i \in IdsOf(done) => \E f \in DOMAIN batch : f[2] = i
    BY DEF IdsOf
  <2>4. QED BY <2>1, <2>2, <2>3 DEF Matches
<1>2. CASE new = IngestSucceeds(st, batch, model)
  <2>1. /\ new.row = Upserted(st, batch, model, DOMAIN batch)
        /\ new.record = LoadedRecords(st, batch, model, DOMAIN batch)
    BY <1>2 DEF IngestSucceeds
  <2>2. \A f \in DOMAIN batch : f[2] = i => i \in IdsOf(DOMAIN batch)
    BY DEF IdsOf
  <2>3. QED BY <1>1, <2>1, <2>2
<1>3. CASE new \in AfterFailure(st, batch, model) /\ new # IngestSucceeds(st, batch, model)
  <2>1. CASE new = st
    BY <1>3, <2>1
  <2>2. ASSUME NEW done \in SUBSET DOMAIN batch,
               new = [st EXCEPT !.row = Upserted(st, batch, model, done)]
        PROVE  Matches(new, i) /\ new.record[i] = st.record[i]
    <3>1. new.row = Upserted(st, batch, model, done) /\ new.record = st.record
      BY <2>2
    <3>2. new.row[i].vector[model] # Nothing => new.row[i].vector[model] = new.row[i].hash
      BY <3>1, LoneUpsert
    <3>3. QED BY <3>1, <3>2 DEF Matches
  <2>3. ASSUME NEW done \in SUBSET DOMAIN batch,
               new = [row |-> Upserted(st, batch, model, DOMAIN batch),
                      record |-> LoadedRecords(st, batch, model, done)]
        PROVE  /\ Matches(new, i)
               /\ \/ new.record[i] = st.record[i]
                  \/ \E f \in DOMAIN batch : f[2] = i /\ new.record[i] = RecordOf(batch[f])
    <3>1. /\ new.row = Upserted(st, batch, model, DOMAIN batch)
          /\ new.record = LoadedRecords(st, batch, model, done)
      BY <2>3
    <3>2. QED BY <1>1, <3>1
  <2>4. QED
    BY <1>3, <2>1, <2>2, <2>3 DEF AfterFailure
<1>4. QED BY <1>2, <1>3
-----------------------------------------------------------------------------
(* What was indexed since its file changed, while an id has one file. *)

Shown(tree) == {f \in Files : f[1] \notin HiddenPlaces /\ tree[f] # Nothing}
Sole(tree, f) == f \in Shown(tree) /\ \A g \in Shown(tree) : g[2] = f[2] => g = f

Found(w, f) == w.known[f[2]] = w.file[f] /\ w.st.record[f[2]] = RecordOf(w.file[f])
Current(w) == \A f \in Files : f[2] \in w.settled \ mixed /\ Sole(w.file, f) => Found(w, f)

CalmInv ==
    /\ \A i \in Ids \ mixed : /\ Matches(Stores, i)
                              /\ snapshot[i] # Nothing => snapshot[i].vector = snapshot[i].text
    /\ Current(World)

LEMMA OthersKeepRecords ==
    ASSUME NEW st, StoresOK(st), NEW batch, IsBatch(batch), NEW m \in Models,
           NEW i \in Ids, i \notin IdsOf(DOMAIN batch),
           NEW new, \/ new = IngestSucceeds(st, batch, m)
                    \/ new \in AfterFailure(st, batch, m)
    PROVE  new.record[i] = st.record[i]
<1>1. ASSUME NEW done \in SUBSET DOMAIN batch
      PROVE  LoadedRecords(st, batch, m, done)[i] = st.record[i]
  <2>1. i \notin IdsOf(done)
    BY DEF IdsOf
  <2>2. QED BY <2>1 DEF LoadedRecords
<1>2. \/ new.record = st.record
      \/ \E done \in SUBSET DOMAIN batch : new.record = LoadedRecords(st, batch, m, done)
  <2>1. CASE new = IngestSucceeds(st, batch, m)
    BY <2>1 DEF IngestSucceeds
  <2>2. ASSUME NEW done \in SUBSET DOMAIN batch,
               new = [st EXCEPT !.row = Upserted(st, batch, m, done)]
        PROVE  new.record = st.record
    BY <2>2
  <2>3. ASSUME NEW f \in DOMAIN batch, NEW done \in SUBSET (DOMAIN batch \ {f}),
               new = [st EXCEPT !.row = Torn(Upserted(st, batch, m, done), batch, f)]
        PROVE  new.record = st.record
    BY <2>3
  <2>4. ASSUME NEW done \in SUBSET DOMAIN batch,
               new = [row |-> Upserted(st, batch, m, DOMAIN batch),
                      record |-> LoadedRecords(st, batch, m, done)]
        PROVE  new.record = LoadedRecords(st, batch, m, done)
    BY <2>4
  <2>5. QED
    BY <2>1, <2>2, <2>3, <2>4 DEF AfterFailure
<1>3. QED BY <1>1, <1>2

LEMMA LoneIsRemembered ==
    ASSUME NEW batch, IsBatch(batch), NEW base \in Knowns, NEW f \in DOMAIN batch,
           \A g \in DOMAIN batch : g[2] = f[2] => g = f
    PROVE  Remembered(batch, base)[f[2]] = batch[f]
<1>1. f[2] \in IdsOf(DOMAIN batch)
  BY DEF IdsOf
<1>2. PICK g \in DOMAIN batch : g[2] = f[2] /\ LastText(batch, DOMAIN batch, f[2]) = batch[g]
  BY <1>1, LastFile
<1>3. f[2] \in Ids
  BY DEF IsBatch, Files
<1>4. QED BY <1>1, <1>2, <1>3 DEF Remembered

LEMMA WrittenIsCurrent ==
    ASSUME "pg_tears" \notin world, NEW v, GoodWorld(v), Current(v), model \in Models,
           \A i \in Ids \ mixed : Matches(v.st, i),
           NEW f \in Files, NEW text \in Texts, NEW w \in Written(v, f, text)
    PROVE  Current(w) /\ \A i \in Ids \ mixed : Matches(w.st, i)
<1> DEFINE batch == [g \in {f} |-> text]
           tree == [v.file EXCEPT ![f] = text]
<1>1. /\ IsBatch(batch) /\ DOMAIN batch = {f} /\ batch[f] = text
      /\ \A i : Lone(DOMAIN batch, i)
      /\ f[2] \in Ids
  BY DEF IsBatch, Files, Lone
<1>2. \/ /\ w.file = tree /\ w.st = IngestSucceeds(v.st, batch, model)
         /\ w.known = Remembered(batch, v.known)
         /\ w.settled = IF f[1] \in HiddenPlaces THEN v.settled \ {f[2]}
                        ELSE v.settled \cup {f[2]}
      \/ /\ w.file = tree /\ w.st \in AfterFailure(v.st, batch, model)
         /\ w.known = v.known /\ w.settled = v.settled \ {f[2]}
  BY DEF Written
<1>3. /\ tree[f] = text
      /\ \A g \in Files : g[2] # f[2] => tree[g] = v.file[g]
  BY DEF GoodWorld, Tree
<1>4. \A i \in Ids : i # f[2] => Remembered(batch, v.known)[i] = v.known[i]
  BY <1>1 DEF Remembered, IdsOf
<1>5. Remembered(batch, v.known)[f[2]] = text
  BY <1>1, LoneIsRemembered DEF GoodWorld
<1> HIDE DEF batch, tree
<1>6. \A i \in Ids \ mixed : Matches(w.st, i)
  BY <1>1, <1>2, IngestMatches DEF GoodWorld
<1>7. ASSUME NEW g \in Files, g[2] \in w.settled \ mixed, Sole(w.file, g)
      PROVE  Found(w, g)
  <2>1. w.file = tree /\ g[2] \in Ids
    BY <1>2 DEF Files
  <2>2. CASE g[2] # f[2]
    <3>1. Sole(v.file, g)
      BY <1>3, <1>7, <2>1, <2>2 DEF Sole, Shown
    <3>2. g[2] \in v.settled
      BY <1>2, <1>7, <2>2
    <3>3. v.known[g[2]] = v.file[g] /\ v.st.record[g[2]] = RecordOf(v.file[g])
      BY <1>7, <3>1, <3>2 DEF Current, Found
    <3>4. w.st.record[g[2]] = v.st.record[g[2]]
      <4>1. g[2] \notin IdsOf(DOMAIN batch)
        BY <1>1, <2>2 DEF IdsOf
      <4>2. \/ w.st = IngestSucceeds(v.st, batch, model)
            \/ w.st \in AfterFailure(v.st, batch, model)
        BY <1>2
      <4>3. QED BY <1>1, <2>1, <4>1, <4>2, OthersKeepRecords DEF GoodWorld
    <3>5. w.known[g[2]] = v.known[g[2]] /\ w.file[g] = v.file[g]
      BY <1>2, <1>3, <1>4, <2>1, <2>2
    <3>6. QED BY <3>3, <3>4, <3>5 DEF Found
  <2>3. CASE g[2] = f[2]
    <3>1. /\ w.st = IngestSucceeds(v.st, batch, model) /\ f[1] \notin HiddenPlaces
          /\ w.known = Remembered(batch, v.known)
      BY <1>2, <1>7, <2>3
    <3>2. f \in Shown(w.file)
      BY <1>3, <2>1, <3>1, CorpusAssumption DEF Shown
    <3>3. g = f
      BY <1>7, <2>3, <3>2 DEF Sole
    <3>4. w.st.record[f[2]] = RecordOf(text)
      <4>1. f[2] \in Ids \ mixed
        BY <1>7, <2>1, <2>3
      <4>2. f \in DOMAIN batch /\ StoresOK(v.st) /\ Matches(v.st, f[2])
        BY <1>1, <4>1 DEF GoodWorld
      <4>3. w.st.record[f[2]] = RecordOf(batch[f])
        BY <1>1, <3>1, <4>1, <4>2, IngestMatches
      <4>4. QED BY <1>1, <4>3
    <3>5. QED BY <1>3, <1>5, <2>1, <3>1, <3>3, <3>4 DEF Found
  <2>4. QED BY <2>2, <2>3
<1>8. QED BY <1>6, <1>7 DEF Current

LEMMA WorldKeepsCalm ==
    ASSUME CalmInv, NEW w, Current(w), \A i \in Ids \ mixed : Matches(w.st, i),
           WorldBecomes(w)
    PROVE  CalmInv'
<1>1. /\ file' = w.file /\ row' = w.st.row /\ record' = w.st.record
      /\ known' = w.known /\ settled' = w.settled
      /\ UNCHANGED <<world, model, snapshot, mixed>>
  BY DEF WorldBecomes, Become
<1>2. \A i \in Ids \ mixed' : Matches(Stores, i)'
  BY <1>1 DEF Matches, Stores
<1>3. Current(World)'
  BY <1>1 DEF Current, World, Stores, Found, Sole, Shown, RecordOf
<1>4. QED BY <1>1, <1>2, <1>3 DEF CalmInv

\* An index of the files in a tree that becomes the corpus.  Where it fails,
\* only ids whose files and place in the map are as before remain settled.
LEMMA IndexKeepsCalm ==
    ASSUME IndexInv, CalmInv, "pg_tears" \notin world,
           NEW tree \in Tree, file' = tree, model' = model, snapshot' = snapshot,
           NEW corpus, corpus = [f \in Shown(tree) |-> tree[f]],
           NEW base \in Knowns, NEW changed, IndexFrom(corpus, model, base, changed),
           \A f \in Files : f[2] \in settled \ changed =>
                /\ base[f[2]] = known[f[2]]
                /\ \A g \in Files : g[2] = f[2] => tree[g] = file[g]
    PROVE  CalmInv'
<1>1. /\ IsBatch(corpus) /\ DOMAIN corpus = Shown(tree) /\ Shown(tree) \subseteq Files
      /\ \A f \in Shown(tree) : corpus[f] = tree[f]
  BY TreeIsBatch DEF Shown
<1>2. StoresOK(Stores) /\ model \in Models
  BY InvIsGood DEF IndexInv, IndexTypeOK
<1>3. PICK st : /\ \/ /\ st = IngestSucceeds(Stores, corpus, model)
                      /\ known' = Remembered(corpus, base) /\ settled' = Ids
                   \/ /\ st \in AfterFailure(Stores, corpus, model)
                      /\ known' = base /\ settled' = settled \ changed
                /\ row' = st.row /\ record' = st.record
  BY DEF IndexFrom, Become
<1>4. mixed' = mixed \cup {i \in Ids : Cardinality(PlacesOf(DOMAIN corpus, i)) > 1}
  BY DEF IndexFrom
<1>5. ASSUME NEW i \in Ids \ mixed'
      PROVE  /\ Matches(st, i) /\ Lone(DOMAIN corpus, i)
             /\ \/ st.record[i] = record[i]
                \/ \E f \in DOMAIN corpus : f[2] = i /\ st.record[i] = RecordOf(corpus[f])
             /\ st = IngestSucceeds(Stores, corpus, model) =>
                    \A f \in DOMAIN corpus : f[2] = i => st.record[i] = RecordOf(corpus[f])
  <2>1. i \in Ids \ mixed /\ ~(Cardinality(PlacesOf(DOMAIN corpus, i)) > 1)
    BY <1>4
  <2>2. Lone(DOMAIN corpus, i)
    BY <1>1, <2>1, FewPlacesAreLone
  <2>3. Matches(Stores, i) /\ Stores.record = record
    BY <2>1 DEF CalmInv, Stores
  <2>4. QED BY <1>1, <1>2, <1>3, <2>1, <2>2, <2>3, IngestMatches
<1>6. \A i \in Ids \ mixed' : Matches(Stores, i)'
  BY <1>3, <1>5 DEF Matches, Stores
<1>7. ASSUME NEW f \in Files, f[2] \in settled' \ mixed', Sole(tree, f)
      PROVE  known'[f[2]] = tree[f] /\ record'[f[2]] = RecordOf(tree[f])
  <2> DEFINE i == f[2]
  <2>1. f \in DOMAIN corpus /\ corpus[f] = tree[f] /\ i \in Ids \ mixed'
    BY <1>1, <1>7 DEF Sole, Files
  <2>2. \A g \in DOMAIN corpus : g[2] = i => g = f
    BY <1>1, <1>7 DEF Sole
  <2>3. CASE /\ st = IngestSucceeds(Stores, corpus, model)
             /\ known' = Remembered(corpus, base)
    <3>1. record'[i] = RecordOf(tree[f])
      BY <1>3, <1>5, <2>1, <2>3
    <3>2. Remembered(corpus, base)[i] = corpus[f]
      BY <1>1, <2>1, <2>2, LoneIsRemembered
    <3>3. known'[i] = tree[f]
      BY <2>1, <2>3, <3>2
    <3>4. QED BY <3>1, <3>3
  <2>4. CASE /\ st \in AfterFailure(Stores, corpus, model)
             /\ known' = base /\ settled' = settled \ changed
    <3>1. base[i] = known[i] /\ \A g \in Files : g[2] = i => tree[g] = file[g]
      BY <1>7, <2>4
    <3>2. Sole(file, f) /\ i \in settled \ mixed
      BY <1>4, <1>7, <2>4, <3>1 DEF Sole, Shown
    <3>3. known[i] = file[f] /\ record[i] = RecordOf(file[f])
      <4>1. /\ World.file = file /\ World.settled = settled /\ World.known = known
            /\ World.st.record = record
        BY DEF World, Stores
      <4>2. Found(World, f)
        BY <3>2, <4>1 DEF CalmInv, Current
      <4>3. QED BY <4>1, <4>2 DEF Found
    <3>4. record'[i] = RecordOf(tree[f])
      BY <1>3, <1>5, <2>1, <2>2, <3>1, <3>3
    <3>5. QED BY <2>4, <3>1, <3>3, <3>4
  <2>5. QED BY <1>3, <2>3, <2>4
<1>8. Current(World)'
  BY <1>7 DEF Current, World, Stores, Found, RecordOf
<1>9. \A i \in Ids \ mixed' : snapshot'[i] # Nothing => snapshot'[i].vector = snapshot'[i].text
  BY <1>4 DEF CalmInv
<1>10. QED BY <1>6, <1>8, <1>9 DEF CalmInv

LEMMA StepKeepsCalm ==
    ASSUME Calm, IndexInv, CalmInv, [IndexNext]_indexVars
    PROVE  CalmInv'
<1>1. /\ file \in Tree /\ model \in Models /\ known \in Knowns /\ settled \subseteq Ids
      /\ GoodWorld(World) /\ Current(World) /\ World.st = Stores
      /\ \A i \in Ids \ mixed : Matches(Stores, i)
      /\ "pg_tears" \notin world /\ "model_switch" \notin world
  BY InvIsGood DEF IndexInv, IndexTypeOK, Knowns, World, CalmInv, Calm
<1>2. Corpus = [f \in Shown(file) |-> file[f]] /\ Corpus' = [f \in Shown(file') |-> file'[f]]
  BY DEF Corpus, BatchOf, Visible, Shown
<1>3. ASSUME NEW f \in Files, FileChanges(f) PROVE CalmInv'
  <2>1. /\ UNCHANGED <<model, snapshot, mixed, row, record, known>>
        /\ settled' = settled \ {f[2]}
        /\ \A g \in Files : g[2] # f[2] => file'[g] = file[g]
    BY <1>1, <1>3 DEF FileChanges, derived, Tree
  <2>2. \A i \in Ids \ mixed' : Matches(Stores, i)'
    BY <1>1, <2>1 DEF Matches, Stores
  <2>3. ASSUME NEW g \in Files, g[2] \in settled' \ mixed', Sole(file', g)
        PROVE  known'[g[2]] = file'[g] /\ record'[g[2]] = RecordOf(file'[g])
    <3>1. g[2] # f[2] /\ Sole(file, g) /\ file'[g] = file[g]
      BY <2>1, <2>3 DEF Sole, Shown
    <3>2. Found(World, g)
      BY <1>1, <2>1, <2>3, <3>1 DEF Current, World
    <3>3. QED BY <2>1, <3>1, <3>2 DEF Found, World, Stores
  <2>4. Current(World)'
    BY <2>1, <2>3 DEF Current, World, Stores, Found, RecordOf
  <2>5. QED BY <2>1, <2>2, <2>4 DEF CalmInv
<1>4. ASSUME NEW f \in Files, NEW text \in Texts, WriteArtifact(f, text) PROVE CalmInv'
  <2>1. PICK w \in Written(World, f, text) : WorldBecomes(w)
    BY <1>4 DEF WriteArtifact
  <2>2. Current(w) /\ \A i \in Ids \ mixed : Matches(w.st, i)
    BY <1>1, <2>1, WrittenIsCurrent
  <2>3. QED BY <2>1, <2>2, WorldKeepsCalm
<1>5. ASSUME NEW i \in Ids, NEW text \in Texts, ConfigureSkill(i, text) PROVE CalmInv'
  <2>1. PICK w \in Written(World, Find(i), text) : WorldBecomes(w)
    BY <1>5 DEF ConfigureSkill
  <2>2. Find(i) \in Files
    BY <1>1, <1>5, FindIsFile DEF ConfigureSkill, Visible
  <2>3. Current(w) /\ \A j \in Ids \ mixed : Matches(w.st, j)
    BY <1>1, <2>1, <2>2, WrittenIsCurrent
  <2>4. QED BY <2>1, <2>3, WorldKeepsCalm
<1>6. ASSUME NEW f \in Files, NEW g \in Files, NEW text \in Texts, NEW other \in Texts,
             IngestDocument(f, text, g, other)
      PROVE  CalmInv'
  <2>1. PICK v \in Written(World, f, text) :
            \E w \in IF v.done THEN Written(v, g, other) ELSE {v} : WorldBecomes(w)
    BY <1>6 DEF IngestDocument
  <2>2. PICK w : (w \in Written(v, g, other) \/ w = v) /\ WorldBecomes(w)
    BY <2>1
  <2>3. GoodWorld(v) /\ Current(v) /\ \A i \in Ids \ mixed : Matches(v.st, i)
    BY <1>1, <2>1, WrittenIsGood, WrittenIsCurrent
  <2>4. Current(w) /\ \A i \in Ids \ mixed : Matches(w.st, i)
    <3>1. CASE w = v
      BY <2>3, <3>1
    <3>2. CASE w \in Written(v, g, other)
      BY <1>1, <2>3, <3>2, WrittenIsCurrent
    <3>3. QED BY <2>2, <3>1, <3>2
  <2>5. QED BY <2>2, <2>4, WorldKeepsCalm
<1>7. ASSUME NEW archive \in Archives, SyncLands(archive) PROVE CalmInv'
  <2> DEFINE changed == {f[2] : f \in {g \in Files : file'[g] # file[g]}}
  <2>1. file' \in Tree
    <3>1. \A f \in DOMAIN archive : archive[f] \in Texts
      BY DEF Archives
    <3>2. QED BY <1>1, <1>7, <3>1 DEF SyncLands, Landed, Tree
  <2>2. IndexFrom(Corpus', model, known, changed) /\ UNCHANGED <<model, snapshot>>
    BY <1>7 DEF SyncLands
  <2>3. \A g \in Files : g[2] \notin changed => file'[g] = file[g]
    OBVIOUS
  <2> HIDE DEF changed
  <2>4. PICK tree, corpus : tree = file' /\ corpus = Corpus'
    OBVIOUS
  <2>5. /\ tree \in Tree /\ file' = tree /\ corpus = [f \in Shown(tree) |-> tree[f]]
        /\ IndexFrom(corpus, model, known, changed)
    BY <1>2, <2>1, <2>2, <2>4
  <2>6. \A f \in Files : f[2] \in settled \ changed =>
            \A g \in Files : g[2] = f[2] => tree[g] = file[g]
    BY <2>3, <2>4
  <2>7. QED BY <1>1, <2>2, <2>5, <2>6, IndexKeepsCalm
<1>8. CASE IndexCorpus
  <2>1. IndexFrom(Corpus, model, known, {}) /\ UNCHANGED <<file, model, snapshot>>
    BY <1>8 DEF IndexCorpus
  <2>2. QED BY <1>1, <1>2, <2>1, IndexKeepsCalm
<1>9. CASE Restart
  <2>1. IndexFrom(Corpus, model, NothingFor, Ids) /\ UNCHANGED <<file, model, snapshot>>
    BY <1>1, <1>9 DEF Restart
  <2>2. NothingFor \in Knowns /\ settled \ Ids = {}
    BY <1>1 DEF NothingFor, Knowns
  <2>3. QED BY <1>1, <1>2, <2>1, <2>2, IndexKeepsCalm
<1>10. CASE RedisSaves \/ RedisRestarts
  <2>1. /\ UNCHANGED <<file, model, row, known, mixed>>
        /\ record' \in {record, snapshot} /\ snapshot' \in {record, snapshot}
        /\ settled' = {} \/ (settled' = settled /\ record' = record)
    BY <1>10 DEF RedisSaves, RedisRestarts, derived
  <2>2. \A i \in Ids \ mixed : /\ record[i] # Nothing => record[i].vector = record[i].text
                               /\ snapshot[i] # Nothing => snapshot[i].vector = snapshot[i].text
    BY DEF CalmInv, Matches, Stores
  <2>3. \A i \in Ids \ mixed' : Matches(Stores, i)'
    BY <1>1, <2>1, <2>2 DEF Matches, Stores
  <2>4. Current(World)'
    BY <1>1, <2>1 DEF Current, World, Stores, Found, RecordOf
  <2>5. QED BY <2>1, <2>2, <2>3, <2>4 DEF CalmInv
<1>11. CASE UNCHANGED indexVars
  BY <1>1, <1>11 DEF indexVars, derived, CalmInv, Matches, Stores, Current, World, Found,
                     RecordOf
<1>12. QED
  BY <1>3, <1>4, <1>5, <1>6, <1>7, <1>8, <1>9, <1>10, <1>11 DEF IndexNext

LEMMA CalmHolds == ASSUME Calm PROVE IndexSpec => [](IndexInv /\ CalmInv)
<1>1. ASSUME IndexInit PROVE CalmInv
  <2>1. /\ \A i \in Ids : Matches(Stores, i) /\ snapshot[i] = Nothing
        /\ settled = {}
    BY <1>1 DEF IndexInit, Matches, Stores, NoRow, NothingFor
  <2>2. World.settled = {}
    BY <2>1 DEF World
  <2>3. QED BY <2>1, <2>2 DEF CalmInv, Current
<1>2. IndexInv /\ CalmInv /\ [IndexNext]_indexVars => CalmInv'
  BY StepKeepsCalm
<1>3. QED BY <1>1, <1>2, RedisStaysRebuildable, PTL DEF IndexSpec, IndexInv

\* A record is searched by the embedding of its own text, unless its id was
\* ever indexed from two files: through failures between artifacts, failed
\* loads, both kinds of restart and landings.
THEOREM MixingStaysConfined == ASSUME Calm PROVE IndexSpec => []MixingIsConfined
<1>1. CalmInv => MixingIsConfined
  BY DEF CalmInv, Matches, Stores, MixingIsConfined
<1>2. QED BY <1>1, CalmHolds, PTL

\* What was indexed since its file changed is found and served as the file
\* says, whatever failed in between.
THEOREM IndexedStaysCurrent == ASSUME Calm PROVE IndexSpec => []IndexedIsCurrent
<1>1. ASSUME IndexInv, CalmInv PROVE IndexedIsCurrent
  <2>1. SUFFICES ASSUME NEW i \in settled \ (mixed \cup Duplicated), PlacesOf(Visible, i) # {}
                 PROVE  /\ known[i] = file[Find(i)]
                        /\ record[i] = RecordOf(file[Find(i)])
    BY DEF IndexedIsCurrent, RecordOf
  <2>2. i \in Ids /\ file \in Tree
    BY <1>1, <2>1 DEF IndexInv, IndexTypeOK
  <2>3. Find(i) \in Visible /\ Find(i)[2] = i
    BY <2>1, <2>2, FindIsFile
  <2>4. Lone(Visible, i) /\ Visible \subseteq Files /\ Visible = Shown(file)
    BY <2>1, <2>2, FewPlacesAreLone DEF Duplicated, Visible, Shown
  <2>5. PICK f \in Files : f = Find(i) /\ f[2] = i /\ Sole(file, f)
    BY <2>3, <2>4 DEF Sole, Lone
  <2>6. Found(World, f)
    BY <1>1, <2>1, <2>5 DEF CalmInv, Current, World
  <2>7. QED BY <2>5, <2>6 DEF Found, World, Stores
<1>2. QED BY <1>1, CalmHolds, PTL
=============================================================================

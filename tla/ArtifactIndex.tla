---------------------------- MODULE ArtifactIndex ----------------------------
(***************************************************************************)
(* ArtifactIndex: the corpus and what is derived from it.  The markdown    *)
(* files are the record; an ingest writes their artifacts through to rows  *)
(* and embeddings in Postgres, to records in Redis and to the map in       *)
(* memory that turns hits into artifacts.                                  *)
(*                                                                         *)
(* Everything from the read of the corpus to the end of the ingest runs    *)
(* without suspension, so a tool call, a reindex or a landing is one step, *)
(* with what a failure leaves behind as its outcomes.  A process that dies *)
(* in the middle is one of those outcomes followed by Restart.  An         *)
(* embedding is the text it was computed from.                             *)
(***************************************************************************)
EXTENDS CorpusFiles

CONSTANTS
    Models,         \* embedding models the settings may name
    Worlds          \* for each world the server may be in, what may go wrong

IndexFreedoms ==
    {"unreachable",   \* provider, Postgres or corpus fail before any write
     "pg_stops",      \* Postgres fails between two artifacts
     "pg_tears",      \* ... between the two statements of one artifact
     "redis_stops",   \* Redis fails during the load
     "redis_crash",   \* Redis restarts from its last snapshot
     "delete",        \* a file is deleted
     "duplicate",     \* an id gets a second file
     "sync",          \* an archive of the skills repository lands
     "model_switch"}  \* a boot with another embedding model

ASSUME IndexAssumption ==
    /\ Models # {}
    /\ Worlds \subseteq SUBSET IndexFreedoms

VARIABLES
    world,      \* what may go wrong, once and for all
    model,      \* settings.openrouter_embedding_model, read once at boot
    row,        \* id -> its row in artifacts and its rows in embeddings
    record,     \* id -> its hash in the search index
    snapshot,   \* what Redis has on disk
    known,      \* Retrieval._artifacts
    settled,    \* ids indexed since a file of theirs last changed (history)
    mixed       \* ids that an ingest met in two files (history)

derived == <<row, record, known>>
indexVars == <<world, file, model, snapshot, settled, mixed, derived>>

Row == [hash : Texts \cup {Nothing}, vector : [Models -> Texts \cup {Nothing}]]
NoRow == [hash |-> Nothing, vector |-> [m \in Models |-> Nothing]]
Record == [text : Texts, vector : Texts, by : Models] \cup {Nothing}
NothingFor == [i \in Ids |-> Nothing]

\* A server that has indexed nothing yet, beside any corpus of its user.
IndexInit ==
    /\ world \in Worlds
    /\ file \in {t \in Tree : \A f \in Files : f[1] \notin SyncPlaces \/ t[f] = Nothing}
    /\ "duplicate" \notin world => Duplicated = {}
    /\ model \in Models
    /\ row = [i \in Ids |-> NoRow]
    /\ record = NothingFor /\ snapshot = NothingFor
    /\ known = NothingFor
    /\ settled = {} /\ mixed = {}
-----------------------------------------------------------------------------
(* ingest(): st holds the rows and records it starts from, batch the       *)
(* artifacts in walk order, m the embedding model.                         *)

Stores == [row |-> row, record |-> record]

\* Of two artifacts with one id the later one is written last.
LastText(batch, fs, i) == batch[<<LastOf(PlacesOf(fs, i)), i>>]

\* Mutant: any stored embedding is reused.
StoredVector(st, batch, m, f) == st.row[f[2]].vector[m] # Nothing

\* fetch_indexed, then the comparison of hashes.
Reusable(st, batch, m, f) ==
    LET r == st.row[f[2]]
    IN  r.vector[m] # Nothing /\ r.hash = batch[f]

\* Mutant: what is not reusable is not embedded either.
StoredOnly(st, batch, m, i) == st.row[i].vector[m]

\* _resolve_embeddings: the embeddings are kept by id, and those of the
\* artifacts that had to be embedded replace a reused one of the same id.
VectorFor(st, batch, m, i) ==
    LET fresh == {f \in DOMAIN batch : f[2] = i /\ ~Reusable(st, batch, m, f)}
    IN  IF fresh = {} THEN st.row[i].vector[m] ELSE LastText(batch, fresh, i)

\* upsert_artifact of the files in done: both statements.
Upserted(st, batch, m, done) ==
    [i \in Ids |->
        IF i \notin IdsOf(done) THEN st.row[i]
        ELSE [hash |-> LastText(batch, done, i),
              vector |-> [st.row[i].vector EXCEPT ![m] = VectorFor(st, batch, m, i)]]]

\* Only the first statement of upsert_artifact reached file f.
Torn(rows, batch, f) == [rows EXCEPT ![f[2]].hash = batch[f]]

\* _load_redis of the files in done.
LoadedRecords(st, batch, m, done) ==
    [i \in Ids |->
        IF i \notin IdsOf(done) THEN st.record[i]
        ELSE [text |-> LastText(batch, done, i),
              vector |-> VectorFor(st, batch, m, i), by |-> m]]

IngestSucceeds(st, batch, m) ==
    [row |-> Upserted(st, batch, m, DOMAIN batch),
     record |-> LoadedRecords(st, batch, m, DOMAIN batch)]

\* Mutant: Redis is loaded before the rows are written.
RedisFirst(st, batch, m) ==
    {st} \cup {[row |-> st.row, record |-> LoadedRecords(st, batch, m, DOMAIN batch)]}

\* The stores an ingest that raised may leave.
AfterFailure(st, batch, m) ==
    UNION {
        {s \in {st} : "unreachable" \in world},
        {[st EXCEPT !.row = Upserted(st, batch, m, done)] :
            done \in IF "pg_stops" \in world THEN SUBSET DOMAIN batch ELSE {}},
        UNION {{[st EXCEPT !.row = Torn(Upserted(st, batch, m, done), batch, f)] :
                    done \in SUBSET (DOMAIN batch \ {f})} :
               f \in IF "pg_tears" \in world THEN DOMAIN batch ELSE {}},
        {[row |-> Upserted(st, batch, m, DOMAIN batch),
          record |-> LoadedRecords(st, batch, m, done)] :
            done \in IF "redis_stops" \in world THEN SUBSET DOMAIN batch ELSE {}}}

\* Mutant: what is not in the batch is forgotten.
RememberedAnew(batch, base) ==
    [i \in Ids |-> IF i \in IdsOf(DOMAIN batch) THEN LastText(batch, DOMAIN batch, i)
                   ELSE Nothing]

\* _remember: ids are added and replaced, never dropped.
Remembered(batch, base) ==
    [i \in Ids |-> IF i \in IdsOf(DOMAIN batch) THEN LastText(batch, DOMAIN batch, i)
                   ELSE base[i]]

Become(st) == row' = st.row /\ record' = st.record
-----------------------------------------------------------------------------
(* The writers: edit_skill, add_skill, configure_skill and POST /ingest    *)

\* A write leaves the corpus, the stores and the map in one of these worlds;
\* done says that the call goes on.
World == [file |-> file, st |-> Stores, known |-> known, settled |-> settled,
          done |-> TRUE]

\* The file comes first and stays when the reindex fails.
Written(w, f, text) ==
    LET batch == [g \in {f} |-> text]
        tree == [w.file EXCEPT ![f] = text]
    IN  {[file |-> tree, st |-> IngestSucceeds(w.st, batch, model),
          known |-> Remembered(batch, w.known),
          settled |-> IF f[1] \in HiddenPlaces THEN w.settled \ {f[2]}
                      ELSE w.settled \cup {f[2]},
          done |-> TRUE]}
        \cup {[file |-> tree, st |-> st, known |-> w.known,
               settled |-> w.settled \ {f[2]}, done |-> FALSE] :
              st \in AfterFailure(w.st, batch, model)}

\* No writer looks for the id in another place.
MayHold(tree, f) ==
    "duplicate" \in world \/ \A p \in Places \ {f[1]} : tree[<<p, f[2]>>] = Nothing

WorldBecomes(w) ==
    /\ file' = w.file
    /\ Become(w.st)
    /\ known' = w.known /\ settled' = w.settled
    /\ UNCHANGED <<world, model, snapshot, mixed>>

\* edit_skill and add_skill, with the category they are given.
WriteArtifact(f, text) ==
    /\ MayHold(file, f)
    /\ \E w \in Written(World, f, text) : WorldBecomes(w)

\* configure_skill writes where it found the skill.
ConfigureSkill(i, text) ==
    /\ PlacesOf(Visible, i) # {}
    /\ \E w \in Written(World, Find(i), text) : WorldBecomes(w)

\* POST /ingest of a document that yields two artifacts: the second is not
\* written when the first could not be indexed.  A shorter document, and one
\* whose second artifact is malformed, is WriteArtifact.
IngestDocument(f, text, g, other) ==
    /\ MayHold(file, f)
    /\ \E v \in Written(World, f, text) :
            /\ v.done => MayHold(v.file, g)
            /\ \E w \in IF v.done THEN Written(v, g, other) ELSE {v} : WorldBecomes(w)
-----------------------------------------------------------------------------
(* The operator, the skills sync and the server's boot *)

\* index_corpus over a corpus, from a map; ids in changed have new files.
IndexFrom(corpus, m, base, changed) ==
    /\ \/ /\ Become(IngestSucceeds(Stores, corpus, m))
          /\ known' = Remembered(corpus, base)
          /\ settled' = Ids
       \/ /\ \E st \in AfterFailure(Stores, corpus, m) : Become(st)
          /\ known' = base
          /\ settled' = settled \ changed
    /\ mixed' = mixed \cup {i \in Ids : Cardinality(PlacesOf(DOMAIN corpus, i)) > 1}

\* POST /reindex (`betterai index`).
IndexCorpus ==
    /\ IndexFrom(Corpus, model, known, {})
    /\ UNCHANGED <<world, file, model, snapshot>>

\* A landing and the index of the corpus it makes.
SyncLands(archive) ==
    /\ "sync" \in world
    /\ ~Collides(archive)
    /\ file' = Landed(archive)
    /\ IndexFrom(Corpus', model, known, {f[2] : f \in {g \in Files : file'[g] # file[g]}})
    /\ UNCHANGED <<world, model, snapshot>>

\* A new process has an empty map and indexes the corpus once; it serves
\* even if that fails.
Restart ==
    /\ model' \in IF "model_switch" \in world THEN Models ELSE {model}
    /\ IndexFrom(Corpus, model', NothingFor, Ids)
    /\ UNCHANGED <<world, file, snapshot>>

\* The files change under the server: an editor or git.
FileChanges(f) ==
    /\ \E text \in Texts \cup {Nothing} :
            /\ IF text = Nothing THEN "delete" \in world ELSE MayHold(file, f)
            /\ file' = [file EXCEPT ![f] = text]
    /\ settled' = settled \ {f[2]}
    /\ UNCHANGED <<world, model, snapshot, mixed, derived>>

\* redis-server --save 60 1
RedisSaves ==
    /\ "redis_crash" \in world
    /\ snapshot' = record
    /\ UNCHANGED <<world, file, model, settled, mixed, derived>>

RedisRestarts ==
    /\ "redis_crash" \in world
    /\ record' = snapshot
    /\ settled' = {}
    /\ UNCHANGED <<world, file, model, row, snapshot, known, mixed>>

IndexNext ==
    \/ \E f \in Files : FileChanges(f)
    \/ \E f \in Files, text \in Texts : WriteArtifact(f, text)
    \/ \E i \in Ids, text \in Texts : ConfigureSkill(i, text)
    \/ \E f, g \in Files, text, other \in Texts : IngestDocument(f, text, g, other)
    \/ \E archive \in Archives : SyncLands(archive)
    \/ IndexCorpus \/ Restart
    \/ RedisSaves \/ RedisRestarts

IndexSpec == IndexInit /\ [][IndexNext]_indexVars
-----------------------------------------------------------------------------
(* Properties *)

\* The variables keep their types.
IndexTypeOK ==
    /\ world \in Worlds
    /\ file \in Tree
    /\ model \in Models
    /\ row \in [Ids -> Row]
    /\ record \in [Ids -> Record] /\ snapshot \in [Ids -> Record]
    /\ known \in [Ids -> Texts \cup {Nothing}]
    /\ settled \subseteq Ids /\ mixed \subseteq Ids

\* "PG is upserted FIRST so Redis is always rebuildable from durable rows"
\* (ingest.py): every record of the search index, and of the snapshot it may
\* come back from, has its row and an embedding of its model in Postgres.
RedisRebuildable ==
    \A i \in Ids : \A r \in {record[i], snapshot[i]} \ {Nothing} :
        row[i].hash # Nothing /\ row[i].vector[r.by] # Nothing

\* "a content-hash short-circuit reuses stored embeddings for unchanged
\* artifacts" (ingest.py): a record is searched by the embedding of its own
\* text, never by that of another one.  Two files with one id may mix their
\* embeddings for good, but the damage stays with the ids that were ever
\* indexed from two files.
MixingIsConfined ==
    \A i \in Ids \ mixed : record[i] # Nothing => record[i].vector = record[i].text

\* What was indexed since its file last changed is found as the file says,
\* with the embedding of the current model, and served with the file's text,
\* whatever failed in between ("`betterai index` catches the derived stores
\* up", ingest/pipeline.py).
IndexedIsCurrent ==
    \A i \in settled \ (mixed \cup Duplicated) :
        LET f == Find(i)
        IN  PlacesOf(Visible, i) # {} =>
                /\ known[i] = file[f]
                /\ record[i] = [text |-> file[f], vector |-> file[f], by |-> model]

\* "Never clobber user-authored artifacts" (sync/skills.py): what a landing
\* brings has no other file, so that every id the user wrote a file for is
\* still found there and indexed from there.
LandingStaysApart ==
    [][\A archive \in Archives : SyncLands(archive) =>
            \A f \in DOMAIN archive : PlacesOf(Visible', f[2]) \subseteq SyncPlaces]_indexVars

\* "a miss means the index outlived the corpus and the fix is `betterai
\* index`" (retrieval/__init__.py): once everything is indexed, every hit of a
\* query is in the map.
NoOrphans ==
    settled = Ids => \A i \in Ids : record[i] # Nothing => known[i] # Nothing
=============================================================================

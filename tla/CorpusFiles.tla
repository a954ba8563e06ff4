----------------------------- MODULE CorpusFiles -----------------------------
(***************************************************************************)
(* CorpusFiles: the markdown files of the corpus, as the reader walks them *)
(* and as the writers place them.                                          *)
(*                                                                         *)
(* A place is a category directory under rules/ or skills/.  Places are    *)
(* numbered in the order the reader walks them: rules before skills, then  *)
(* by name.  The writers name a file after its artifact id, so a file is a *)
(* place and an id; an id may have a file in several places, since no      *)
(* writer looks for it elsewhere.  Of a file only its text counts.         *)
(***************************************************************************)
EXTENDS Integers, FiniteSets

CONSTANTS
    Places,         \* category directories, numbered in walk order
    SyncPlaces,     \* the two synced-github directories
    HiddenPlaces,   \* _meta directories, which the walk prunes
    Ids,            \* artifact ids
    Texts,          \* what a file may hold
    Nothing         \* no file

ASSUME CorpusAssumption ==
    /\ Places \subseteq Nat /\ IsFiniteSet(Places)
    /\ SyncPlaces \subseteq Places /\ HiddenPlaces \subseteq Places \ SyncPlaces
    /\ Texts # {} /\ Nothing \notin Texts

VARIABLE file       \* <<place, id>> -> its text, or Nothing

Files == Places \X Ids
Tree == [Files -> Texts \cup {Nothing}]

\* A batch is what an ingest is given: the text of each file in it.
BatchOf(fs) == [f \in fs |-> file[f]]

\* CorpusReader.read(): every file outside the _meta directories.
Visible == {f \in Files : f[1] \notin HiddenPlaces /\ file[f] # Nothing}
Corpus == BatchOf(Visible)

\* The places in which a set of files holds an id, and the ids it holds.
PlacesOf(fs, i) == {f[1] : f \in {g \in fs : g[2] = i}}
IdsOf(fs) == {f[2] : f \in fs}
Duplicated == {i \in Ids : Cardinality(PlacesOf(Visible, i)) > 1}

LastOf(ps) == CHOOSE p \in ps : \A q \in ps : q <= p
FirstOf(ps) == CHOOSE p \in ps : \A q \in ps : p <= q

\* CorpusReader.find(): the first file of the walk that has the id.
Find(i) == <<FirstOf(PlacesOf(Visible, i)), i>>

\* Mutant: the guard looks only where the archive is about to write.
CollidesInPlace(archive) ==
    \E f \in DOMAIN archive : f \in Visible /\ f[1] \notin SyncPlaces

\* _guard_collisions: an id of the archive lives outside synced-github.
Collides(archive) ==
    \E f \in Visible : f[1] \notin SyncPlaces /\ f[2] \in IdsOf(DOMAIN archive)

\* _land: both synced-github directories are replaced by the archive.
Landed(archive) ==
    [f \in Files |-> IF f[1] \notin SyncPlaces THEN file[f]
                     ELSE IF f \in DOMAIN archive THEN archive[f] ELSE Nothing]

Archives == UNION {[fs -> Texts] : fs \in SUBSET (SyncPlaces \X Ids)}
=============================================================================

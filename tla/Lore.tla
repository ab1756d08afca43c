-------------------------------- MODULE Lore --------------------------------
(* The knowledge bases: Lores in the repository, their chunks in one of the *)
(* vector stores, ingestions that write them a piece at a time, and the     *)
(* deletion of a Lore, repository first.  A text is the ingestion that      *)
(* brought it; embeddings, scores and top-K are left out.                   *)
EXTENDS Naturals

CONSTANTS
    Store,        \* of "mongo", "qdrant", "pgvector", "pinecone", "weaviate"
    Source,       \* the documents to ingest: pairs of a Lore and a DocumentID
    NoDocument,   \* the second of a text without one
    Ingestor,     \* numbers of the ingestions under way at once
    MaxChunks,    \* bound: chunks of a text
    MaxIngests,   \* bound: ingestions begun
    Deletable     \* bound: the Lores that are deleted and created again

VARIABLES
    store,       \* the LoreStore of the engine
    lores,       \* the Lores in the repository
    deleting,    \* the Lore whose vectors the DELETE handler has still to remove (bound: one)
    collection,  \* the collection exists (Qdrant)
    chunks,      \* the stored chunks
    ingest,      \* [Ingestor -> the ingestion under way]
    ingests,     \* ingestions begun
    forms,       \* [Source -> the numbers of chunks its texts were cut into]
    latest,      \* [Source -> its last complete ingestion and its number of chunks]
    unsettled    \* sources that a failure, a race or a shorter text left inconsistent

loreVars == <<store, lores, deleting, collection, chunks, ingest, ingests, forms, latest, unsettled>>

Lore == {s[1] : s \in Source}

\* No document has the id of a Lore, which is a UUID unless the caller gives another.
ASSUME SourceAssumption ==
    /\ Source \subseteq Lore \X {s[2] : s \in Source}
    /\ NoDocument \notin Lore /\ \A s, t \in Source : s[2] # t[1]
ASSUME NumbersAssumption == Ingestor \subseteq Nat /\ MaxChunks \in Nat

Never == [text |-> 0, total |-> 0]
NoIngest == [source |-> <<NoDocument, NoDocument>>, text |-> 0, total |-> 0, next |-> 0,
             step |-> "idle", spoilt |-> FALSE]

LoreInit ==
    /\ store \in Store /\ lores = Lore /\ deleting = {} /\ collection = FALSE /\ chunks = {}
    /\ ingest = [w \in Ingestor |-> NoIngest] /\ ingests = 0
    /\ forms = [s \in Source |-> {}] /\ latest = [s \in Source |-> Never] /\ unsettled = {}

-----------------------------------------------------------------------------

\* Faulty: positions only, as if no ingestion had a DocumentID.
ChunkIdPositional(s, i, total) == <<s[1], i>>

\* A record of one chunk has the id of its document; without one ids are positions.
ChunkId(s, i, total) ==
    IF s[2] = NoDocument THEN <<s[1], i>> ELSE IF total = 1 THEN <<s[2]>> ELSE <<s[2], i>>

Chunk(s, text, i, total) ==
    [id |-> ChunkId(s, i, total), lore |-> s[1], doc |-> s[2], text |-> text, copy |-> 1]

Chunks(s, text, total) == {Chunk(s, text, i, total) : i \in 0..total - 1}

\* The primary key: the id, in Pinecone within the namespace of the Lore.
SameKey(c, d) == c.id = d.id /\ (store = "pinecone" => c.lore = d.lore)

\* Replace by key; pgvector's ON CONFLICT leaves lore_id as it was.
Put(new, stored) ==
    LET old(c) == {d \in stored : SameKey(d, c)}
        row(c) == IF store = "pgvector" /\ old(c) # {}
                  THEN {[c EXCEPT !.lore = d.lore] : d \in old(c)} ELSE {c}
    IN {d \in stored : \A c \in new : ~SameKey(d, c)} \cup UNION {row(c) : c \in new}

\* Two sources whose chunks have the same keys.
Collide(s, t) == s[2] = t[2] /\ (s[1] = t[1] \/ (store # "pinecone" /\ s[2] # NoDocument))

\* Another Lore holds a document of this id.
Shared(s) == \E t \in Source \ {s} : Collide(s, t) /\ forms[t] # {}

\* Every id of a text in m pieces is an id of a text in n pieces.
Covers(n, m) == n = m \/ (m > 1 /\ n > m)

MarkSettled(s, settled) == unsettled' = IF settled THEN unsettled \ {s} ELSE unsettled \cup {s}

-----------------------------------------------------------------------------
(* Ingestion *)

Set(w, r) == ingest' = [ingest EXCEPT ![w] = r]

\* GetByID found the Lore, the text is cut and embedded; an error before this changes nothing.
\* It has the first free number.
Ingest(w) ==
    /\ ingest[w].step = "idle" /\ \A v \in Ingestor : v < w => ingest[v].step # "idle"
    /\ ingests < MaxIngests /\ ingests' = ingests + 1
    /\ \E s \in Source, n \in 1..MaxChunks :
          LET others == {v \in Ingestor : ingest[v].step # "idle" /\ Collide(ingest[v].source, s)}
              mine == [source |-> s, text |-> ingests + 1, total |-> n, next |-> 0,
                       step |-> IF store = "qdrant" THEN "ensure" ELSE "write",
                       spoilt |-> others # {} \/ Shared(s)]
          IN /\ s[1] \in lores
             /\ ingest' = [v \in Ingestor |-> IF v = w THEN mine
                             ELSE IF v \in others THEN [ingest[v] EXCEPT !.spoilt = TRUE]
                             ELSE ingest[v]]
             /\ forms' = [forms EXCEPT ![s] = @ \cup {n}]
             /\ unsettled' = unsettled \cup {t \in Source : Shared(s) /\ Collide(s, t)}
    /\ UNCHANGED <<store, lores, deleting, collection, chunks, latest>>

\* ensureCollection looks first and creates then: the second of two creations is an error.
Ensure(w) ==
    LET r == ingest[w] IN
    /\ \/ r.step = "ensure" /\ Set(w, [r EXCEPT !.step = IF collection THEN "write" ELSE "create"])
          /\ UNCHANGED collection
       \/ r.step = "create" /\ ~collection /\ collection' = TRUE
          /\ Set(w, [r EXCEPT !.step = "write"])
    /\ UNCHANGED <<store, lores, deleting, chunks, ingests, forms, latest, unsettled>>

Complete(w, r) ==
    /\ Set(w, NoIngest)
    /\ latest' = [latest EXCEPT ![r.source] = [text |-> r.text, total |-> r.total]]
    /\ MarkSettled(r.source, ~r.spoilt /\ ~Shared(r.source) /\ \A m \in forms[r.source] : Covers(r.total, m))

\* One batch, one transaction or one call for all chunks.
WriteAll(w) ==
    LET r == ingest[w] IN
    /\ r.step = "write" /\ store \in {"qdrant", "pgvector", "pinecone"}
    /\ chunks' = Put(Chunks(r.source, r.text, r.total), chunks)
    /\ Complete(w, r)
    /\ UNCHANGED <<store, lores, deleting, collection, ingests, forms>>

Proceed(w, r) ==
    IF r.next + 1 < r.total
    THEN Set(w, [r EXCEPT !.next = @ + 1, !.step = "write"]) /\ UNCHANGED <<latest, unsettled>>
    ELSE Complete(w, r)

\* An ordered BulkWrite: one replacement after the other.
WriteNext(w) ==
    LET r == ingest[w] IN
    /\ r.step = "write" /\ store = "mongo"
    /\ chunks' = Put({Chunk(r.source, r.text, r.next, r.total)}, chunks)
    /\ Proceed(w, r)
    /\ UNCHANGED <<store, lores, deleting, collection, ingests, forms>>

\* Weaviate: deleteByChunkID, whose error is ignored ...
Erase(w) ==
    LET r == ingest[w] IN
    /\ r.step = "write" /\ store = "weaviate"
    /\ \/ /\ chunks' = {c \in chunks : c.id # ChunkId(r.source, r.next, r.total)}
          /\ Set(w, [r EXCEPT !.step = "insert"])
       \/ Set(w, [r EXCEPT !.step = "insert", !.spoilt = TRUE]) /\ UNCHANGED chunks
    /\ UNCHANGED <<store, lores, deleting, collection, ingests, forms, latest, unsettled>>

\* ... then an insertion under a fresh object id, tried twice: the first may have been stored.
InsertChunk(w) ==
    LET r == ingest[w]
        c == Chunk(r.source, r.text, r.next, r.total)
    IN /\ r.step = "insert"
       /\ \/ chunks' = chunks \cup {c} /\ Proceed(w, r)
          \/ /\ chunks' = chunks \cup {c, [c EXCEPT !.copy = 2]}
             /\ Proceed(w, [r EXCEPT !.spoilt = TRUE])
       /\ UNCHANGED <<store, lores, deleting, collection, ingests, forms>>

\* An error of the store, or a crash: what was written stays.
IngestFails(w) ==
    /\ ingest[w].step # "idle" /\ Set(w, NoIngest)
    /\ MarkSettled(ingest[w].source, FALSE)
    /\ UNCHANGED <<store, lores, deleting, collection, chunks, ingests, forms, latest>>

-----------------------------------------------------------------------------
(* Lores *)

\* The id may be the caller's, and one that was used before.
CreateLore(l) ==
    /\ l \notin lores /\ lores' = lores \cup {l}
    /\ UNCHANGED <<store, deleting, collection, chunks, ingest, ingests, forms, latest, unsettled>>

\* DELETE removes the Lore first ...
DeleteLore(l) ==
    /\ l \in lores /\ lores' = lores \ {l} /\ deleting = {} /\ deleting' = {l}
    /\ UNCHANGED <<store, collection, chunks, ingest, ingests, forms, latest, unsettled>>

\* ... and then its vectors; a second DELETE, which finds no Lore, and Weave.DeleteLore remove
\* only these.  An ingestion under way goes on.
DeleteVectors(l) ==
    LET busy(d) == \E w \in Ingestor : ingest[w].source = <<l, d>>
        gone == {s \in Source : s[1] = l /\ ~busy(s[2])}
    IN /\ deleting' = deleting \ {l}
       /\ chunks' = {c \in chunks : c.lore # l}
       /\ ingest' = [w \in Ingestor |-> IF ingest[w].source[1] = l
                                        THEN [ingest[w] EXCEPT !.spoilt = TRUE] ELSE ingest[w]]
       /\ forms' = [s \in Source |-> IF s \in gone THEN {} ELSE forms[s]]
       /\ latest' = [s \in Source |-> IF s[1] = l THEN Never ELSE latest[s]]
       /\ unsettled' = unsettled \ gone
       /\ UNCHANGED <<store, lores, collection, ingests>>

\* Best effort: an error is logged, a crash is not.
DeleteVectorsFails(l) ==
    /\ l \in deleting /\ deleting' = deleting \ {l}
    /\ unsettled' = unsettled \cup {s \in Source : s[1] = l /\ forms[s] # {}}
    /\ UNCHANGED <<store, lores, collection, chunks, ingest, ingests, forms, latest>>

LoreNext ==
    \/ \E w \in Ingestor : Ingest(w) \/ Ensure(w) \/ WriteAll(w) \/ WriteNext(w) \/ Erase(w)
                           \/ InsertChunk(w) \/ IngestFails(w)
    \/ \E l \in Lore \cap Deletable :
          CreateLore(l) \/ DeleteLore(l) \/ DeleteVectors(l) \/ DeleteVectorsFails(l)

LoreSpec == LoreInit /\ [][LoreNext]_loreVars

-----------------------------------------------------------------------------
(* Properties *)

LoreTypeOK ==
    /\ store \in Store /\ lores \subseteq Lore /\ deleting \subseteq Lore /\ collection \in BOOLEAN
    /\ \A c \in chunks : <<c.lore, c.doc>> \in Source /\ c.text \in 1..MaxIngests
    /\ \A w \in Ingestor :
          /\ ingest[w].source \in Source \cup {NoIngest.source}
          /\ ingest[w].step \in {"idle", "ensure", "create", "write", "insert"}
          /\ ingest[w].next \in 0..MaxChunks /\ ingest[w].spoilt \in BOOLEAN
    /\ ingests \in 0..MaxIngests
    /\ forms \in [Source -> SUBSET (1..MaxChunks)] /\ unsettled \subseteq Source

\* Search of a Lore: every store filters by lore_id, or has a namespace for it.
Found(s) == {c \in chunks : c.lore = s[1] /\ c.doc = s[2]}

\* What a Lore answers of a document is the text ingested last, whole and nothing else, and
\* after its deletion nothing: unless that ingestion failed, ran beside another one or beside
\* the deletion, had fewer pieces than an earlier one (the rest of it stays), or the document
\* has the id of one in another Lore (chunkID; Upsert and Delete of every LoreStore).
AnswersAreFresh ==
    \A s \in Source :
       \/ s \in unsettled \/ s[1] \in deleting
       \/ \E w \in Ingestor : ingest[w].source = s
       \/ Found(s) = Chunks(s, latest[s].text, latest[s].total)
=============================================================================

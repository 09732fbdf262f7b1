---------------------------- MODULE KnowledgeIndex ---------------------------
(***************************************************************************)
(* The knowledge base of the RAG service: how its index is built, kept in  *)
(* memory and searched.  One process; an asyncio lock is held by whoever   *)
(* builds the index, and a search only passes through it before it starts. *)
(*                                                                         *)
(* With pgvector a document is upserted with its parent blocks and chunks  *)
(* in one transaction and the vectors are searched in the database, while  *)
(* the chunks' texts and the sparse scores are those of the copy in        *)
(* memory.  With the local backend all of it is in memory and in one file. *)
(* A document is a sequence of sections, a section a sequence of           *)
(* paragraphs; the weights of the fused score are left out.                *)
(***************************************************************************)
EXTENDS Naturals, Sequences, FiniteSets, SequencesExt, Subsequences

CONSTANTS
  NumDocs,      \* the documents, in the order of their paths
  Paragraphs,
  Contents,     \* what a document may say
  AskedFor,     \* the paragraphs that share a word with the query
  Searchers,
  MaxKbEdits, MaxKbSyncs, MaxRagDeaths   \* bounds

ASSUME KnowledgeAssumptions ==
  /\ NumDocs \in Nat
  /\ Contents \subseteq Seq(Seq(Paragraphs))

Docs == 1..NumDocs
ChunkSizes == {"paragraph", "section"}   \* what rag_chunk_size makes of these documents
NoContent == <<<<>>>>                    \* no file: an empty section is never kept
NoDocument == [content |-> NoContent, size |-> "paragraph"]

VARIABLES
  backend,
  kbFiles,     \* the markdown files
  documents,   \* the documents table: checksum and chunking signature, by path
  blocks,      \* what the chunks and parent_blocks tables hold, by path
  indexFile,   \* index.json of the local backend
  chunkSize,   \* settings of the running process
  serving,     \* the process has started
  memory,      \* _chunks, _parent_map and _manifest's embedding_enabled
  indexer,     \* whoever holds the lock
  search,      \* by searcher
  dirty,       \* history: the tables changed since memory was loaded
  lastSync,    \* history: what the last sync that ended had read
  kbEdits, kbSyncs, ragDeaths

kbVars == <<backend, kbFiles, documents, blocks, indexFile, chunkSize, serving, memory, indexer,
            search, dirty, lastSync, kbEdits, kbSyncs, ragDeaths>>

-----------------------------------------------------------------------------
(* Chunks.                                                                 *)

\* _chunk_text: the paragraphs of a section, as many to a chunk as fit.
ChunkText(section, size) ==
  IF size = "section" THEN <<section>> ELSE [i \in DOMAIN section |-> <<section[i]>>]

\* The rows of a document: a chunk's id is its position, its parent's id the section's.
ChunksOf(d, doc) ==
  IF doc.content = NoContent THEN <<>>
  ELSE LET bySection == [i \in DOMAIN doc.content |->
                           LET texts == ChunkText(doc.content[i], doc.size)
                           IN [k \in DOMAIN texts |-> [parent |-> <<d, i>>, text |-> texts[k]]]]
           all == Flattened(bySection)
       IN [k \in DOMAIN all |-> [id |-> <<d, k>>, parent |-> all[k].parent, text |-> all[k].text]]

\* Ordered by path and chunk_order.
LoadChunks(stored) == Flattened([d \in Docs |-> ChunksOf(d, stored[d])])

LoadParents(stored) ==
  [p \in UNION {IF stored[d].content = NoContent THEN {} ELSE {d} \X DOMAIN stored[d].content : d \in Docs}
     |-> stored[p[1]].content[p[2]]]

NoMemory == [chunks |-> <<>>, parents |-> <<>>, embedded |-> FALSE]

Load_ChunksOnly(stored, embedded) ==
  [memory EXCEPT !.chunks = LoadChunks(stored), !.embedded = embedded,
                 !.parents = IF @ = <<>> THEN LoadParents(stored) ELSE @]

Load(stored, embedded) ==
  [chunks |-> LoadChunks(stored), parents |-> LoadParents(stored), embedded |-> embedded]

-----------------------------------------------------------------------------
(* The index.                                                              *)

NoIndexer == [at |-> "idle", force |-> FALSE, boot |-> FALSE, existing |-> <<>>, left |-> {}, read |-> <<>>]
NoIndexFile == [state |-> "none", docs |-> <<>>, embedded |-> FALSE]
NoSearch == [at |-> "idle", overlapped |-> FALSE, scored |-> <<>>, rows |-> {}, hits |-> {}]
NoSync == [read |-> <<>>, size |-> "paragraph"]

KbInit ==
  /\ backend \in {"pgvector", "local"}
  /\ kbFiles \in [Docs -> Contents]
  /\ documents = [d \in Docs |-> NoDocument] /\ blocks = [d \in Docs |-> NoDocument]
  /\ indexFile = NoIndexFile
  /\ chunkSize = "paragraph" /\ serving = FALSE
  /\ memory = NoMemory
  /\ indexer = NoIndexer
  /\ search = [s \in Searchers |-> NoSearch]
  /\ dirty = FALSE /\ lastSync = NoSync
  /\ kbEdits = 0 /\ kbSyncs = 0 /\ ragDeaths = 0

EditFile(d) ==
  \E c \in Contents \cup {NoContent} :
    /\ kbEdits < MaxKbEdits /\ c # kbFiles[d]
    /\ kbEdits' = kbEdits + 1
    /\ kbFiles' = [kbFiles EXCEPT ![d] = c]
    /\ UNCHANGED <<backend, documents, blocks, indexFile, chunkSize, serving, memory, indexer,
                   search, dirty, lastSync, kbSyncs, ragDeaths>>

Present == {d \in Docs : kbFiles[d] # NoContent}
SourceFiles(size) == [d \in Docs |-> [content |-> kbFiles[d], size |-> size]]

\* The files are listed when the build begins; the local backend reads them all at once.
Building(force, boot, size) ==
  [at |-> IF backend = "local" THEN "embedding" ELSE "reading", force |-> force, boot |-> boot,
   existing |-> documents, left |-> Present,
   read |-> IF backend = "local" THEN SourceFiles(size) ELSE [d \in Docs |-> NoDocument]]

\* In-flight searches that a new copy in memory overlaps.
Overlap == search' = [s \in Searchers |->
  IF search[s].at \in {"idle", "answered", "failed", "unavailable"} THEN search[s]
  ELSE [search[s] EXCEPT !.overlapped = TRUE]]

\* ensure_ready at start-up.  A torn index file cannot be loaded, and the service stays down.
Boot(size, autoReindex) ==
  /\ ~serving /\ indexer = NoIndexer
  /\ chunkSize' = size
  /\ LET rebuild == indexer' = Building(FALSE, TRUE, size) /\ UNCHANGED serving
         start == serving' = TRUE /\ UNCHANGED indexer
         stale == indexFile.docs # SourceFiles(size)
     IN \/ /\ backend = "pgvector" /\ autoReindex
           /\ rebuild /\ UNCHANGED memory
        \/ /\ backend = "pgvector" /\ ~autoReindex
           /\ start /\ memory' = Load(blocks, LoadChunks(blocks) # <<>>)
        \/ /\ backend = "local" /\ indexFile.state = "none"
           /\ rebuild /\ UNCHANGED memory
        \/ /\ backend = "local" /\ indexFile.state = "whole"
           /\ memory' = Load(indexFile.docs, indexFile.embedded)
           /\ IF autoReindex /\ stale THEN rebuild ELSE start
  /\ dirty' = FALSE /\ lastSync' = NoSync
  /\ UNCHANGED <<backend, kbFiles, documents, blocks, indexFile, search, kbEdits, kbSyncs, ragDeaths>>

\* POST /sync and /reindex, when the lock is free.
StartSync(force) ==
  /\ serving /\ indexer = NoIndexer
  /\ kbSyncs < MaxKbSyncs /\ kbSyncs' = kbSyncs + 1
  /\ indexer' = Building(force, FALSE, chunkSize)
  /\ UNCHANGED <<backend, kbFiles, documents, blocks, indexFile, chunkSize, serving, memory, search,
                 dirty, lastSync, kbEdits, ragDeaths>>

NextDoc == CHOOSE d \in indexer.left : \A e \in indexer.left : d <= e

UpToDate_ChecksumOnly(d) == ~indexer.force /\ indexer.existing[d].content = kbFiles[d]

UpToDate(d) ==
  ~indexer.force /\ indexer.existing[d] = [content |-> kbFiles[d], size |-> chunkSize]

\* A document whose row has this checksum and chunking signature is skipped.
ReadDocument ==
  /\ indexer.at = "reading" /\ indexer.left # {}
  /\ kbFiles[NextDoc] # NoContent
  /\ indexer' = [indexer EXCEPT
       !.read[NextDoc] = [content |-> kbFiles[NextDoc], size |-> chunkSize],
       !.at = IF UpToDate(NextDoc) THEN "reading" ELSE "embedding",
       !.left = IF UpToDate(NextDoc) THEN @ \ {NextDoc} ELSE @]
  /\ UNCHANGED <<backend, kbFiles, documents, blocks, indexFile, chunkSize, serving, memory, search,
                 dirty, lastSync, kbEdits, kbSyncs, ragDeaths>>

\* One transaction, after the embeddings of its chunks have come.
UpsertDocument ==
  /\ backend = "pgvector" /\ indexer.at = "embedding"
  /\ documents' = [documents EXCEPT ![NextDoc] = indexer.read[NextDoc]]
  /\ blocks' = [blocks EXCEPT ![NextDoc] = indexer.read[NextDoc]]
  /\ indexer' = [indexer EXCEPT !.at = "reading", !.left = @ \ {NextDoc}]
  /\ dirty' = TRUE
  /\ UNCHANGED <<backend, kbFiles, indexFile, chunkSize, serving, memory, search, lastSync,
                 kbEdits, kbSyncs, ragDeaths>>

\* Of the documents known before, those no longer listed; chunks and blocks go with them.
DeleteDocuments ==
  /\ indexer.at = "reading" /\ indexer.left = {}
  /\ LET gone == {d \in Docs : indexer.existing[d] # NoDocument /\ indexer.read[d] = NoDocument}
     IN /\ documents' = [d \in Docs |-> IF d \in gone THEN NoDocument ELSE documents[d]]
        /\ blocks' = [d \in Docs |-> IF d \in gone THEN NoDocument ELSE blocks[d]]
        /\ dirty' = (dirty \/ gone # {})
  /\ indexer' = [indexer EXCEPT !.at = "loading"]
  /\ UNCHANGED <<backend, kbFiles, indexFile, chunkSize, serving, memory, search, lastSync,
                 kbEdits, kbSyncs, ragDeaths>>

EndSync ==
  /\ lastSync' = [read |-> indexer.read, size |-> chunkSize]
  /\ indexer' = NoIndexer /\ serving' = TRUE /\ dirty' = FALSE
  /\ Overlap

LoadTables ==
  /\ indexer.at = "loading"
  /\ memory' = Load(blocks, LoadChunks(blocks) # <<>>)
  /\ EndSync
  /\ UNCHANGED <<backend, kbFiles, documents, blocks, indexFile, chunkSize, kbEdits, kbSyncs, ragDeaths>>

\* Local backend: an embedding that failed leaves a sparse index.
WriteIndex ==
  \E embedded \in BOOLEAN :
    /\ backend = "local" /\ indexer.at = "embedding"
    /\ memory' = Load(indexer.read, embedded)
    /\ indexFile' = [state |-> "whole", docs |-> indexer.read, embedded |-> embedded]
    /\ EndSync
    /\ UNCHANGED <<backend, kbFiles, documents, blocks, chunkSize, kbEdits, kbSyncs, ragDeaths>>

\* The embedding service, the database (an upsert, the delete, the load) or a file that is
\* gone ends the sync: memory and what was upserted stay; a service that is starting does
\* not start.  A local build ends so with rag_fail_on_embedding_error.
SyncFails ==
  /\ indexer.at # "idle"
  /\ indexer.at = "reading" => \A d \in indexer.left : d = NextDoc => kbFiles[d] = NoContent
  /\ indexer' = NoIndexer
  /\ UNCHANGED <<backend, kbFiles, documents, blocks, indexFile, chunkSize, serving, memory, search,
                 dirty, lastSync, kbEdits, kbSyncs, ragDeaths>>

\* The file is rewritten in place.
RagDies ==
  /\ serving \/ indexer # NoIndexer
  /\ ragDeaths < MaxRagDeaths /\ ragDeaths' = ragDeaths + 1
  /\ serving' = FALSE /\ memory' = NoMemory /\ indexer' = NoIndexer
  /\ search' = [s \in Searchers |->
       IF search[s].at \in {"answered", "unavailable"} THEN search[s]
       ELSE [NoSearch EXCEPT !.at = "failed", !.overlapped = TRUE]]
  /\ \/ UNCHANGED indexFile
     \/ /\ backend = "local" /\ indexer.at = "embedding"
        /\ indexFile' = [NoIndexFile EXCEPT !.state = "torn"]
  /\ UNCHANGED <<backend, kbFiles, documents, blocks, chunkSize, dirty, lastSync, kbEdits, kbSyncs>>

-----------------------------------------------------------------------------
(* Searches.                                                               *)

Step(s, next) ==
  /\ search' = [search EXCEPT ![s] = next]
  /\ UNCHANGED <<backend, kbFiles, documents, blocks, indexFile, chunkSize, serving, memory, indexer,
                 dirty, lastSync, kbEdits, kbSyncs, ragDeaths>>

\* The chunks a sparse score is above zero for, by position.
SparseCandidates(texts) == {i \in DOMAIN texts : \E k \in DOMAIN texts[i] : texts[i][k] \in AskedFor}

\* _prefuse_candidates and what leads to it: sparse candidates are positions in the list
\* that was scored, vectors come by chunk id, and both are looked up in memory as it is
\* now; a position beyond the list raises.
Fuse(q) ==
  LET chunks == memory.chunks
      sparse == SparseCandidates(q.scored)
      dense == {i \in DOMAIN chunks : \E r \in q.rows : r.id = chunks[i].id}
      hit(i) == [text |-> chunks[i].text, parent |-> chunks[i].parent,
                 sparseOf |-> IF i \in sparse THEN q.scored[i] ELSE <<>>,
                 denseOf |-> IF i \in dense THEN (CHOOSE r \in q.rows : r.id = chunks[i].id).text ELSE <<>>,
                 section |-> <<>>]
  IN IF dense \subseteq DOMAIN q.scored /\ sparse \subseteq DOMAIN chunks
     THEN [q EXCEPT !.at = "reranking", !.rows = {}, !.hits = {hit(i) : i \in sparse \cup dense}]
     ELSE [q EXCEPT !.at = "failed", !.rows = {}]

Texts == [i \in DOMAIN memory.chunks |-> memory.chunks[i].text]

\* The lock is free; without vectors nothing is awaited before the candidates are fused.
StartSearch(s) ==
  /\ serving /\ indexer = NoIndexer /\ search[s].at = "idle"
  /\ Step(s, IF memory.embedded THEN [NoSearch EXCEPT !.at = "embedding"]
             ELSE Fuse([NoSearch EXCEPT !.scored = Texts]))

\* With the query's vector, or without it when it cannot be had.  In memory the vectors
\* are those of the chunks.
EmbedQuery(s) ==
  /\ search[s].at = "embedding"
  /\ LET scored == [search[s] EXCEPT !.scored = Texts]
         own == {[id |-> memory.chunks[i].id, text |-> Texts[i]] : i \in DOMAIN memory.chunks}
     IN \/ Step(s, Fuse(scored))
        \/ Step(s, IF backend = "local" THEN Fuse([scored EXCEPT !.rows = own])
                   ELSE [scored EXCEPT !.at = "dense"])

DenseSearch(s) ==
  /\ search[s].at = "dense"
  /\ LET rows == LoadChunks(blocks)
     IN Step(s, [search[s] EXCEPT !.at = "mapping", !.overlapped = @ \/ dirty,
                   !.rows = {[id |-> rows[i].id, text |-> rows[i].text] : i \in DOMAIN rows}])

MapRows(s) == search[s].at = "mapping" /\ Step(s, Fuse(search[s]))

\* The section that memory now has under the parent's id.
SectionOf(h) == IF h.parent \in DOMAIN memory.parents THEN memory.parents[h.parent] ELSE h.text

\* The reranker, whose order changes no hit, and then the sections, the window cut from a
\* long one left out.  The reranker's failure changes nothing, or ends the search when
\* rerank_fail_open is off.
HydrateParents(s) ==
  /\ search[s].at = "reranking"
  /\ \/ Step(s, [search[s] EXCEPT !.at = "answered", !.scored = <<>>,
                   !.hits = {[h EXCEPT !.section = SectionOf(h)] : h \in @}])
     \/ /\ search[s].hits # {}
        /\ Step(s, [NoSearch EXCEPT !.at = "unavailable", !.overlapped = search[s].overlapped])

KbNext ==
  \/ \E d \in Docs : EditFile(d)
  \/ \E size \in ChunkSizes, auto \in BOOLEAN : Boot(size, auto)
  \/ \E force \in BOOLEAN : StartSync(force)
  \/ ReadDocument \/ UpsertDocument \/ DeleteDocuments \/ LoadTables \/ WriteIndex
  \/ SyncFails \/ RagDies
  \/ \E s \in Searchers :
       StartSearch(s) \/ EmbedQuery(s) \/ DenseSearch(s) \/ MapRows(s) \/ HydrateParents(s)

KbSpec == KbInit /\ [][KbNext]_kbVars

-----------------------------------------------------------------------------
(* Properties.                                                             *)

ScoredAsItIs(h) == h.sparseOf \in {<<>>, h.text} /\ h.denseOf \in {<<>>, h.text}

\* A hit was ranked by scores of its own text and is shown with the section it stands
\* in, and no search breaks off, as long as no new copy of the index came into memory
\* during the search and the tables held what memory does when they were searched.  A
\* local search keeps to its own scores even then.
HitsAreWhatWasScored ==
  \A s \in Searchers :
    LET q == search[s] IN
    /\ ~q.overlapped => q.at # "failed" /\ \A h \in q.hits : ScoredAsItIs(h)
    /\ ~q.overlapped /\ q.at = "answered" =>
         \A h \in q.hits : ToSet(h.text) \subseteq ToSet(h.section)
    /\ backend = "local" => \A h \in q.hits : ScoredAsItIs(h)

\* What memory holds after a sync is what that sync read in the files, chunked by the
\* running settings: the documents it skipped, those an interrupted or failed sync left
\* half done and those that are gone included.
SyncedIsWhatWasRead ==
  serving /\ lastSync # NoSync =>
    memory.chunks = LoadChunks([d \in Docs |->
      IF lastSync.read[d].content = NoContent THEN NoDocument
      ELSE [content |-> lastSync.read[d].content, size |-> lastSync.size]])

=============================================================================

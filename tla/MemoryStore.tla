---------------------------- MODULE MemoryStore ----------------------------
(***************************************************************************)
(* MemoryStore (core/memory/store.py) with its vector index                 *)
(* (vector_index.py): one SQLite connection, the index in memory and the    *)
(* two files it is kept in, an embedder that may fail, and the process.     *)
(*                                                                         *)
(* Every operation runs without an await, so operations do not interleave;  *)
(* but one may raise halfway and leave the connection in an open            *)
(* transaction, and the process may die between a commit and the files.     *)
(***************************************************************************)
EXTENDS Naturals, FiniteSets

CONSTANTS Levels,      \* the levels of a scope below the tenant: project_id, user_id, ...
          Scopes,      \* the scopes in use, each [tenant_id, owner : Levels -> value or None]
          None,
          Sources,     \* source_uri of documents
          Chunks,      \* how many chunks the text with a given hash has
          Embedders,   \* fingerprints of the embedders a process may start with
          MaxRecords,  \* bound: records inserted
          MaxCrashes   \* bound: deaths of the process

Contents == DOMAIN Chunks

ASSUME MemoryAssumption ==
  /\ \A s \in Scopes : DOMAIN s = {"tenant_id", "owner"} /\ DOMAIN s.owner = Levels
  /\ Chunks \in [Contents -> Nat]
  /\ Embedders # {} /\ None \notin Embedders \cup Nat \cup (Scopes \X Sources)
  /\ MaxRecords \in Nat /\ MaxCrashes \in Nat

VARIABLES seen,      \* the tables as the connection reads them
          saved,     \* the tables as last committed
          index,     \* self.vectors: ids, what its vectors were made from, and by whom
          sidecar,   \* memory.faiss.ids.json and memory.faiss
          embedder,  \* this process's embedder
          step,      \* "idle", or where the operation at work stands
          op,        \* that operation
          issued,    \* how many record ids were made
          told,      \* records whose writer was answered
          refused,   \* records whose writer got an exception
          torn,      \* a process died between the two files, in an open transaction
          crashes

vars == <<seen, saved, index, sidecar, embedder, step, op, issued, told, refused, torn, crashes>>

Ids == 1 .. MaxRecords
Documents == Scopes \X Sources

\* What the model keeps of a row of `records'; audit rows are the sets
\* `audited' (of written records) and `indexed' (of document versions).
Record == [kind : {"fact", "document_chunk"}, scope : Scopes,
           status : {"current", "superseded"}, supersedes : Ids \cup {None},
           document : Documents \cup {None}, version : Nat, ordinal : Nat,
           fingerprint : Embedders]

NoTables == [records |-> <<>>, documents |-> {}, audited |-> {}, indexed |-> {}]
NoIndex == [ids |-> {}, vectors |-> {}, by |-> None]
NoOp == [name |-> "none", ids |-> {}, scope |-> None]

Put(records, more) ==
  [r \in DOMAIN records \cup DOMAIN more |-> IF r \in DOMAIN more THEN more[r] ELSE records[r]]

Fresh(n) == issued + 1 .. issued + n

-----------------------------------------------------------------------------
(* Mutated forms of the definitions below, for the mutation runs only.      *)

\* A superseded record may be superseded again.
MaySupersedeAgain(s, old) ==
  old = None \/ (old \in DOMAIN seen.records /\ seen.records[old].scope = s
                   /\ seen.records[old].kind = "fact")

\* A record may be superseded by one of another kind.
MaySupersedeAnyKind(s, old) ==
  old = None \/ (old \in DOMAIN seen.records /\ seen.records[old].scope = s
                   /\ seen.records[old].status = "current")

\* The commit is left to the next operation.
CommitLater == UNCHANGED saved

\* The document's id is made of its source only.
DocumentIdOfSource(s, source) == <<CHOOSE any \in Scopes : TRUE, source>>

\* A correction is not audited.
AuditUnlessCorrection(tables, r) ==
  IF tables.records[r].supersedes = None THEN [tables EXCEPT !.audited = @ \cup {r}] ELSE tables

\* Rows without a usable vector keep their place among the ids.
RebuildAllIds ==
  /\ step = "ensure"
  /\ LET current == {r \in DOMAIN seen.records : seen.records[r].status = "current"}
         usable == {r \in current : seen.records[r].fingerprint = embedder}
     IN /\ index.ids # current
        /\ index' = [ids |-> current, vectors |-> usable, by |-> embedder]
        /\ sidecar' = [sidecar EXCEPT !.vectors = usable, !.by = embedder]
  /\ step' = "persist"
  /\ UNCHANGED <<seen, saved, embedder, op, issued, told, refused, torn, crashes>>

-----------------------------------------------------------------------------
(* Writing.                                                                 *)

\* A fact may supersede a current fact of its scope.
MaySupersede(s, old) ==
  \/ old = None
  \/ /\ old \in DOMAIN seen.records
     /\ seen.records[old].scope = s /\ seen.records[old].kind = "fact"
     /\ seen.records[old].status = "current"

Superseded(records, olds) ==
  [r \in DOMAIN records |->
     IF r \in olds THEN [records[r] EXCEPT !.status = "superseded"] ELSE records[r]]

Fact(s, old) ==
  [kind |-> "fact", scope |-> s, status |-> "current", supersedes |-> old, document |-> None,
   version |-> 0, ordinal |-> 0, fingerprint |-> embedder]

\* The record and the old one's new status, without the audit row.
Inserted(r, s, old) ==
  [seen EXCEPT !.records = Put(Superseded(@, {old}), [i \in {r} |-> Fact(s, old)])]

\* _append_audit, whose own text goes through the embedder.
Audit(tables, r) == [tables EXCEPT !.audited = @ \cup {r}]

Commit == saved' = seen'

\* write: the rows and the audit are committed together, then the index follows.
Write(s, old) ==
  /\ step = "idle" /\ issued < MaxRecords
  /\ MaySupersede(s, old)
  /\ seen' = Audit(Inserted(issued + 1, s, old), issued + 1)
  /\ Commit
  /\ step' = "ensure" /\ op' = [name |-> "write", ids |-> {issued + 1}, scope |-> s]
  /\ issued' = issued + 1
  /\ UNCHANGED <<index, sidecar, embedder, told, refused, torn, crashes>>

\* The embedder fails on the audit's text: the exception leaves write with the
\* transaction open and nothing rolled back.
WriteCut(s, old) ==
  /\ step = "idle" /\ issued < MaxRecords
  /\ MaySupersede(s, old)
  /\ seen' = Inserted(issued + 1, s, old)
  /\ refused' = refused \cup {issued + 1}
  /\ issued' = issued + 1
  /\ UNCHANGED <<saved, index, sidecar, embedder, step, op, told, torn, crashes>>

-----------------------------------------------------------------------------
(* Documents.                                                               *)

\* _document_id hashes the whole scope and the source.
DocumentId(s, source) == <<s, source>>

Versions(tables, d) == {v \in tables.documents : v.id = d}
Active(d) == {v \in Versions(seen, d) : v.state = "active"}

\* The current rows that carry the document's id.
ChunksOf(tables, d) ==
  {r \in DOMAIN tables.records :
     tables.records[r].document = d /\ tables.records[r].status = "current"}

NextVersion(d) == IF Active(d) = {} THEN 1 ELSE (CHOOSE v \in Active(d) : TRUE).version + 1

Chunk(s, d, ordinal) ==
  [kind |-> "document_chunk", scope |-> s, status |-> "current", supersedes |-> None,
   document |-> d, version |-> NextVersion(d), ordinal |-> ordinal, fingerprint |-> embedder]

\* The old version and its chunks superseded, the new version, its chunks and one audit row.
Reindexed(s, d, content) ==
  [records |-> Put(Superseded(seen.records, ChunksOf(seen, d)),
                   [r \in Fresh(Chunks[content]) |-> Chunk(s, d, r - issued)]),
   documents |-> {IF v \in Active(d) THEN [v EXCEPT !.state = "superseded"] ELSE v :
                    v \in seen.documents}
                 \cup {[id |-> d, version |-> NextVersion(d), state |-> "active",
                        content |-> content]},
   audited |-> seen.audited,
   indexed |-> seen.indexed \cup {<<d, NextVersion(d)>>}]

\* The same content again returns the ids it has and changes nothing.
Changed(d, content) == \A v \in Active(d) : v.content # content

Ingest(s, source, content) ==
  LET d == DocumentId(s, source) IN
  /\ step = "idle" /\ issued + Chunks[content] <= MaxRecords
  /\ Changed(d, content)
  /\ seen' = Reindexed(s, d, content)
  /\ Commit
  /\ step' = "ensure" /\ op' = [name |-> "ingest", ids |-> Fresh(Chunks[content]), scope |-> s]
  /\ issued' = issued + Chunks[content]
  /\ UNCHANGED <<index, sidecar, embedder, told, refused, torn, crashes>>

\* The embedder fails on a chunk: `with self.db' rolls back all that is uncommitted,
\* what an earlier write left behind included.
IngestFails(s, source, content) ==
  /\ step = "idle"
  /\ Changed(DocumentId(s, source), content)
  /\ seen' = saved
  /\ UNCHANGED <<saved, index, sidecar, embedder, step, op, issued, told, refused, torn, crashes>>

-----------------------------------------------------------------------------
(* The vector index: _ensure_vector_index, rebuild, persist.                *)

Retrievable == {r \in DOMAIN seen.records : seen.records[r].status = "current"}
FreshlyEmbedded == {r \in Retrievable : seen.records[r].fingerprint = embedder}

\* What the operation does once the index is in place.
AfterIndex ==
  /\ step' = IF op.name = "recall" THEN "search" ELSE "idle"
  /\ told' = told \cup op.ids
  /\ op' = IF op.name = "recall" THEN op ELSE NoOp

IndexAgrees ==
  /\ step = "ensure" /\ index.ids = Retrievable
  /\ AfterIndex
  /\ UNCHANGED <<seen, saved, index, sidecar, embedder, issued, refused, torn, crashes>>

\* The vectors are replaced in memory and in the first file.
Rebuild ==
  /\ step = "ensure" /\ index.ids # Retrievable
  /\ index' = [ids |-> FreshlyEmbedded, vectors |-> FreshlyEmbedded, by |-> embedder]
  /\ sidecar' = [sidecar EXCEPT !.vectors = FreshlyEmbedded, !.by = embedder]
  /\ step' = "persist"
  /\ UNCHANGED <<seen, saved, embedder, op, issued, told, refused, torn, crashes>>

\* The second file.
Persist ==
  /\ step = "persist"
  /\ sidecar' = [sidecar EXCEPT !.ids = index.ids]
  /\ AfterIndex
  /\ UNCHANGED <<seen, saved, index, embedder, issued, refused, torn, crashes>>

-----------------------------------------------------------------------------
(* Recalling.                                                               *)

\* A broader record may be read in a narrower scope.
MayRead(s, r) ==
  /\ r.scope.tenant_id = s.tenant_id
  /\ \A l \in Levels : r.scope.owner[l] \in {None, s.owner[l]}

\* Audit rows are no hits; a record is its own version of the lifecycle.
Hits(s) == {r \in Retrievable : MayRead(s, seen.records[r])}

\* expand_neighbors asks for the chunks around a hit by document and version only.
Neighbours(r) ==
  LET hit == seen.records[r] IN
  {n \in Retrievable : /\ hit.document # None
                       /\ seen.records[n].document = hit.document
                       /\ seen.records[n].version = hit.version
                       /\ seen.records[n].ordinal \in hit.ordinal - 1 .. hit.ordinal + 1}

Recall(s) ==
  /\ step = "idle" /\ Hits(s) # {}
  /\ step' = "ensure" /\ op' = [name |-> "recall", ids |-> {}, scope |-> s]
  /\ UNCHANGED <<seen, saved, index, sidecar, embedder, issued, told, refused, torn, crashes>>

\* Embedders differ in their dimension (embeddings.py:68): a query of one cannot be
\* searched among the vectors of another.
Searchable == index.vectors = {} \/ index.by = embedder

Stale(s) == {r \in Hits(s) : seen.records[r].fingerprint # embedder}

Reembedded(rs) ==
  [seen EXCEPT !.records = [r \in DOMAIN @ |->
     IF r \in rs THEN [@[r] EXCEPT !.fingerprint = embedder] ELSE @[r]]]

\* Every hit is scored, the stale ones by a new vector, which is committed.
Answer ==
  /\ step = "search" /\ Searchable
  /\ seen' = Reembedded(Stale(op.scope))
  /\ IF Stale(op.scope) # {} THEN Commit ELSE UNCHANGED saved
  /\ step' = "idle" /\ op' = NoOp
  /\ UNCHANGED <<index, sidecar, embedder, issued, told, refused, torn, crashes>>

\* The search raises, or the embedder fails after some rows: these stay uncommitted.
RecallCut ==
  /\ step = "search"
  /\ \E rs \in SUBSET Stale(op.scope) : (~Searchable => rs = {}) /\ seen' = Reembedded(rs)
  /\ ~Searchable \/ Stale(op.scope) # {}
  /\ step' = "idle" /\ op' = NoOp
  /\ UNCHANGED <<saved, index, sidecar, embedder, issued, told, refused, torn, crashes>>

-----------------------------------------------------------------------------
\* A missing file has nothing in it: _load then leaves the index empty.
Loaded ==
  IF sidecar.ids = {} \/ sidecar.vectors = {} THEN NoIndex ELSE sidecar

\* The process ends, by close() or by dying, and the next one opens the store.
Restart ==
  /\ crashes < MaxCrashes
  /\ crashes' = crashes + 1
  /\ torn' = (torn \/ (step = "persist" /\ seen # saved))
  /\ seen' = saved
  /\ embedder' \in Embedders
  /\ index' = Loaded
  /\ step' = "ensure" /\ op' = [NoOp EXCEPT !.name = "start"]
  /\ UNCHANGED <<saved, sidecar, issued, told, refused>>

Init ==
  /\ seen = NoTables /\ saved = NoTables
  /\ index = NoIndex /\ sidecar = NoIndex
  /\ embedder \in Embedders
  /\ step = "idle" /\ op = NoOp
  /\ issued = 0 /\ told = {} /\ refused = {} /\ torn = FALSE /\ crashes = 0

Next ==
  \/ \E s \in Scopes, old \in Ids \cup {None} : Write(s, old) \/ WriteCut(s, old)
  \/ \E s \in Scopes, u \in Sources, c \in Contents : Ingest(s, u, c) \/ IngestFails(s, u, c)
  \/ \E s \in Scopes : Recall(s)
  \/ IndexAgrees \/ Rebuild \/ Persist
  \/ Answer \/ RecallCut
  \/ Restart

Spec == Init /\ [][Next]_vars
-----------------------------------------------------------------------------
(* What the memory promises.                                                *)

DocumentVersion == [id : Documents, version : Nat, state : {"active", "superseded"},
                    content : Contents]
TablesOk(tables) ==
  /\ tables = [records |-> tables.records, documents |-> tables.documents,
               audited |-> tables.audited, indexed |-> tables.indexed]
  /\ DOMAIN tables.records \subseteq 1 .. issued
  /\ tables.records \in [DOMAIN tables.records -> Record]
  /\ tables.documents \subseteq DocumentVersion
  /\ tables.audited \subseteq 1 .. issued /\ tables.indexed \subseteq Documents \X Nat
Indexes == [ids : SUBSET (1 .. issued), vectors : SUBSET (1 .. issued),
            by : Embedders \cup {None}]

MemoryTypeOK ==
  /\ TablesOk(seen) /\ TablesOk(saved)
  /\ index \in Indexes /\ sidecar \in Indexes
  /\ embedder \in Embedders
  /\ step \in {"idle", "ensure", "persist", "search"}
  /\ op \in [name : {"none", "write", "ingest", "recall", "start"}, ids : SUBSET (1 .. issued),
             scope : Scopes \cup {None}]
  /\ told \subseteq 1 .. issued /\ refused \subseteq 1 .. issued /\ torn \in BOOLEAN
  /\ issued \in 0 .. MaxRecords /\ crashes \in 0 .. MaxCrashes

\* What a writer was told is written stays in the file: no restart and no rollback of a
\* failed ingest takes it away (store.py:75-79, 154).
AcknowledgedIsDurable == told \subseteq DOMAIN saved.records

\* Whatever is committed has its audit row, or is half of a write that raised and that a
\* later commit, of anybody's, has swept in (store.py:102-103, 154, 267); there is no third
\* way around the audit (core/memory/__init__.py:4-6).
DurableIsAudited ==
  \A r \in DOMAIN saved.records :
    LET record == saved.records[r] IN
    \/ r \in saved.audited \cup refused
    \/ record.kind = "document_chunk" /\ <<record.document, record.version>> \in saved.indexed

Successors(tables, r) == {n \in DOMAIN tables.records : tables.records[n].supersedes = r}

\* A correction replaces one fact of its own scope and is its only successor, and a fact is
\* out of date exactly if it has one: in the file too, after failed writes, rollbacks and
\* crashes (store.py:83-90, 100-101).
OneSuccessor ==
  \A tables \in {seen, saved} : \A r \in DOMAIN tables.records :
    tables.records[r].kind = "fact" =>
      /\ Cardinality(Successors(tables, r)) = IF tables.records[r].status = "current" THEN 0 ELSE 1
      /\ \A n \in Successors(tables, r) : tables.records[n].scope = tables.records[r].scope

\* "Atomically replace a source's active chunks with a new content version" (store.py:140):
\* the versions of a document are numbered 1 .. n, the last is the active one, and the
\* current chunks are the chunks of that version, all of them and no other.
DocumentIsOneVersion ==
  \A tables \in {seen, saved}, d \in Documents :
    LET versions == Versions(tables, d)
        last == Cardinality(versions)
    IN /\ {v.version : v \in versions} = 1 .. last
       /\ \A v \in versions : (v.state = "active") <=> (v.version = last)
       /\ \A v \in versions : v.state = "active" =>
            Cardinality(ChunksOf(tables, d)) = Chunks[v.content]
       /\ \A r \in ChunksOf(tables, d) : tables.records[r].version = last

\* Scopes stay apart where nobody looks at them again: two scopes that index the same source
\* have two documents (store.py:130-135), so that replacing one's chunks never touches the
\* other's; and the neighbours of a hit, fetched by document and version only
\* (store.py:279-284), may be read wherever the hit may.
ScopesStayApart ==
  /\ \A tables \in {seen, saved} : \A r, n \in DOMAIN tables.records :
       LET document == tables.records[r].document
       IN document # None /\ tables.records[n].document = document =>
            tables.records[n].scope = tables.records[r].scope
  /\ \A s \in Scopes : \A r \in Hits(s) : Neighbours(r) \subseteq Hits(s)

\* A search finds for every position of the index the record its vector was made from: the
\* two files of the index are never mistaken for a pair when they are not, unless the process
\* died between them with a write's transaction open (vector_index.py:26-29, 54-55, 62).
PositionsResolve == step = "search" /\ ~torn => index.ids = index.vectors

\* "A new embedding model must not make old memory unsearchable" (store.py:253-255).
OldMemoryIsSearchable == step = "search" => Searchable
=============================================================================

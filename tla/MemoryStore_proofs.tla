------------------------- MODULE MemoryStore_proofs -------------------------
(***************************************************************************)
(* What the memory leaves true for any scopes, sources and embedders, any   *)
(* number of records and any number of deaths of the process.  What holds   *)
(* of the tables is shown for both readings of them, the connection's and   *)
(* the committed one, since a commit takes the first into the second and a  *)
(* rollback the second into the first.                                      *)
(***************************************************************************)
EXTENDS MemoryStore, FiniteSetTheorems, FunctionTheorems, TLAPS

\* A chunk belongs to a document of its scope; a row supersedes a row of its table.
RowsFit(T) ==
  \A r \in DOMAIN T.records :
    /\ T.records[r].kind = "fact" => T.records[r].document = None
    /\ T.records[r].kind = "document_chunk" =>
         /\ T.records[r].document \in Documents
         /\ T.records[r].document[1] = T.records[r].scope
         /\ T.records[r].supersedes = None
    /\ T.records[r].supersedes \in DOMAIN T.records \cup {None}

\* OneSuccessor without counting.
Succeeds(T) ==
  \A r \in DOMAIN T.records :
    /\ T.records[r].status = "current" => Successors(T, r) = {}
    /\ T.records[r].kind = "fact" /\ T.records[r].status = "superseded" =>
         \E n \in DOMAIN T.records : /\ Successors(T, r) = {n}
                                     /\ T.records[n].scope = T.records[r].scope

\* DocumentIsOneVersion, where the versions are counted by their numbers.
Numbered(T, d, n) ==
  /\ {v.version : v \in Versions(T, d)} = 1 .. n
  /\ \A v, w \in Versions(T, d) : v.version = w.version => v = w
  /\ \A v \in Versions(T, d) : (v.state = "active") <=> (v.version = n)
  /\ \A v \in Versions(T, d) : v.state = "active" =>
       Cardinality(ChunksOf(T, d)) = Chunks[v.content]
  /\ \A r \in ChunksOf(T, d) : T.records[r].version = n

IsAudited(T) ==
  \A r \in DOMAIN T.records :
    \/ r \in T.audited \cup refused
    \/ /\ T.records[r].kind = "document_chunk"
       /\ <<T.records[r].document, T.records[r].version>> \in T.indexed

\* The promises about one table, but for the audit.
Kept(T) ==
  /\ RowsFit(T) /\ Succeeds(T)
  /\ \A d \in Documents : \E n \in Nat : Numbered(T, d, n)

CurrentIn(T) == {r \in DOMAIN T.records : T.records[r].status = "current"}

\* The files of the index are a pair, or the file of ids is worth nothing.
Paired == sidecar.ids \in {sidecar.vectors, {}}
\* None of the ids in the file will ever be current again.
Dead == sidecar.ids \cap (CurrentIn(seen) \cup CurrentIn(saved)) = {}

IndexInv ==
  /\ step = "persist" => index.ids = index.vectors /\ sidecar.vectors = index.vectors
  /\ step \in {"idle", "search"} => index.ids = index.vectors
  /\ step = "ensure" => index.ids = index.vectors \/ index.ids # Retrievable
  /\ step # "persist" /\ sidecar.ids = sidecar.vectors => index.ids = sidecar.ids
  /\ Paired \/ sidecar.ids # CurrentIn(saved) \/ (step = "persist" /\ seen # saved)
  /\ \/ Paired \/ step = "persist" \/ Dead
     \/ step = "ensure" /\ seen = saved /\ index = Loaded

\* What an operation has to acknowledge is committed.
ToldInv ==
  /\ DOMAIN saved.records \subseteq DOMAIN seen.records
  /\ told \cup op.ids \subseteq DOMAIN saved.records

MemoryInv ==
  /\ MemoryTypeOK
  /\ ToldInv
  /\ Kept(seen) /\ Kept(saved)
  /\ IsAudited(seen) /\ IsAudited(saved)
  /\ torn \/ IndexInv

-----------------------------------------------------------------------------
(* The tables an operation leaves, row by row.                              *)

\* Rows `new' are added, rows `old' go out of date, and nothing else happens to a row that
\* the promises of this module look at.
Evolves(T, U, new, old) ==
  /\ DOMAIN U.records = DOMAIN T.records \cup new /\ new \cap DOMAIN T.records = {}
  /\ \A r \in DOMAIN T.records :
       /\ U.records[r].kind = T.records[r].kind
       /\ U.records[r].scope = T.records[r].scope
       /\ U.records[r].supersedes = T.records[r].supersedes
       /\ U.records[r].document = T.records[r].document
       /\ U.records[r].version = T.records[r].version
       /\ U.records[r].status = IF r \in old THEN "superseded" ELSE T.records[r].status

\* The columns of a row the promises look at, but for its status.
SameRow(new, row) ==
  /\ new \in Record /\ new.kind = row.kind /\ new.scope = row.scope
  /\ new.supersedes = row.supersedes /\ new.document = row.document
  /\ new.version = row.version

\* What an update of one column does to a row.
LEMMA RowOutdated ==
  ASSUME NEW row \in Record, NEW new, new = [row EXCEPT !.status = "superseded"]
  PROVE  SameRow(new, row) /\ new.status = "superseded"
BY DEF Record, SameRow

\* A new embedding changes nothing else of a row.
LEMMA RowReembedded ==
  ASSUME NEW row \in Record, NEW e \in Embedders, NEW new, new = [row EXCEPT !.fingerprint = e]
  PROVE  SameRow(new, row) /\ new.status = row.status
BY DEF Record, SameRow

\* New ids are those of no row.
LEMMA FreshIsNew ==
  ASSUME MemoryTypeOK, NEW n \in Nat
  PROVE  /\ Fresh(n) \cap DOMAIN seen.records = {} /\ Fresh(n) \cap DOMAIN saved.records = {}
         /\ issued + n \in Nat /\ 1 .. issued \subseteq 1 .. (issued + n)
         /\ Fresh(n) \subseteq 1 .. (issued + n) /\ Fresh(n) \subseteq Nat
  <1>1. /\ issued \in Nat
        /\ DOMAIN seen.records \subseteq 1 .. issued /\ DOMAIN saved.records \subseteq 1 .. issued
    BY MemoryAssumption DEF MemoryTypeOK, TablesOk
  <1> QED BY <1>1 DEF Fresh

\* Rows are added, others go out of date.
LEMMA PutRows ==
  ASSUME NEW T, NEW U, NEW olds, NEW more,
         T.records \in [DOMAIN T.records -> Record], more \in [DOMAIN more -> Record],
         DOMAIN more \cap DOMAIN T.records = {},
         U.records = Put(Superseded(T.records, olds), more)
  PROVE  /\ Evolves(T, U, DOMAIN more, olds)
         /\ U.records \in [DOMAIN U.records -> Record]
         /\ \A r \in DOMAIN more : U.records[r] = more[r]
  <1> DEFINE out == Superseded(T.records, olds)
  <1>1. DOMAIN out = DOMAIN T.records
    BY DEF Superseded
  <1> HIDE DEF out
  <1>2. DOMAIN U.records = DOMAIN T.records \cup DOMAIN more
    BY <1>1 DEF Put, out
  <1>3. ASSUME NEW r \in DOMAIN T.records
        PROVE  /\ SameRow(U.records[r], T.records[r])
               /\ U.records[r].status = IF r \in olds THEN "superseded" ELSE T.records[r].status
    <2>1. /\ U.records[r] = IF r \in olds THEN [T.records[r] EXCEPT !.status = "superseded"]
                                         ELSE T.records[r]
          /\ T.records[r] \in Record
      BY <1>1 DEF Put, Superseded, out
    <2> QED BY <2>1, RowOutdated DEF SameRow
  <1>4. \A r \in DOMAIN more : U.records[r] = more[r] /\ more[r] \in Record
    BY <1>1 DEF Put, out
  <1>5. U.records \in [DOMAIN U.records -> Record]
    <2>1. \A r \in DOMAIN U.records : U.records[r] \in Record
      BY <1>2, <1>3, <1>4 DEF SameRow
    <2>2. U.records = [r \in DOMAIN U.records |-> U.records[r]]
      BY DEF Put
    <2> QED BY <2>1, <2>2
  <1> QED BY <1>2, <1>3, <1>4, <1>5 DEF Evolves, SameRow

\* A new fact, and the fact it supersedes.
LEMMA InsertedRows ==
  ASSUME MemoryTypeOK, NEW s \in Scopes, NEW old \in Ids \cup {None}
  PROVE  LET T == Inserted(issued + 1, s, old)
         IN /\ T = [records |-> T.records, documents |-> seen.documents,
                    audited |-> seen.audited, indexed |-> seen.indexed]
            /\ Evolves(seen, T, {issued + 1}, {old})
            /\ T.records \in [DOMAIN T.records -> Record]
            /\ T.records[issued + 1] = Fact(s, old)
  <1> DEFINE T == Inserted(issued + 1, s, old)
             olds == {old}
             more == [i \in {issued + 1} |-> Fact(s, old)]
  <1>1. /\ seen = [records |-> seen.records, documents |-> seen.documents,
                   audited |-> seen.audited, indexed |-> seen.indexed]
        /\ seen.records \in [DOMAIN seen.records -> Record]
    BY DEF MemoryTypeOK, TablesOk
  <1>2. T = [records |-> Put(Superseded(seen.records, {old}), more),
             documents |-> seen.documents, audited |-> seen.audited, indexed |-> seen.indexed]
    BY <1>1 DEF Inserted
  <1>3. T.records = Put(Superseded(seen.records, olds), more)
    BY <1>2
  <1>4. DOMAIN more = {issued + 1} /\ more[issued + 1] = Fact(s, old)
    OBVIOUS
  <1>5. DOMAIN more \cap DOMAIN seen.records = {}
    BY <1>4, FreshIsNew DEF MemoryTypeOK, TablesOk
  <1>6. more \in [DOMAIN more -> Record]
    <2>1. Fact(s, old) \in Record
      BY DEF Fact, Record, MemoryTypeOK
    <2> QED BY <2>1
  <1> HIDE DEF T, olds, more
  <1>7. /\ Evolves(seen, T, DOMAIN more, olds)
        /\ T.records \in [DOMAIN T.records -> Record]
        /\ \A r \in DOMAIN more : T.records[r] = more[r]
    BY <1>1, <1>3, <1>5, <1>6, PutRows
  <1> QED BY <1>2, <1>3, <1>4, <1>7 DEF T, olds

\* The chunks of a new version, and those of the last.
LEMMA ReindexedRows ==
  ASSUME MemoryTypeOK, NEW s \in Scopes, NEW d \in Documents, NEW content \in Contents,
         NextVersion(d) \in Nat
  PROVE  LET T == Reindexed(s, d, content)
             fresh == Fresh(Chunks[content])
         IN /\ T = [records |-> T.records, documents |-> T.documents,
                    audited |-> T.audited, indexed |-> T.indexed]
            /\ T.documents = {IF v \in Active(d) THEN [v EXCEPT !.state = "superseded"] ELSE v :
                                v \in seen.documents}
                             \cup {[id |-> d, version |-> NextVersion(d), state |-> "active",
                                    content |-> content]}
            /\ T.audited = seen.audited
            /\ T.indexed = seen.indexed \cup {<<d, NextVersion(d)>>}
            /\ Evolves(seen, T, fresh, ChunksOf(seen, d))
            /\ T.records \in [DOMAIN T.records -> Record]
            /\ \A r \in fresh : T.records[r] = Chunk(s, d, r - issued)
  <1> DEFINE T == Reindexed(s, d, content)
             fresh == Fresh(Chunks[content])
             more == [r \in fresh |-> Chunk(s, d, r - issued)]
  <1>1. seen.records \in [DOMAIN seen.records -> Record] /\ Chunks[content] \in Nat /\ issued \in Nat
    BY MemoryAssumption DEF MemoryTypeOK, TablesOk, Contents
  <1>2. T.records = Put(Superseded(seen.records, ChunksOf(seen, d)), more)
    BY DEF Reindexed
  <1>3. DOMAIN more \cap DOMAIN seen.records = {} /\ fresh \subseteq Nat
    BY <1>1, FreshIsNew
  <1>4. more \in [DOMAIN more -> Record]
    <2>1. ASSUME NEW r \in fresh
          PROVE  Chunk(s, d, r - issued) \in Record
      <3>1. r - issued \in Nat
        BY <1>1 DEF Fresh
      <3> QED BY <3>1 DEF Chunk, Record, MemoryTypeOK
    <2> QED BY <2>1
  <1>5. DOMAIN more = fresh /\ \A r \in fresh : more[r] = Chunk(s, d, r - issued)
    OBVIOUS
  <1> HIDE DEF more, fresh
  <1>6. /\ Evolves(seen, T, fresh, ChunksOf(seen, d))
        /\ T.records \in [DOMAIN T.records -> Record]
        /\ \A r \in fresh : T.records[r] = Chunk(s, d, r - issued)
    <2> HIDE DEF T
    <2> QED BY <1>1, <1>2, <1>3, <1>4, <1>5, PutRows
  <1> QED BY <1>6 DEF Reindexed, fresh

\* Rows embedded again.
LEMMA ReembeddedRows ==
  ASSUME MemoryTypeOK, NEW rs
  PROVE  LET T == Reembedded(rs)
         IN /\ T = [records |-> T.records, documents |-> seen.documents,
                    audited |-> seen.audited, indexed |-> seen.indexed]
            /\ Evolves(seen, T, {}, {})
            /\ T.records \in [DOMAIN T.records -> Record]
  <1> DEFINE T == Reembedded(rs)
  <1>1. /\ seen = [records |-> seen.records, documents |-> seen.documents,
                   audited |-> seen.audited, indexed |-> seen.indexed]
        /\ seen.records \in [DOMAIN seen.records -> Record] /\ embedder \in Embedders
    BY DEF MemoryTypeOK, TablesOk
  <1>2. T = [records |-> [r \in DOMAIN seen.records |->
                            IF r \in rs THEN [seen.records[r] EXCEPT !.fingerprint = embedder]
                                        ELSE seen.records[r]],
             documents |-> seen.documents, audited |-> seen.audited, indexed |-> seen.indexed]
    BY <1>1 DEF Reembedded
  <1> HIDE DEF T
  <1>3. ASSUME NEW r \in DOMAIN seen.records
        PROVE  SameRow(T.records[r], seen.records[r]) /\ T.records[r].status = seen.records[r].status
    <2>1. T.records[r] = IF r \in rs THEN [seen.records[r] EXCEPT !.fingerprint = embedder]
                                    ELSE seen.records[r]
      BY <1>2
    <2> QED BY <1>1, <2>1, RowReembedded DEF SameRow
  <1>4. DOMAIN T.records = DOMAIN seen.records
    BY <1>2
  <1>5. T.records \in [DOMAIN T.records -> Record]
    <2>1. T.records = [r \in DOMAIN T.records |-> T.records[r]]
      BY <1>2
    <2> QED BY <1>3, <1>4, <2>1 DEF SameRow
  <1>6. Evolves(seen, T, {}, {})
    BY <1>3, <1>4 DEF Evolves, SameRow
  <1> QED BY <1>2, <1>5, <1>6 DEF T

-----------------------------------------------------------------------------
(* What the operations keep of the tables.                                  *)

\* The absent document and the absent record are none.
LEMMA NoneIsNoRow == None \notin Nat /\ None \notin Documents
BY MemoryAssumption DEF Documents

\* Rows that keep their columns have the successors they had, and the new rows' own.
LEMMA SuccessorsAfter ==
  ASSUME NEW T, NEW U, NEW new, NEW old, Evolves(T, U, new, old), RowsFit(T),
         \A r \in new : U.records[r].supersedes \in DOMAIN T.records \cup {None},
         None \notin DOMAIN T.records \cup new
  PROVE  /\ \A r \in DOMAIN T.records :
              Successors(U, r) = Successors(T, r) \cup {n \in new : U.records[n].supersedes = r}
         /\ \A r \in new : Successors(U, r) = {}
BY DEF Evolves, RowsFit, Successors

\* A chunk stays a current chunk of its document unless it goes out of date.
LEMMA ChunksAfter ==
  ASSUME NEW T, NEW U, NEW new, NEW old, NEW d, Evolves(T, U, new, old)
  PROVE  ChunksOf(U, d) = (ChunksOf(T, d) \ old)
           \cup {r \in new : U.records[r].document = d /\ U.records[r].status = "current"}
  <1>1. ASSUME NEW r \in DOMAIN T.records
        PROVE  r \in ChunksOf(U, d) <=> r \in ChunksOf(T, d) /\ r \notin old
    BY DEF Evolves, ChunksOf
  <1> QED BY <1>1 DEF Evolves, ChunksOf

\* Versions and current chunks that stay leave the document what it was.
LEMMA NumberedSame ==
  ASSUME NEW T, NEW U, NEW new, NEW old, NEW d, NEW n, Evolves(T, U, new, old),
         Versions(U, d) = Versions(T, d), ChunksOf(U, d) = ChunksOf(T, d), Numbered(T, d, n)
  PROVE  Numbered(U, d, n)
  <1>1. \A r \in ChunksOf(U, d) : U.records[r].version = T.records[r].version
    BY DEF Evolves, ChunksOf
  <1> QED BY <1>1 DEF Numbered

\* A written fact is the one successor of the fact it replaces, and no chunk of anything.
LEMMA InsertKeeps ==
  ASSUME MemoryTypeOK, Kept(seen), NEW s \in Scopes, NEW old \in Ids \cup {None},
         MaySupersede(s, old)
  PROVE  Kept(Inserted(issued + 1, s, old))
  <1> DEFINE T == Inserted(issued + 1, s, old)
             i == issued + 1
  <1>1. /\ Evolves(seen, T, {i}, {old}) /\ T.records[i] = Fact(s, old)
        /\ T.documents = seen.documents
    <2>1. T = [records |-> T.records, documents |-> seen.documents,
               audited |-> seen.audited, indexed |-> seen.indexed]
      BY InsertedRows
    <2>2. Evolves(seen, T, {i}, {old}) /\ T.records[i] = Fact(s, old)
      BY InsertedRows
    <2> HIDE DEF T
    <2>3. T.documents = seen.documents
      BY <2>1
    <2> QED BY <2>2, <2>3
  <1> HIDE DEF T
  <1>2. /\ T.records[i].kind = "fact" /\ T.records[i].document = None
        /\ T.records[i].supersedes = old /\ T.records[i].scope = s
        /\ T.records[i].status = "current"
    BY <1>1 DEF Fact
  <1>3. i \in Nat /\ DOMAIN seen.records \subseteq Nat /\ i \notin DOMAIN seen.records
    BY FreshIsNew DEF MemoryTypeOK, TablesOk
  <1>4. old = None \/ /\ old \in DOMAIN seen.records
                      /\ seen.records[old].scope = s /\ seen.records[old].kind = "fact"
                      /\ seen.records[old].status = "current"
    BY DEF MaySupersede
  <1>5. RowsFit(T)
    BY <1>1, <1>2, <1>4 DEF RowsFit, Evolves, Kept
  <1>6. /\ \A r \in DOMAIN seen.records :
             Successors(T, r) = Successors(seen, r) \cup (IF r = old THEN {i} ELSE {})
        /\ Successors(T, i) = {}
    <2>1. /\ \A r \in DOMAIN seen.records :
               Successors(T, r) = Successors(seen, r) \cup {n \in {i} : T.records[n].supersedes = r}
          /\ \A r \in {i} : Successors(T, r) = {}
      <3>1. None \notin DOMAIN seen.records \cup {i}
        BY <1>3, NoneIsNoRow
      <3> DEFINE new == {i}
                 olds == {old}
      <3>2. \A n \in new : T.records[n].supersedes \in DOMAIN seen.records \cup {None}
        BY <1>2, <1>4
      <3>3. Evolves(seen, T, new, olds) /\ None \notin DOMAIN seen.records \cup new /\ RowsFit(seen)
        BY <1>1, <3>1 DEF Kept
      <3> HIDE DEF new, olds
      <3>4. /\ \A r \in DOMAIN seen.records :
                 Successors(T, r) = Successors(seen, r) \cup {n \in new : T.records[n].supersedes = r}
            /\ \A r \in new : Successors(T, r) = {}
        BY <3>2, <3>3, SuccessorsAfter
      <3> QED BY <3>4 DEF new
    <2>2. \A r : {n \in {i} : T.records[n].supersedes = r} = IF r = old THEN {i} ELSE {}
      BY <1>2
    <2> QED BY <2>1, <2>2
  <1>7. Succeeds(T)
    <2> SUFFICES ASSUME NEW r \in DOMAIN T.records
                 PROVE  /\ T.records[r].status = "current" => Successors(T, r) = {}
                        /\ T.records[r].kind = "fact" /\ T.records[r].status = "superseded" =>
                             \E n \in DOMAIN T.records :
                               /\ Successors(T, r) = {n}
                               /\ T.records[n].scope = T.records[r].scope
      BY DEF Succeeds
    <2>1. CASE r = i
      BY <1>2, <1>6, <2>1
    <2>2. CASE r = old /\ r \in DOMAIN seen.records
      <3>1. Successors(T, r) = {i} /\ T.records[r].status = "superseded" /\ T.records[r].scope = s
        BY <1>1, <1>3, <1>4, <1>6, <2>2, NoneIsNoRow DEF Evolves, Kept, Succeeds
      <3> QED BY <1>1, <1>2, <3>1 DEF Evolves
    <2>3. CASE r # old /\ r \in DOMAIN seen.records
      <3>1. Successors(T, r) = Successors(seen, r)
        BY <1>6, <2>3
      <3> QED BY <1>1, <2>3, <3>1 DEF Evolves, Kept, Succeeds
    <2> QED BY <1>1, <2>1, <2>2, <2>3 DEF Evolves
  <1>8. ASSUME NEW d \in Documents
        PROVE  \E n \in Nat : Numbered(T, d, n)
    <2>1. ChunksOf(T, d) = ChunksOf(seen, d)
      <3>1. old \notin ChunksOf(seen, d) /\ T.records[i].document # d
        BY <1>2, <1>3, <1>4, NoneIsNoRow DEF ChunksOf, Kept, RowsFit
      <3> DEFINE new == {i}
                 olds == {old}
      <3>2. Evolves(seen, T, new, olds)
        BY <1>1
      <3> HIDE DEF new, olds
      <3>3. ChunksOf(T, d) = (ChunksOf(seen, d) \ olds)
              \cup {r \in new : T.records[r].document = d /\ T.records[r].status = "current"}
        BY <3>2, ChunksAfter
      <3> QED BY <3>1, <3>3 DEF new, olds
    <2>2. Versions(T, d) = Versions(seen, d)
      BY <1>1 DEF Versions
    <2> QED BY <1>1, <2>1, <2>2, NumberedSame DEF Kept
  <1> QED BY <1>5, <1>7, <1>8 DEF Kept, T

\* The version an ingest makes is the next one.
LEMMA NextOfNumbered ==
  ASSUME NEW d, NEW n \in Nat, Numbered(seen, d, n)
  PROVE  /\ NextVersion(d) = n + 1
         /\ \A v \in Active(d) : v.version = n
  <1>1. CASE n = 0
    <2>1. Versions(seen, d) = {}
      BY <1>1 DEF Numbered
    <2> QED BY <1>1, <2>1 DEF NextVersion, Active
  <1>2. CASE n # 0
    <2>1. PICK v \in Versions(seen, d) : v.version = n
      <3>1. n \in {v.version : v \in Versions(seen, d)}
        BY <1>2 DEF Numbered
      <3> QED BY <3>1
    <2>2. v \in Active(d)
      BY <2>1 DEF Numbered, Active
    <2>3. \A w \in Active(d) : w.version = n
      BY DEF Numbered, Active
    <2> QED BY <2>2, <2>3 DEF NextVersion
  <1> QED BY <1>1, <1>2

\* An ingest replaces all chunks of its document by those of the next version.
LEMMA ReindexKeeps ==
  ASSUME MemoryTypeOK, Kept(seen), NEW s \in Scopes, NEW source \in Sources,
         NEW content \in Contents
  PROVE  /\ Kept(Reindexed(s, DocumentId(s, source), content))
         /\ NextVersion(DocumentId(s, source)) \in Nat
  <1> DEFINE d == DocumentId(s, source)
             T == Reindexed(s, d, content)
             k == Chunks[content]
             new == Fresh(k)
             out == ChunksOf(seen, d)
             made == [id |-> d, version |-> NextVersion(d), state |-> "active",
                      content |-> content]
  <1>1. d \in Documents /\ d[1] = s /\ k \in Nat /\ issued \in Nat
    BY MemoryAssumption DEF DocumentId, Documents, Contents, MemoryTypeOK
  <1>2. PICK n \in Nat : Numbered(seen, d, n)
    BY <1>1 DEF Kept
  <1>3. NextVersion(d) = n + 1 /\ n + 1 \in Nat
    BY <1>1, <1>2, NextOfNumbered
  <1> HIDE DEF d
  <1>4. /\ Evolves(seen, T, new, out)
        /\ \A r \in new : T.records[r] = Chunk(s, d, r - issued)
        /\ T.documents = {IF v \in Active(d) THEN [v EXCEPT !.state = "superseded"] ELSE v :
                            v \in seen.documents} \cup {made}
    BY <1>1, <1>3, ReindexedRows
  <1>5. new \cap DOMAIN seen.records = {} /\ new \subseteq Nat /\ DOMAIN seen.records \subseteq Nat
    BY <1>1, FreshIsNew DEF MemoryTypeOK, TablesOk
  <1>6. \A r \in new : /\ T.records[r].kind = "document_chunk" /\ T.records[r].document = d
                       /\ T.records[r].supersedes = None /\ T.records[r].scope = s
                       /\ T.records[r].status = "current" /\ T.records[r].version = n + 1
    <2>1. \A o : LET c == Chunk(s, d, o)
                 IN /\ c.kind = "document_chunk" /\ c.document = d /\ c.supersedes = None
                    /\ c.scope = s /\ c.status = "current" /\ c.version = n + 1
      BY <1>3 DEF Chunk
    <2> HIDE DEF T, new
    <2> QED BY <1>4, <2>1
  <1> HIDE DEF T, new, out
  <1>7. RowsFit(T)
    BY <1>1, <1>4, <1>6 DEF RowsFit, Evolves, Kept
  <1>8. Succeeds(T)
    <2>1. /\ \A r \in DOMAIN seen.records : Successors(T, r) = Successors(seen, r)
          /\ \A r \in new : Successors(T, r) = {}
      <3>1. None \notin DOMAIN seen.records \cup new
        BY <1>5, NoneIsNoRow
      <3>2. /\ \A r \in DOMAIN seen.records :
                 Successors(T, r) = Successors(seen, r) \cup {m \in new : T.records[m].supersedes = r}
            /\ \A r \in new : Successors(T, r) = {}
        BY <1>4, <1>6, <3>1, SuccessorsAfter DEF Kept
      <3> QED BY <1>6, <3>1, <3>2
    <2>2. \A r \in out : r \in DOMAIN seen.records /\ seen.records[r].document = d
      BY DEF out, ChunksOf
    <2>3. \A r \in out : seen.records[r].kind # "fact"
      BY <1>1, <2>2, NoneIsNoRow DEF Kept, RowsFit
    <2> QED BY <1>4, <1>6, <2>1, <2>3 DEF Succeeds, Evolves, Kept
  <1>9. ASSUME NEW e \in Documents
        PROVE  \E m \in Nat : Numbered(T, e, m)
    <2>1. CASE e # d
      <3>1. ChunksOf(T, e) = ChunksOf(seen, e)
        <4>1. ChunksOf(T, e) = (ChunksOf(seen, e) \ out)
                \cup {r \in new : T.records[r].document = e /\ T.records[r].status = "current"}
          BY <1>4, ChunksAfter
        <4> QED BY <1>6, <2>1, <4>1 DEF out, ChunksOf
      <3>2. Versions(T, e) = Versions(seen, e)
        <4>1. \A v \in Active(d) : [v EXCEPT !.state = "superseded"].id = d /\ v.id = d
          BY DEF Active, Versions, MemoryTypeOK, TablesOk, DocumentVersion
        <4>2. made.id = d
          OBVIOUS
        <4> QED BY <1>4, <2>1, <4>1, <4>2 DEF Versions
      <3> QED BY <1>4, <3>1, <3>2, NumberedSame DEF Kept
    <2>2. CASE e = d
      <3> DEFINE aged(v) == IF v \in Active(d) THEN [v EXCEPT !.state = "superseded"] ELSE v
      <3>1. ASSUME NEW v \in Versions(seen, d)
            PROVE  /\ aged(v).id = d /\ aged(v).version = v.version
                   /\ aged(v).state = "superseded"
        BY DEF Active, Versions, MemoryTypeOK, TablesOk, DocumentVersion
      <3>2. \A v \in seen.documents : aged(v).id = d => v \in Versions(seen, d)
        BY DEF Active, Versions
      <3>3. Versions(T, d) = {aged(v) : v \in Versions(seen, d)} \cup {made}
        <4>1. T.documents = {aged(v) : v \in seen.documents} \cup {made}
          BY <1>4
        <4>2. made.id = d
          OBVIOUS
        <4> HIDE DEF aged, made
        <4>3. ASSUME NEW x \in Versions(T, d)
              PROVE  x \in {aged(v) : v \in Versions(seen, d)} \cup {made}
          <5>1. x.id = d /\ x \in {aged(v) : v \in seen.documents} \cup {made}
            BY <4>1 DEF Versions
          <5>2. CASE x # made
            <6>1. PICK v \in seen.documents : x = aged(v)
              BY <5>1, <5>2
            <6> QED BY <3>2, <5>1, <6>1
          <5> QED BY <5>2
        <4>4. \A v \in Versions(seen, d) : v \in seen.documents
          BY DEF Versions
        <4>5. {aged(v) : v \in Versions(seen, d)} \cup {made} \subseteq Versions(T, d)
          BY <3>1, <4>1, <4>2, <4>4 DEF Versions
        <4> QED BY <4>3, <4>5
      <3> HIDE DEF aged
      <3>4. made.version = n + 1 /\ made.state = "active" /\ made.content = content
        BY <1>3
      <3>5. ChunksOf(T, d) = new
        <4>1. ChunksOf(T, d) = (ChunksOf(seen, d) \ out)
                \cup {r \in new : T.records[r].document = d /\ T.records[r].status = "current"}
          BY <1>4, ChunksAfter
        <4> QED BY <1>6, <4>1 DEF out
      <3>6. Cardinality(new) = k
        BY <1>1, FS_Interval DEF new, Fresh
      <3>7. {v.version : v \in Versions(T, d)} = 1 .. n + 1
        <4>1. {v.version : v \in Versions(T, d)} = {v.version : v \in Versions(seen, d)} \cup {n + 1}
          <5>1. \A v \in Versions(T, d) :
                  v = made \/ \E w \in Versions(seen, d) : v = aged(w)
            BY <3>3
          <5>2. made \in Versions(T, d) /\ \A w \in Versions(seen, d) : aged(w) \in Versions(T, d)
            BY <3>3
          <5> HIDE DEF made
          <5> QED BY <3>1, <3>4, <5>1, <5>2
        <4>2. {v.version : v \in Versions(seen, d)} = 1 .. n
          BY <1>2 DEF Numbered
        <4> QED BY <4>1, <4>2
      <3>8. \A v \in Versions(seen, d) : v.version \in 1 .. n
        BY <1>2 DEF Numbered
      <3>9. \A v, w \in Versions(T, d) : v.version = w.version => v = w
        BY <1>2, <3>1, <3>3, <3>4, <3>8 DEF Numbered
      <3>10. \A v \in Versions(T, d) : (v.state = "active") <=> (v.version = n + 1)
        BY <3>1, <3>3, <3>4, <3>8
      <3>11. \A v \in Versions(T, d) : v.state = "active" =>
               Cardinality(ChunksOf(T, d)) = Chunks[v.content]
        BY <3>1, <3>3, <3>4, <3>5, <3>6
      <3>12. \A r \in ChunksOf(T, d) : T.records[r].version = n + 1
        BY <1>6, <3>5
      <3>13. Numbered(T, d, n + 1)
        BY <3>7, <3>9, <3>10, <3>11, <3>12 DEF Numbered
      <3> QED BY <1>3, <2>2, <3>13
    <2> QED BY <2>1, <2>2
  <1> QED BY <1>3, <1>7, <1>8, <1>9 DEF Kept, T, d

\* A new embedding of any rows keeps what holds of the tables.
LEMMA ReembedKeeps ==
  ASSUME MemoryTypeOK, Kept(seen), NEW rs
  PROVE  Kept(Reembedded(rs))
  <1> DEFINE T == Reembedded(rs)
             none == {}
  <1>1. Evolves(seen, T, none, none) /\ T.documents = seen.documents
    <2>1. T = [records |-> T.records, documents |-> seen.documents,
               audited |-> seen.audited, indexed |-> seen.indexed]
      BY ReembeddedRows
    <2>2. Evolves(seen, T, {}, {})
      BY ReembeddedRows
    <2> HIDE DEF T
    <2> QED BY <2>1, <2>2
  <1>2. DOMAIN seen.records \subseteq Nat
    BY FreshIsNew DEF MemoryTypeOK, TablesOk
  <1>3. None \notin DOMAIN seen.records \cup none
    BY <1>2, NoneIsNoRow
  <1>4. \A r \in none : FALSE
    OBVIOUS
  <1> HIDE DEF T, none
  <1>5. RowsFit(T)
    BY <1>1, <1>4 DEF RowsFit, Evolves, Kept
  <1>6. Succeeds(T)
    <2>1. \A r \in DOMAIN seen.records :
            Successors(T, r) = Successors(seen, r) \cup {n \in none : T.records[n].supersedes = r}
      BY <1>1, <1>3, <1>4, SuccessorsAfter DEF Kept
    <2> QED BY <1>1, <1>4, <2>1 DEF Succeeds, Evolves, Kept
  <1>7. ASSUME NEW d \in Documents
        PROVE  \E n \in Nat : Numbered(T, d, n)
    <2>1. ChunksOf(T, d) = (ChunksOf(seen, d) \ none)
            \cup {r \in none : T.records[r].document = d /\ T.records[r].status = "current"}
      BY <1>1, ChunksAfter
    <2>2. ChunksOf(T, d) = ChunksOf(seen, d)
      BY <1>4, <2>1
    <2>3. Versions(T, d) = Versions(seen, d)
      BY <1>1 DEF Versions
    <2> QED BY <1>1, <2>2, <2>3, NumberedSame DEF Kept
  <1> QED BY <1>5, <1>6, <1>7 DEF Kept, T

-----------------------------------------------------------------------------
(* What a step does to the tables.                                          *)

\* Nothing, or a rollback.
Steady == /\ seen' \in {seen, saved} /\ saved' = saved
          /\ issued' = issued /\ refused' = refused

\* A write, committed or cut off.
Wrote(s, old) ==
  /\ MaySupersede(s, old)
  /\ issued < MaxRecords /\ issued' = issued + 1
  /\ \/ /\ seen' = Audit(Inserted(issued + 1, s, old), issued + 1) /\ saved' = seen'
        /\ refused' = refused
     \/ /\ seen' = Inserted(issued + 1, s, old) /\ saved' = saved
        /\ refused' = refused \cup {issued + 1}

Ingested(s, source, content) ==
  /\ seen' = Reindexed(s, DocumentId(s, source), content) /\ saved' = seen'
  /\ issued + Chunks[content] <= MaxRecords
  /\ issued' = issued + Chunks[content] /\ refused' = refused

Rescored == /\ \E rs : seen' = Reembedded(rs)
            /\ saved' \in {saved, seen'} /\ issued' = issued /\ refused' = refused

\* The four things a step may do to the tables the connection reads.
LEMMA TableStep ==
  ASSUME [Next]_vars
  PROVE  \/ Steady \/ Rescored
         \/ \E s \in Scopes, old \in Ids \cup {None} : Wrote(s, old)
         \/ \E s \in Scopes, u \in Sources, c \in Contents : Ingested(s, u, c)
  <1>1. ASSUME NEW s \in Scopes, NEW old \in Ids \cup {None}, Write(s, old) \/ WriteCut(s, old)
        PROVE  Wrote(s, old)
    BY <1>1 DEF Write, WriteCut, Wrote, Commit
  <1>2. ASSUME NEW s \in Scopes, NEW u \in Sources, NEW c \in Contents, Ingest(s, u, c)
        PROVE  Ingested(s, u, c)
    BY <1>2 DEF Ingest, Ingested, Commit
  <1>3. ASSUME NEW s \in Scopes, NEW u \in Sources, NEW c \in Contents, IngestFails(s, u, c)
        PROVE  Steady
    BY <1>3 DEF IngestFails, Steady
  <1>4. ASSUME \/ \E s \in Scopes : Recall(s)
               \/ IndexAgrees \/ Rebuild \/ Persist \/ Restart \/ UNCHANGED vars
        PROVE  Steady
    BY <1>4 DEF Recall, IndexAgrees, Rebuild, Persist, Restart, vars, Steady
  <1>5. ASSUME Answer \/ RecallCut
        PROVE  Rescored
    BY <1>5 DEF Answer, RecallCut, Rescored, Commit
  <1> QED BY <1>1, <1>2, <1>3, <1>4, <1>5 DEF Next

\* An audit row touches nothing but the audit.
LEMMA AuditOnly ==
  ASSUME NEW T, NEW r,
         T = [records |-> T.records, documents |-> T.documents,
              audited |-> T.audited, indexed |-> T.indexed]
  PROVE  Audit(T, r) = [records |-> T.records, documents |-> T.documents,
                        audited |-> T.audited \cup {r}, indexed |-> T.indexed]
BY DEF Audit

\* The audit row is no part of what else is promised of a table.
LEMMA KeptByRows ==
  ASSUME NEW T, NEW U, U.records = T.records, U.documents = T.documents, Kept(T)
  PROVE  Kept(U)
BY DEF Kept, RowsFit, Succeeds, Numbered, Successors, Versions, ChunksOf

\* What holds of both readings of the tables holds after every step.
LEMMA KeptAfter ==
  ASSUME MemoryTypeOK, Kept(seen), Kept(saved), [Next]_vars
  PROVE  Kept(seen)' /\ Kept(saved)'
  <1>1. CASE Steady
    <2>1. Kept(seen') /\ Kept(saved')
      BY <1>1 DEF Steady
    <2> QED BY <2>1 DEF Kept, RowsFit, Succeeds, Numbered, Successors, Versions, ChunksOf
  <1>2. ASSUME NEW s \in Scopes, NEW old \in Ids \cup {None}, Wrote(s, old)
        PROVE  Kept(seen') /\ Kept(saved')
    <2> DEFINE T == Inserted(issued + 1, s, old)
    <2>1. Kept(T)
      BY <1>2, InsertKeeps DEF Wrote
    <2>2. T = [records |-> T.records, documents |-> seen.documents,
               audited |-> seen.audited, indexed |-> seen.indexed]
      BY InsertedRows
    <2>3. \/ seen' = Audit(T, issued + 1) /\ saved' = seen'
          \/ seen' = T /\ saved' = saved
      BY <1>2 DEF Wrote
    <2> HIDE DEF T
    <2>4. Kept(Audit(T, issued + 1))
      <3>1. T = [records |-> T.records, documents |-> T.documents,
                 audited |-> T.audited, indexed |-> T.indexed]
        BY <2>2
      <3> DEFINE U == Audit(T, issued + 1)
      <3>2. U.records = T.records /\ U.documents = T.documents
        BY <3>1, AuditOnly
      <3> HIDE DEF U
      <3>3. Kept(U)
        BY <2>1, <3>2, KeptByRows
      <3> QED BY <3>3 DEF U
    <2> QED BY <2>1, <2>3, <2>4
  <1>3. ASSUME NEW s \in Scopes, NEW u \in Sources, NEW c \in Contents, Ingested(s, u, c)
        PROVE  Kept(seen') /\ Kept(saved')
    BY <1>3, ReindexKeeps DEF Ingested
  <1>4. CASE Rescored
    BY <1>4, ReembedKeeps DEF Rescored
  <1>5. Kept(seen') /\ Kept(saved')
    <2>1. CASE Steady
      BY <2>1 DEF Steady
    <2> QED BY <1>2, <1>3, <1>4, <2>1, TableStep
  <1> QED BY <1>5 DEF Kept, RowsFit, Succeeds, Numbered, Successors, Versions, ChunksOf

\* The tables a write, an ingest or a recall leaves have their types.
LEMMA TablesOkAfter ==
  ASSUME MemoryTypeOK, Kept(seen), [Next]_vars
  PROVE  /\ TablesOk(seen)' /\ TablesOk(saved)'
         /\ issued' \in 0 .. MaxRecords /\ 1 .. issued \subseteq 1 .. issued'
         /\ refused' \subseteq 1 .. issued'
         /\ DOMAIN saved.records \subseteq DOMAIN seen.records =>
              /\ DOMAIN saved'.records \subseteq DOMAIN seen'.records
              /\ DOMAIN saved.records \subseteq DOMAIN saved'.records
  <1>1. /\ TablesOk(seen) /\ TablesOk(saved) /\ issued \in 0 .. MaxRecords
        /\ refused \subseteq 1 .. issued /\ MaxRecords \in Nat
    BY MemoryAssumption DEF MemoryTypeOK
  <1>2. CASE Steady
    BY <1>1, <1>2 DEF Steady, TablesOk
  <1>3. ASSUME NEW s \in Scopes, NEW old \in Ids \cup {None}, Wrote(s, old)
        PROVE  /\ TablesOk(seen)' /\ TablesOk(saved)'
               /\ issued' \in 0 .. MaxRecords /\ 1 .. issued \subseteq 1 .. issued'
               /\ refused' \subseteq 1 .. issued'
               /\ DOMAIN saved.records \subseteq DOMAIN seen.records =>
                    /\ DOMAIN saved'.records \subseteq DOMAIN seen'.records
                    /\ DOMAIN saved.records \subseteq DOMAIN saved'.records
    <2> DEFINE T == Inserted(issued + 1, s, old)
    <2>1. /\ T = [records |-> T.records, documents |-> seen.documents,
                  audited |-> seen.audited, indexed |-> seen.indexed]
          /\ Evolves(seen, T, {issued + 1}, {old})
          /\ T.records \in [DOMAIN T.records -> Record]
      BY InsertedRows
    <2>2. /\ issued' = issued + 1 /\ issued < MaxRecords
          /\ \/ seen' = Audit(T, issued + 1) /\ saved' = seen' /\ refused' = refused
             \/ seen' = T /\ saved' = saved /\ refused' = refused \cup {issued + 1}
      BY <1>3 DEF Wrote
    <2> HIDE DEF T
    <2>3. /\ issued' \in 0 .. MaxRecords /\ 1 .. issued \subseteq 1 .. issued'
          /\ issued + 1 \in 1 .. issued'
      BY <1>1, <2>2
    <2>4. /\ seen' = [records |-> T.records, documents |-> seen.documents,
                      audited |-> seen'.audited, indexed |-> seen.indexed]
          /\ seen'.audited \subseteq seen.audited \cup {issued + 1}
      <3>1. T = [records |-> T.records, documents |-> T.documents,
                 audited |-> T.audited, indexed |-> T.indexed]
        BY <2>1
      <3>2. Audit(T, issued + 1) =
              [records |-> T.records, documents |-> seen.documents,
               audited |-> seen.audited \cup {issued + 1}, indexed |-> seen.indexed]
        BY <2>1, <3>1, AuditOnly
      <3> QED BY <2>1, <2>2, <3>2
    <2>5. DOMAIN T.records = DOMAIN seen.records \cup {issued + 1}
      BY <2>1 DEF Evolves
    <2>6. /\ seen'.records = T.records /\ seen'.documents = seen.documents
          /\ seen'.indexed = seen.indexed
      BY <2>4
    <2>7. TablesOk(seen)'
      BY <1>1, <2>1, <2>3, <2>4, <2>5, <2>6 DEF TablesOk
    <2>8. TablesOk(saved)'
      <3>1. CASE saved' = seen'
        BY <2>7, <3>1 DEF TablesOk
      <3>2. CASE saved' = saved
        BY <1>1, <2>3, <3>2 DEF TablesOk
      <3> QED BY <2>2, <3>1, <3>2
    <2> QED BY <1>1, <2>2, <2>3, <2>5, <2>6, <2>7, <2>8
  <1>4. ASSUME NEW s \in Scopes, NEW u \in Sources, NEW c \in Contents, Ingested(s, u, c)
        PROVE  /\ TablesOk(seen)' /\ TablesOk(saved)'
               /\ issued' \in 0 .. MaxRecords /\ 1 .. issued \subseteq 1 .. issued'
               /\ refused' \subseteq 1 .. issued'
               /\ DOMAIN saved.records \subseteq DOMAIN seen.records =>
                    /\ DOMAIN saved'.records \subseteq DOMAIN seen'.records
                    /\ DOMAIN saved.records \subseteq DOMAIN saved'.records
    <2> DEFINE d == DocumentId(s, u)
               T == Reindexed(s, d, c)
               made == [id |-> d, version |-> NextVersion(d), state |-> "active", content |-> c]
    <2>1. d \in Documents /\ NextVersion(d) \in Nat /\ Chunks[c] \in Nat
      BY ReindexKeeps, MemoryAssumption DEF DocumentId, Documents, Contents
    <2> HIDE DEF d
    <2>2. /\ T = [records |-> T.records, documents |-> T.documents,
                  audited |-> T.audited, indexed |-> T.indexed]
          /\ T.documents = {IF v \in Active(d) THEN [v EXCEPT !.state = "superseded"] ELSE v :
                              v \in seen.documents} \cup {made}
          /\ T.audited = seen.audited
          /\ T.indexed = seen.indexed \cup {<<d, NextVersion(d)>>}
          /\ Evolves(seen, T, Fresh(Chunks[c]), ChunksOf(seen, d))
          /\ T.records \in [DOMAIN T.records -> Record]
      BY <2>1, ReindexedRows
    <2>3. /\ seen' = T /\ saved' = T /\ issued' = issued + Chunks[c] /\ refused' = refused
          /\ issued + Chunks[c] <= MaxRecords
      BY <1>4 DEF Ingested, d
    <2> HIDE DEF T
    <2>4. T.documents \subseteq DocumentVersion
      <3>1. \A v \in seen.documents : v \in DocumentVersion
        BY <1>1 DEF TablesOk
      <3>2. \A v \in seen.documents : [v EXCEPT !.state = "superseded"] \in DocumentVersion
        BY <3>1 DEF DocumentVersion
      <3>3. made \in DocumentVersion
        BY <2>1 DEF DocumentVersion
      <3> QED BY <2>2, <3>1, <3>2, <3>3
    <2>5. /\ DOMAIN T.records = DOMAIN seen.records \cup Fresh(Chunks[c])
          /\ Fresh(Chunks[c]) \subseteq 1 .. issued' /\ 1 .. issued \subseteq 1 .. issued'
          /\ issued' \in 0 .. MaxRecords
      BY <1>1, <2>1, <2>2, <2>3, FreshIsNew DEF Evolves
    <2>6. TablesOk(seen)'
      BY <1>1, <2>1, <2>2, <2>3, <2>4, <2>5 DEF TablesOk
    <2> QED BY <1>1, <2>3, <2>5, <2>6 DEF TablesOk
  <1>5. CASE Rescored
    <2>1. PICK rs : seen' = Reembedded(rs)
      BY <1>5 DEF Rescored
    <2>2. /\ seen' = [records |-> seen'.records, documents |-> seen.documents,
                      audited |-> seen.audited, indexed |-> seen.indexed]
          /\ Evolves(seen, seen', {}, {})
          /\ seen'.records \in [DOMAIN seen'.records -> Record]
      BY <2>1, ReembeddedRows
    <2>3. saved' \in {saved, seen'} /\ issued' = issued /\ refused' = refused
      BY <1>5 DEF Rescored
    <2>4. DOMAIN seen'.records = DOMAIN seen.records
      BY <2>2 DEF Evolves
    <2>5. TablesOk(seen)'
      BY <1>1, <2>2, <2>3, <2>4 DEF TablesOk
    <2>6. TablesOk(saved)'
      BY <1>1, <2>3, <2>5 DEF TablesOk
    <2> QED BY <1>1, <2>3, <2>4, <2>5, <2>6
  <1> QED BY <1>2, <1>3, <1>4, <1>5, TableStep

\* Type correctness of every step.
LEMMA TypeAfter ==
  ASSUME MemoryTypeOK, Kept(seen), [Next]_vars
  PROVE  MemoryTypeOK'
  <1>1. /\ TablesOk(seen)' /\ TablesOk(saved)' /\ issued' \in 0 .. MaxRecords
        /\ refused' \subseteq 1 .. issued'
    BY TablesOkAfter
  <1>2. 1 .. issued \subseteq 1 .. issued'
    BY TablesOkAfter
  <1>3. /\ Retrievable \subseteq 1 .. issued /\ FreshlyEmbedded \subseteq 1 .. issued
        /\ \A n \in Nat : Fresh(n) \subseteq 1 .. (issued + n)
    BY FreshIsNew DEF Retrievable, FreshlyEmbedded, MemoryTypeOK, TablesOk
  <1>4. index' \in Indexes' /\ sidecar' \in Indexes'
    <2>1. index \in Indexes /\ sidecar \in Indexes /\ embedder \in Embedders
      BY DEF MemoryTypeOK
    <2>2. index \in Indexes' /\ sidecar \in Indexes'
      BY <1>2, <2>1 DEF Indexes
    <2>3. CASE UNCHANGED <<index, sidecar>>
      BY <2>2, <2>3
    <2>4. CASE Rebuild
      <3>1. index' = [ids |-> FreshlyEmbedded, vectors |-> FreshlyEmbedded, by |-> embedder]
        BY <2>4 DEF Rebuild
      <3>2. sidecar' = [sidecar EXCEPT !.vectors = FreshlyEmbedded, !.by = embedder]
        BY <2>4 DEF Rebuild
      <3>3. FreshlyEmbedded \subseteq 1 .. issued'
        BY <1>2, <1>3
      <3> QED BY <2>1, <2>2, <3>1, <3>2, <3>3 DEF Indexes
    <2>5. CASE Persist
      <3>1. index' = index /\ sidecar' = [sidecar EXCEPT !.ids = index.ids]
        BY <2>5 DEF Persist
      <3> QED BY <2>2, <3>1 DEF Indexes
    <2>6. CASE Restart
      <3>1. index' \in {NoIndex, sidecar} /\ sidecar' = sidecar
        BY <2>6 DEF Restart, Loaded
      <3>2. NoIndex \in Indexes'
        BY DEF NoIndex, Indexes
      <3> QED BY <2>2, <3>1, <3>2
    <2> QED BY <2>3, <2>4, <2>5, <2>6 DEF Next, Write, WriteCut, Ingest, IngestFails, Recall,
              IndexAgrees, Answer, RecallCut, vars
  <1> DEFINE Ops(n) == [name : {"none", "write", "ingest", "recall", "start"},
                        ids : SUBSET (1 .. n), scope : Scopes \cup {None}]
  <1>5. /\ op' \in Ops(issued') /\ told' \subseteq 1 .. issued'
        /\ step' \in {"idle", "ensure", "persist", "search"}
    <2>1. /\ op \in Ops(issued) /\ told \subseteq 1 .. issued
          /\ step \in {"idle", "ensure", "persist", "search"}
      BY DEF MemoryTypeOK
    <2>2. /\ op \in Ops(issued') /\ told \subseteq 1 .. issued' /\ op.ids \subseteq 1 .. issued'
          /\ NoOp \in Ops(issued') /\ [NoOp EXCEPT !.name = "start"] \in Ops(issued')
      BY <1>2, <2>1 DEF NoOp
    <2>3. ASSUME NEW s \in Scopes, NEW old \in Ids \cup {None}, Write(s, old)
          PROVE  /\ op' \in Ops(issued') /\ told' = told /\ step' = "ensure"
      <3>1. /\ op' = [name |-> "write", ids |-> {issued + 1}, scope |-> s]
            /\ issued' = issued + 1 /\ told' = told /\ step' = "ensure"
        BY <2>3 DEF Write
      <3>2. issued \in Nat /\ issued + 1 \in 1 .. issued'
        BY <3>1, MemoryAssumption DEF MemoryTypeOK
      <3> QED BY <3>1, <3>2
    <2>4. ASSUME NEW s \in Scopes, NEW u \in Sources, NEW c \in Contents, Ingest(s, u, c)
          PROVE  /\ op' \in Ops(issued') /\ told' = told /\ step' = "ensure"
      <3>1. /\ op' = [name |-> "ingest", ids |-> Fresh(Chunks[c]), scope |-> s]
            /\ issued' = issued + Chunks[c] /\ told' = told /\ step' = "ensure"
        BY <2>4 DEF Ingest
      <3>2. Chunks[c] \in Nat
        BY MemoryAssumption DEF Contents
      <3>3. Fresh(Chunks[c]) \subseteq 1 .. issued'
        BY <1>3, <3>1, <3>2
      <3> QED BY <3>1, <3>3
    <2>5. ASSUME NEW s \in Scopes, Recall(s)
          PROVE  /\ op' \in Ops(issued') /\ told' = told /\ step' = "ensure"
      <3>1. op' = [name |-> "recall", ids |-> {}, scope |-> s] /\ told' = told /\ step' = "ensure"
        BY <2>5 DEF Recall
      <3> QED BY <3>1
    <2>6. CASE IndexAgrees \/ Persist
      BY <2>2, <2>6 DEF IndexAgrees, Persist, AfterIndex
    <2>7. CASE Rebuild \/ Answer \/ RecallCut \/ Restart
      BY <2>2, <2>7 DEF Rebuild, Answer, RecallCut, Restart
    <2>8. ASSUME \/ \E s \in Scopes, old \in Ids \cup {None} : WriteCut(s, old)
                 \/ \E s \in Scopes, u \in Sources, c \in Contents : IngestFails(s, u, c)
                 \/ UNCHANGED vars
          PROVE  op' = op /\ told' = told /\ step' = step
      BY <2>8 DEF WriteCut, IngestFails, vars
    <2> HIDE DEF Ops
    <2> QED BY <2>1, <2>2, <2>3, <2>4, <2>5, <2>6, <2>7, <2>8 DEF Next
  <1>6. embedder' \in Embedders /\ torn' \in BOOLEAN /\ crashes' \in 0 .. MaxCrashes
    <2>1. /\ embedder \in Embedders /\ torn \in BOOLEAN /\ crashes \in 0 .. MaxCrashes
          /\ MaxCrashes \in Nat
      BY MemoryAssumption DEF MemoryTypeOK
    <2>2. CASE Restart
      BY <2>1, <2>2 DEF Restart
    <2>3. CASE ~Restart
      BY <2>1, <2>3 DEF Next, Write, WriteCut, Ingest, IngestFails, Recall, IndexAgrees, Rebuild,
           Persist, Answer, RecallCut, vars
    <2> QED BY <2>2, <2>3
  <1> QED BY <1>1, <1>4, <1>5, <1>6 DEF MemoryTypeOK

\* What is acknowledged, or will be once the index is in place, is committed.
LEMMA ToldAfter ==
  ASSUME MemoryTypeOK, Kept(seen), ToldInv, [Next]_vars
  PROVE  ToldInv'
  <1>1. /\ DOMAIN saved'.records \subseteq DOMAIN seen'.records
        /\ DOMAIN saved.records \subseteq DOMAIN saved'.records
    BY TablesOkAfter DEF ToldInv
  <1>2. told' \cup op'.ids \subseteq DOMAIN saved'.records
    <2>1. told \cup op.ids \subseteq DOMAIN saved'.records
      BY <1>1 DEF ToldInv
    <2>2. NoOp.ids = {} /\ [NoOp EXCEPT !.name = "start"].ids = {}
      BY DEF NoOp
    <2>3. ASSUME NEW s \in Scopes, NEW old \in Ids \cup {None}, Write(s, old)
          PROVE  told' = told /\ op'.ids \subseteq DOMAIN saved'.records
      <3> DEFINE T == Inserted(issued + 1, s, old)
      <3>1. /\ T = [records |-> T.records, documents |-> seen.documents,
                    audited |-> seen.audited, indexed |-> seen.indexed]
            /\ Evolves(seen, T, {issued + 1}, {old})
        BY InsertedRows
      <3>2. saved' = Audit(T, issued + 1) /\ op'.ids = {issued + 1} /\ told' = told
        BY <2>3 DEF Write, Commit
      <3> HIDE DEF T
      <3>3. saved'.records = T.records
        <4>1. T = [records |-> T.records, documents |-> T.documents,
                   audited |-> T.audited, indexed |-> T.indexed]
          BY <3>1
        <4> QED BY <3>2, <4>1, AuditOnly
      <3> QED BY <3>1, <3>2, <3>3 DEF Evolves
    <2>4. ASSUME NEW s \in Scopes, NEW u \in Sources, NEW c \in Contents, Ingest(s, u, c)
          PROVE  told' = told /\ op'.ids \subseteq DOMAIN saved'.records
      <3> DEFINE d == DocumentId(s, u)
                 T == Reindexed(s, d, c)
      <3>1. d \in Documents /\ NextVersion(d) \in Nat
        BY ReindexKeeps DEF DocumentId, Documents
      <3> HIDE DEF d
      <3>2. Evolves(seen, T, Fresh(Chunks[c]), ChunksOf(seen, d))
        BY <3>1, ReindexedRows
      <3>3. saved' = T /\ op'.ids = Fresh(Chunks[c]) /\ told' = told
        BY <2>4 DEF Ingest, Commit, d
      <3> QED BY <3>2, <3>3 DEF Evolves
    <2>5. ASSUME \/ \E s \in Scopes : Recall(s)
                 \/ IndexAgrees \/ Rebuild \/ Persist \/ Answer \/ RecallCut \/ Restart
                 \/ \E s \in Scopes, old \in Ids \cup {None} : WriteCut(s, old)
                 \/ \E s \in Scopes, u \in Sources, c \in Contents : IngestFails(s, u, c)
                 \/ UNCHANGED vars
          PROVE  told' \subseteq told \cup op.ids /\ op'.ids \subseteq op.ids
      <3>1. ASSUME NEW s \in Scopes, Recall(s)
            PROVE  told' = told /\ op'.ids = {}
        <4>1. op' = [name |-> "recall", ids |-> {}, scope |-> s] /\ told' = told
          BY <3>1 DEF Recall
        <4> QED BY <4>1
      <3>2. CASE IndexAgrees \/ Persist
        <4>1. told' = told \cup op.ids /\ op' \in {op, NoOp}
          BY <3>2 DEF IndexAgrees, Persist, AfterIndex
        <4> QED BY <2>2, <4>1
      <3>3. CASE Answer \/ RecallCut
        <4>1. told' = told /\ op' = NoOp
          BY <3>3 DEF Answer, RecallCut
        <4> QED BY <2>2, <4>1
      <3>4. CASE Restart
        <4>1. told' = told /\ op' = [NoOp EXCEPT !.name = "start"]
          BY <3>4 DEF Restart
        <4> QED BY <2>2, <4>1
      <3>5. ASSUME \/ Rebuild
                   \/ \E s \in Scopes, old \in Ids \cup {None} : WriteCut(s, old)
                   \/ \E s \in Scopes, u \in Sources, c \in Contents : IngestFails(s, u, c)
                   \/ UNCHANGED vars
            PROVE  told' = told /\ op' = op
        BY <3>5 DEF Rebuild, WriteCut, IngestFails, vars
      <3> QED BY <2>5, <3>1, <3>2, <3>3, <3>4, <3>5
    <2> QED BY <2>1, <2>3, <2>4, <2>5 DEF Next
  <1> QED BY <1>1, <1>2 DEF ToldInv

\* Whatever row a step adds is audited with it, or its writer got an exception.
LEMMA AuditAfter ==
  ASSUME MemoryTypeOK, Kept(seen), IsAudited(seen), IsAudited(saved), [Next]_vars
  PROVE  IsAudited(seen)' /\ IsAudited(saved)'
  <1>1. ASSUME NEW U, NEW new, NEW old, Evolves(seen, U, new, old),
               seen.audited \subseteq U.audited, seen.indexed \subseteq U.indexed,
               refused \subseteq refused',
               \A r \in new : \/ r \in U.audited \cup refused'
                              \/ /\ U.records[r].kind = "document_chunk"
                                 /\ <<U.records[r].document, U.records[r].version>> \in U.indexed,
               seen' = U, saved' \in {saved, U}
        PROVE  IsAudited(seen)' /\ IsAudited(saved)'
    <2>1. IsAudited(seen)'
      BY <1>1 DEF IsAudited, Evolves
    <2> QED BY <1>1, <2>1 DEF IsAudited
  <1>2. CASE Steady
    BY <1>2 DEF Steady, IsAudited
  <1>3. ASSUME NEW s \in Scopes, NEW old \in Ids \cup {None}, Wrote(s, old)
        PROVE  IsAudited(seen)' /\ IsAudited(saved)'
    <2> DEFINE T == Inserted(issued + 1, s, old)
               new == {issued + 1}
               olds == {old}
    <2>1. /\ T = [records |-> T.records, documents |-> seen.documents,
                  audited |-> seen.audited, indexed |-> seen.indexed]
          /\ Evolves(seen, T, new, olds)
      BY InsertedRows
    <2>2. \/ seen' = Audit(T, issued + 1) /\ saved' = seen' /\ refused' = refused
          \/ seen' = T /\ saved' = saved /\ refused' = refused \cup {issued + 1}
      BY <1>3 DEF Wrote
    <2> HIDE DEF T
    <2>3. /\ seen'.records = T.records /\ seen'.indexed = seen.indexed
          /\ seen.audited \subseteq seen'.audited
          /\ issued + 1 \in seen'.audited \cup refused'
      <3>1. T = [records |-> T.records, documents |-> T.documents,
                 audited |-> T.audited, indexed |-> T.indexed]
        BY <2>1
      <3>2. Audit(T, issued + 1) =
              [records |-> T.records, documents |-> seen.documents,
               audited |-> seen.audited \cup {issued + 1}, indexed |-> seen.indexed]
        BY <2>1, <3>1, AuditOnly
      <3> QED BY <2>1, <2>2, <3>2
    <2>4. Evolves(seen, seen', new, olds)
      BY <2>1, <2>3 DEF Evolves
    <2>5. \A r \in new : r \in seen'.audited \cup refused'
      BY <2>3
    <2> HIDE DEF new, olds
    <2> QED BY <1>1, <2>2, <2>3, <2>4, <2>5
  <1>4. ASSUME NEW s \in Scopes, NEW u \in Sources, NEW c \in Contents, Ingested(s, u, c)
        PROVE  IsAudited(seen)' /\ IsAudited(saved)'
    <2> DEFINE d == DocumentId(s, u)
               T == Reindexed(s, d, c)
    <2>1. d \in Documents /\ NextVersion(d) \in Nat
      BY ReindexKeeps DEF DocumentId, Documents
    <2> HIDE DEF d
    <2>2. /\ T.audited = seen.audited
          /\ T.indexed = seen.indexed \cup {<<d, NextVersion(d)>>}
          /\ Evolves(seen, T, Fresh(Chunks[c]), ChunksOf(seen, d))
          /\ \A r \in Fresh(Chunks[c]) : T.records[r] = Chunk(s, d, r - issued)
      BY <2>1, ReindexedRows
    <2>3. \A o : LET k == Chunk(s, d, o)
                 IN k.kind = "document_chunk" /\ k.document = d /\ k.version = NextVersion(d)
      BY DEF Chunk
    <2>4. seen' = T /\ saved' = T /\ refused' = refused
      BY <1>4 DEF Ingested, d
    <2> HIDE DEF T
    <2> QED BY <1>1, <2>2, <2>3, <2>4
  <1>5. CASE Rescored
    <2> DEFINE none == {}
    <2>1. PICK rs : seen' = Reembedded(rs)
      BY <1>5 DEF Rescored
    <2>2. /\ seen' = [records |-> seen'.records, documents |-> seen.documents,
                      audited |-> seen.audited, indexed |-> seen.indexed]
          /\ Evolves(seen, seen', none, none)
      BY <2>1, ReembeddedRows
    <2>3. /\ seen'.audited = seen.audited /\ seen'.indexed = seen.indexed
          /\ saved' \in {saved, seen'} /\ refused' = refused /\ \A r \in none : FALSE
      BY <1>5, <2>2 DEF Rescored
    <2> HIDE DEF none
    <2> QED BY <1>1, <2>2, <2>3
  <1> QED BY <1>2, <1>3, <1>4, <1>5, TableStep

\* No row that was out of date becomes current again: not by a new row, whose id is fresh, not
\* by a rollback to the committed tables, not by a new vector.
LEMMA CurrentAfter ==
  ASSUME MemoryTypeOK, Kept(seen), [Next]_vars, NEW r \in 1 .. issued,
         r \in CurrentIn(seen)' \cup CurrentIn(saved)'
  PROVE  r \in CurrentIn(seen) \cup CurrentIn(saved)
  <1>1. ASSUME NEW U, NEW new, NEW old, Evolves(seen, U, new, old), r \notin new,
               seen' = U, saved' \in {saved, U}
        PROVE  r \in CurrentIn(seen) \cup CurrentIn(saved)
    <2>1. r \in CurrentIn(U) => r \in CurrentIn(seen)
      BY <1>1 DEF Evolves, CurrentIn
    <2>2. r \in CurrentIn(U) \cup CurrentIn(saved)
      BY <1>1 DEF CurrentIn
    <2> QED BY <2>1, <2>2
  <1>2. CASE Steady
    BY <1>2 DEF Steady, CurrentIn
  <1>3. ASSUME NEW s \in Scopes, NEW old \in Ids \cup {None}, Wrote(s, old)
        PROVE  r \in CurrentIn(seen) \cup CurrentIn(saved)
    <2> DEFINE T == Inserted(issued + 1, s, old)
               new == {issued + 1}
               olds == {old}
    <2>1. /\ T = [records |-> T.records, documents |-> seen.documents,
                  audited |-> seen.audited, indexed |-> seen.indexed]
          /\ Evolves(seen, T, new, olds)
      BY InsertedRows
    <2>2. \/ seen' = Audit(T, issued + 1) /\ saved' = seen'
          \/ seen' = T /\ saved' = saved
      BY <1>3 DEF Wrote
    <2> HIDE DEF T
    <2>3. seen'.records = T.records
      <3>1. T = [records |-> T.records, documents |-> T.documents,
                 audited |-> T.audited, indexed |-> T.indexed]
        BY <2>1
      <3> QED BY <2>2, <3>1, AuditOnly
    <2>4. Evolves(seen, seen', new, olds)
      BY <2>1, <2>3 DEF Evolves
    <2>5. r \notin new
      BY MemoryAssumption DEF MemoryTypeOK
    <2>6. saved' \in {saved, seen'}
      BY <2>2
    <2> HIDE DEF new, olds
    <2> QED BY <1>1, <2>4, <2>5, <2>6
  <1>4. ASSUME NEW s \in Scopes, NEW u \in Sources, NEW c \in Contents, Ingested(s, u, c)
        PROVE  r \in CurrentIn(seen) \cup CurrentIn(saved)
    <2> DEFINE d == DocumentId(s, u)
               T == Reindexed(s, d, c)
    <2>1. d \in Documents /\ NextVersion(d) \in Nat
      BY ReindexKeeps DEF DocumentId, Documents
    <2> HIDE DEF d
    <2>2. Evolves(seen, T, Fresh(Chunks[c]), ChunksOf(seen, d))
      BY <2>1, ReindexedRows
    <2>3. seen' = T /\ saved' = T
      BY <1>4 DEF Ingested, d
    <2>4. r \notin Fresh(Chunks[c])
      BY MemoryAssumption DEF MemoryTypeOK, Fresh, Contents
    <2> HIDE DEF T
    <2> QED BY <1>1, <2>2, <2>3, <2>4
  <1>5. CASE Rescored
    <2> DEFINE none == {}
    <2>1. PICK rs : seen' = Reembedded(rs)
      BY <1>5 DEF Rescored
    <2>2. Evolves(seen, seen', none, none)
      BY <2>1, ReembeddedRows
    <2>3. saved' \in {saved, seen'} /\ r \notin none
      BY <1>5 DEF Rescored
    <2> HIDE DEF none
    <2> QED BY <1>1, <2>2, <2>3
  <1> QED BY <1>2, <1>3, <1>4, <1>5, TableStep

\* The index and its two files: while nothing is being rebuilt the files are a pair, or the
\* ids in them can only be of rows that are out of date, so that no later rebuild would take
\* the file of ids for the ids of new vectors.
LEMMA IndexAfter ==
  ASSUME MemoryTypeOK, Kept(seen), torn \/ IndexInv, [Next]_vars
  PROVE  torn' \/ IndexInv'
  <1> SUFFICES ASSUME ~torn' PROVE IndexInv'
    OBVIOUS
  <1>1. IndexInv
    BY DEF Next, Write, WriteCut, Ingest, IngestFails, Recall, IndexAgrees, Rebuild, Persist,
           Answer, RecallCut, Restart, vars
  <1>2. sidecar.ids \subseteq 1 .. issued
    BY DEF MemoryTypeOK, Indexes
  <1>3. ASSUME UNCHANGED sidecar, Dead
        PROVE  Dead'
    BY <1>2, <1>3, CurrentAfter DEF Dead
  <1>4. ASSUME UNCHANGED <<index, sidecar>>, step \in {"idle", "search"}, step' \in {"idle", "ensure"}
        PROVE  IndexInv'
    <2>1. Paired \/ Dead
      BY <1>1, <1>4 DEF IndexInv
    <2>2. Paired' \/ Dead'
      BY <1>3, <1>4, <2>1 DEF Paired
    <2>3. Paired' \/ sidecar'.ids # CurrentIn(saved)'
      BY <2>2 DEF Dead, Paired
    <2>4. index.ids = index.vectors
      BY <1>1, <1>4 DEF IndexInv
    <2>5. sidecar.ids = sidecar.vectors => index.ids = sidecar.ids
      BY <1>1, <1>4 DEF IndexInv
    <2> QED BY <1>4, <2>2, <2>3, <2>4, <2>5 DEF IndexInv
  <1>5. CASE IndexAgrees
    <2>1. /\ step = "ensure" /\ index.ids = Retrievable /\ step' \in {"idle", "search"}
          /\ UNCHANGED <<seen, saved, index, sidecar>>
      BY <1>5 DEF IndexAgrees, AfterIndex
    <2>2. index.ids = index.vectors
      BY <1>1, <2>1 DEF IndexInv
    <2>3. Paired \/ sidecar.ids # CurrentIn(saved)
      BY <1>1, <2>1 DEF IndexInv
    <2>4. Paired \/ Dead
      <3>1. ASSUME ~Paired, seen = saved, index = Loaded
            PROVE  Dead
        <4>1. Retrievable = CurrentIn(seen) /\ CurrentIn(seen) = CurrentIn(saved)
          BY <3>1 DEF Retrievable, CurrentIn
        <4>2. index = NoIndex
          BY <2>1, <2>3, <3>1, <4>1 DEF Loaded
        <4> QED BY <2>1, <4>1, <4>2 DEF NoIndex, Dead
      <3> QED BY <1>1, <2>1, <3>1 DEF IndexInv
    <2>5. Paired' \/ Dead'
      BY <1>3, <2>1, <2>4 DEF Paired
    <2>6. Paired' \/ sidecar'.ids # CurrentIn(saved)'
      BY <2>5 DEF Dead, Paired
    <2>7. sidecar.ids = sidecar.vectors => index.ids = sidecar.ids
      BY <1>1, <2>1 DEF IndexInv
    <2> QED BY <2>1, <2>2, <2>5, <2>6, <2>7 DEF IndexInv
  <1>6. CASE Rebuild
    <2>1. /\ step = "ensure" /\ index.ids # Retrievable /\ step' = "persist"
          /\ UNCHANGED <<seen, saved>>
          /\ index' = [ids |-> FreshlyEmbedded, vectors |-> FreshlyEmbedded, by |-> embedder]
          /\ sidecar' = [sidecar EXCEPT !.vectors = FreshlyEmbedded, !.by = embedder]
      BY <1>6 DEF Rebuild
    <2>2. index'.ids = index'.vectors /\ index'.vectors = FreshlyEmbedded
      BY <2>1
    <2>3. sidecar'.ids = sidecar.ids /\ sidecar'.vectors = FreshlyEmbedded
      BY <2>1 DEF MemoryTypeOK, Indexes
    <2>4. seen = saved => sidecar'.ids = {} \/ sidecar'.ids # CurrentIn(saved)
      <3>1. Retrievable = CurrentIn(seen)
        BY DEF Retrievable, CurrentIn
      <3>2. Paired \/ sidecar.ids # CurrentIn(saved)
        BY <1>1, <2>1 DEF IndexInv
      <3>3. sidecar.ids = sidecar.vectors => index.ids = sidecar.ids
        BY <1>1, <2>1 DEF IndexInv
      <3> QED BY <2>1, <2>3, <3>1, <3>2, <3>3 DEF Paired
    <2>5. CurrentIn(saved)' = CurrentIn(saved)
      BY <2>1 DEF CurrentIn
    <2> QED BY <2>1, <2>2, <2>3, <2>4, <2>5 DEF IndexInv, Paired
  <1>7. CASE Persist
    <2>1. /\ step = "persist" /\ step' \in {"idle", "search"} /\ UNCHANGED index
          /\ sidecar' = [sidecar EXCEPT !.ids = index.ids]
      BY <1>7 DEF Persist, AfterIndex
    <2>2. sidecar'.ids = index.ids /\ sidecar'.vectors = sidecar.vectors
      BY <2>1 DEF MemoryTypeOK, Indexes
    <2>3. index.ids = index.vectors /\ sidecar.vectors = index.vectors
      BY <1>1, <2>1 DEF IndexInv
    <2>4. Paired'
      BY <2>2, <2>3 DEF Paired
    <2> QED BY <2>1, <2>2, <2>3, <2>4 DEF IndexInv
  <1>8. CASE Restart
    <2>1. /\ step' = "ensure" /\ UNCHANGED <<saved, sidecar>> /\ seen' = saved /\ index' = Loaded
          /\ ~(step = "persist" /\ seen # saved)
      BY <1>8 DEF Restart
    <2>2. Paired \/ sidecar.ids # CurrentIn(saved)
      BY <1>1, <2>1 DEF IndexInv
    <2>3. Paired' \/ sidecar'.ids # CurrentIn(saved)'
      BY <2>1, <2>2 DEF Paired, CurrentIn
    <2>4. Retrievable' = CurrentIn(saved)
      BY <2>1 DEF Retrievable, CurrentIn
    <2>5. index'.ids = index'.vectors \/ index'.ids # Retrievable'
      BY <2>1, <2>2, <2>4 DEF Loaded, NoIndex, Paired
    <2>6. sidecar'.ids = sidecar'.vectors => index'.ids = sidecar'.ids
      BY <2>1 DEF Loaded, NoIndex
    <2>7. seen' = saved' /\ index' = Loaded'
      BY <2>1 DEF Loaded
    <2> QED BY <2>1, <2>3, <2>5, <2>6, <2>7 DEF IndexInv
  <1>9. CASE UNCHANGED vars
    BY <1>1, <1>9 DEF vars, IndexInv, Paired, Dead, CurrentIn, Retrievable, Loaded
  <1>10. ASSUME \/ \E s \in Scopes, old \in Ids \cup {None} : Write(s, old) \/ WriteCut(s, old)
                \/ \E s \in Scopes, u \in Sources, c \in Contents :
                     Ingest(s, u, c) \/ IngestFails(s, u, c)
                \/ \E s \in Scopes : Recall(s)
                \/ Answer \/ RecallCut
         PROVE  /\ UNCHANGED <<index, sidecar>>
                /\ step \in {"idle", "search"} /\ step' \in {"idle", "ensure"}
    BY <1>10 DEF Write, WriteCut, Ingest, IngestFails, Recall, Answer, RecallCut
  <1> QED BY <1>4, <1>5, <1>6, <1>7, <1>8, <1>9, <1>10 DEF Next

-----------------------------------------------------------------------------
(* The theorems.                                                            *)

\* An empty store keeps every promise.
LEMMA InitKeeps == Init => MemoryInv
  <1> SUFFICES ASSUME Init PROVE MemoryInv
    OBVIOUS
  <1>1. /\ seen = NoTables /\ saved = NoTables /\ index = NoIndex /\ sidecar = NoIndex
        /\ embedder \in Embedders /\ step = "idle" /\ op = NoOp /\ issued = 0 /\ told = {}
        /\ refused = {} /\ torn = FALSE /\ crashes = 0
    BY DEF Init
  <1>2. /\ NoTables.records = <<>> /\ DOMAIN NoTables.records = {} /\ NoTables.documents = {}
        /\ NoTables.audited = {} /\ NoTables.indexed = {}
        /\ NoTables = [records |-> NoTables.records, documents |-> NoTables.documents,
                       audited |-> NoTables.audited, indexed |-> NoTables.indexed]
    BY DEF NoTables
  <1>3. NoTables.records \in [DOMAIN NoTables.records -> Record]
    BY <1>2
  <1>4. TablesOk(NoTables)
    BY <1>1, <1>2, <1>3 DEF TablesOk
  <1>5. MemoryTypeOK
    <2>1. NoIndex \in Indexes
      BY DEF NoIndex, Indexes
    <2>2. NoOp \in [name : {"none", "write", "ingest", "recall", "start"},
                    ids : SUBSET (1 .. issued), scope : Scopes \cup {None}]
      BY DEF NoOp
    <2>3. /\ TablesOk(seen) /\ TablesOk(saved) /\ index \in Indexes /\ sidecar \in Indexes
          /\ op \in [name : {"none", "write", "ingest", "recall", "start"},
                     ids : SUBSET (1 .. issued), scope : Scopes \cup {None}]
      BY <1>1, <1>4, <2>1, <2>2
    <2>4. /\ issued \in 0 .. MaxRecords /\ crashes \in 0 .. MaxCrashes /\ torn \in BOOLEAN
          /\ told \subseteq 1 .. issued /\ refused \subseteq 1 .. issued
          /\ step \in {"idle", "ensure", "persist", "search"}
      <3>1. MaxRecords \in Nat /\ MaxCrashes \in Nat
        BY MemoryAssumption
      <3>2. issued \in 0 .. MaxRecords /\ crashes \in 0 .. MaxCrashes
        BY <1>1, <3>1
      <3>3. torn \in BOOLEAN
        BY <1>1
      <3> QED BY <1>1, <3>2, <3>3
    <2> QED BY <1>1, <2>3, <2>4 DEF MemoryTypeOK
  <1>6. ToldInv
    BY <1>1, <1>2 DEF ToldInv, NoOp
  <1>7. Kept(NoTables)
    <2>1. RowsFit(NoTables) /\ Succeeds(NoTables)
      BY <1>2 DEF RowsFit, Succeeds
    <2>2. ASSUME NEW d \in Documents PROVE Numbered(NoTables, d, 0)
      <3>1. Versions(NoTables, d) = {} /\ ChunksOf(NoTables, d) = {}
        BY <1>2 DEF Versions, ChunksOf
      <3>2. {v.version : v \in Versions(NoTables, d)} = 1 .. 0
        BY <3>1
      <3> QED BY <3>1, <3>2 DEF Numbered
    <2> QED BY <2>1, <2>2 DEF Kept
  <1>8. IsAudited(NoTables)
    BY <1>2 DEF IsAudited
  <1>9. IndexInv
    BY <1>1 DEF IndexInv, NoIndex, Paired
  <1> QED BY <1>1, <1>5, <1>6, <1>7, <1>8, <1>9 DEF MemoryInv

\* Every step keeps the promises.
LEMMA NextKeeps == MemoryInv /\ [Next]_vars => MemoryInv'
  <1> SUFFICES ASSUME MemoryInv, [Next]_vars PROVE MemoryInv'
    OBVIOUS
  <1>1. /\ MemoryTypeOK /\ ToldInv /\ Kept(seen) /\ Kept(saved)
        /\ IsAudited(seen) /\ IsAudited(saved) /\ (torn \/ IndexInv)
    BY DEF MemoryInv
  <1> QED BY <1>1, TypeAfter, ToldAfter, KeptAfter, AuditAfter, IndexAfter DEF MemoryInv

\* The inductive invariant.
THEOREM MemoryInvariance == Spec => []MemoryInv
  <1>1. Init => MemoryInv
    BY InitKeeps
  <1>2. MemoryInv /\ [Next]_vars => MemoryInv'
    BY NextKeeps
  <1> QED BY <1>1, <1>2, PTL DEF Spec

\* The variables have their types: no row, audit row or index position is ever of a record
\* that was not made.
THEOREM MemoryTyping == Spec => []MemoryTypeOK
  <1>1. MemoryInv => MemoryTypeOK
    BY DEF MemoryInv
  <1> QED BY <1>1, MemoryInvariance, PTL

\* What a writer was told is written is in the file from then on, whatever is rolled back
\* and however often the process dies (store.py:75-79, 154).
THEOREM ToldIsDurable == Spec => []AcknowledgedIsDurable
  <1>1. MemoryInv => AcknowledgedIsDurable
    BY DEF MemoryInv, ToldInv, AcknowledgedIsDurable
  <1> QED BY <1>1, MemoryInvariance, PTL

\* There is no way past the audit but to raise out of a write whose rows a later commit takes
\* along (store.py:102-103, 154, 267).
THEOREM NothingPassesTheAudit == Spec => []DurableIsAudited
  <1>1. MemoryInv => DurableIsAudited
    BY DEF MemoryInv, IsAudited, DurableIsAudited
  <1> QED BY <1>1, MemoryInvariance, PTL

\* A fact is corrected at most once, in its own scope, and is out of date exactly when it has
\* been (store.py:83-90, 100-101).
THEOREM FactsAreCorrectedOnce == Spec => []OneSuccessor
  <1>1. MemoryInv => OneSuccessor
    <2> SUFFICES ASSUME MemoryInv, NEW tables \in {seen, saved}, NEW r \in DOMAIN tables.records,
                        tables.records[r].kind = "fact"
                 PROVE  /\ Cardinality(Successors(tables, r)) =
                             IF tables.records[r].status = "current" THEN 0 ELSE 1
                        /\ \A n \in Successors(tables, r) :
                             tables.records[n].scope = tables.records[r].scope
      BY DEF OneSuccessor
    <2>1. Succeeds(tables)
      BY DEF MemoryInv, Kept
    <2>2. tables.records \in [DOMAIN tables.records -> Record]
      BY DEF MemoryInv, MemoryTypeOK, TablesOk
    <2>3. tables.records[r].status \in {"current", "superseded"}
      BY <2>2 DEF Record
    <2>4. CASE tables.records[r].status = "current"
      <3>1. Successors(tables, r) = {}
        BY <2>1, <2>4 DEF Succeeds
      <3> QED BY <2>4, <3>1, FS_EmptySet
    <2>5. CASE tables.records[r].status = "superseded"
      <3>1. PICK n \in DOMAIN tables.records : /\ Successors(tables, r) = {n}
                                               /\ tables.records[n].scope = tables.records[r].scope
        BY <2>1, <2>5 DEF Succeeds
      <3>2. Cardinality({n}) = 1
        BY FS_Singleton
      <3> QED BY <2>5, <3>1, <3>2
    <2> QED BY <2>3, <2>4, <2>5
  <1> QED BY <1>1, MemoryInvariance, PTL

\* The versions of a document, which have the numbers 1 .. n, are n.
LEMMA VersionsCounted ==
  ASSUME NEW T, NEW d, NEW n \in Nat, Numbered(T, d, n)
  PROVE  Cardinality(Versions(T, d)) = n
  <1> DEFINE V == Versions(T, d)
             number == [v \in V |-> v.version]
  <1>1. /\ {v.version : v \in V} = 1 .. n
        /\ \A v, w \in V : v.version = w.version => v = w
    BY DEF Numbered
  <1> HIDE DEF V
  <1>2. number \in Bijection(V, 1 .. n)
    BY <1>1 DEF Bijection, Injection, Surjection, IsInjective
  <1>3. IsFiniteSet(1 .. n) /\ Cardinality(1 .. n) = n
    BY FS_Interval
  <1>4. ExistsBijection(1 .. n, V)
    BY <1>2, Fun_ExistsBijSymmetric DEF ExistsBijection
  <1>5. Cardinality(V) = Cardinality(1 .. n)
    BY <1>3, <1>4, FS_Bijection
  <1> QED BY <1>3, <1>5 DEF V

\* A document is its last version, the others are history, and its current chunks are those
\* of the last version, none missing (store.py:140).
THEOREM DocumentsAreReplacedWhole == Spec => []DocumentIsOneVersion
  <1>1. MemoryInv => DocumentIsOneVersion
    <2> SUFFICES ASSUME MemoryInv, NEW tables \in {seen, saved}, NEW d \in Documents
                 PROVE  LET versions == Versions(tables, d)
                            last == Cardinality(versions)
                        IN /\ {v.version : v \in versions} = 1 .. last
                           /\ \A v \in versions : (v.state = "active") <=> (v.version = last)
                           /\ \A v \in versions : v.state = "active" =>
                                Cardinality(ChunksOf(tables, d)) = Chunks[v.content]
                           /\ \A r \in ChunksOf(tables, d) : tables.records[r].version = last
      BY DEF DocumentIsOneVersion
    <2>1. PICK n \in Nat : Numbered(tables, d, n)
      BY DEF MemoryInv, Kept
    <2>2. Cardinality(Versions(tables, d)) = n
      BY <2>1, VersionsCounted
    <2> QED BY <2>1, <2>2 DEF Numbered
  <1> QED BY <1>1, MemoryInvariance, PTL

\* Scopes that index one source have a document each, and what is fetched around a hit may
\* be read where the hit may (store.py:130-135, 279-284).
THEOREM ScopesNeverMeet == Spec => []ScopesStayApart
  <1>1. MemoryInv => ScopesStayApart
    <2> SUFFICES ASSUME MemoryInv PROVE ScopesStayApart
      OBVIOUS
    <2>1. /\ RowsFit(seen) /\ RowsFit(saved)
          /\ seen.records \in [DOMAIN seen.records -> Record]
          /\ saved.records \in [DOMAIN saved.records -> Record]
      BY DEF MemoryInv, Kept, MemoryTypeOK, TablesOk
    <2>2. ASSUME NEW tables \in {seen, saved}, NEW r \in DOMAIN tables.records,
                 tables.records[r].document # None
          PROVE  tables.records[r].document[1] = tables.records[r].scope
      <3>1. tables.records[r].kind \in {"fact", "document_chunk"}
        BY <2>1 DEF Record
      <3> QED BY <2>1, <2>2, <3>1 DEF RowsFit
    <2>3. ASSUME NEW s \in Scopes, NEW r \in Hits(s), NEW n \in Neighbours(r)
          PROVE  n \in Hits(s)
      <3>1. /\ r \in DOMAIN seen.records /\ n \in DOMAIN seen.records /\ n \in Retrievable
            /\ seen.records[r].document # None
            /\ seen.records[n].document = seen.records[r].document
            /\ MayRead(s, seen.records[r])
        BY DEF Hits, Neighbours, Retrievable
      <3>2. seen.records[n].scope = seen.records[r].scope
        BY <2>2, <3>1
      <3>3. MayRead(s, seen.records[n])
        BY <3>1, <3>2 DEF MayRead
      <3> QED BY <3>1, <3>3 DEF Hits
    <2> QED BY <2>2, <2>3 DEF ScopesStayApart
  <1> QED BY <1>1, MemoryInvariance, PTL

\* A search finds at every position of the index the record its vector was made from
\* (vector_index.py:26-29, 54-55, 62).
THEOREM EveryPositionResolves == Spec => []PositionsResolve
  <1>1. MemoryInv => PositionsResolve
    BY DEF MemoryInv, IndexInv, PositionsResolve
  <1> QED BY <1>1, MemoryInvariance, PTL
=============================================================================

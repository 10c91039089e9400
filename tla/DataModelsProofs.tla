-------------------------- MODULE DataModelsProofs --------------------------
(***************************************************************************)
(* Theorems about CodebaseIngest and Migrations, for every value of their  *)
(* constants.                                                              *)
(*                                                                         *)
(* Ingestion: rows and assertions are only added, so what a request has    *)
(* committed is there for its next transaction and for its answer          *)
(* (EntitiesAreThere, RelationsAreThere), whatever the requests between do.*)
(*                                                                         *)
(* Migrations: at revision v a schema holds the groups of objects that the *)
(* scripts up to v add and 0015 does not drop (Firm), and at most a few    *)
(* that the models had before their migration (Early).  Each script moves  *)
(* such a schema to the next revision (UpgradesFollow) and back            *)
(* (DowngradesFollow), so that no statement ever fails.                    *)
(***************************************************************************)
EXTENDS CodebaseIngest, Migrations, TLAPS

-----------------------------------------------------------------------------
(* Ingestion. *)

(* The ids of the symbols extracted from a file.                             *)
IdsOf(path, content) == {e.id : e \in Range(ExtractedEntities(path, content))}

(* The relations between two symbols of a file are asserted.                 *)
Asserted(path, content) ==
  \A rel \in ExtractedRelations(path, content) :
    rel.target \in IdsOf(path, content) /\ rel.source # rel.target =>
      [source |-> rel.source, kind |-> rel.kind, target |-> rel.target] \in assertions

IsSource(f) == \E path \in Files : \E content \in Contents[path] : f = <<path, content>>

(* A request is what it does and the files it was sent.                      *)
RequestsOK ==
  /\ request = [r \in Requests |-> [phase |-> request[r].phase, batch |-> request[r].batch]]
  /\ \A r \in Requests : \A i \in DOMAIN request[r].batch : IsSource(request[r].batch[i])

(* The first transaction of a request has committed.                         *)
EntitiesAreThere ==
  \A r \in Requests :
    request[r].phase \in {"relations", "analytics"} =>
      RawIds(request[r].batch) \subseteq DOMAIN rows

(* The second one has.                                                       *)
RelationsAreThere ==
  \A r \in Requests : request[r].phase = "analytics" =>
    \A f \in Range(request[r].batch) : Asserted(f[1], f[2])

CodeInv ==
  /\ RequestsOK
  /\ EntitiesAreThere
  /\ RelationsAreThere
  /\ AnsweredIsStored

-----------------------------------------------------------------------------
(* What is extracted from one file. *)

LEMMA FileIsExtracted ==
  ASSUME NEW path, NEW content
  PROVE  FileId(path) \in IdsOf(path, content)
<1> DEFINE es == ExtractedEntities(path, content)
<1>1. 0 \in DOMAIN es /\ es[0] = FileEntity(path)
  BY DEF ExtractedEntities
<1>2. es[0] \in Range(es)
  BY <1>1 DEF Range
<1>3. FileEntity(path).id = FileId(path)
  BY DEF FileEntity
<1> QED
  BY <1>1, <1>2, <1>3 DEF IdsOf

LEMMA SymbolIsExtracted ==
  ASSUME NEW path, NEW content, NEW i \in DOMAIN SyntaxNodes(path, content), i # 0,
         SyntaxNodes(path, content)[i].type \in Declarations \union {"import"}
  PROVE  NodeId(path, SyntaxNodes(path, content)[i]) \in IdsOf(path, content)
<1> DEFINE es == ExtractedEntities(path, content)
           node == SyntaxNodes(path, content)[i]
<1>1. i \in DOMAIN es /\ es[i] = EntityOf(path, node)
  BY DEF ExtractedEntities
<1>2. es[i] \in Range(es)
  BY <1>1 DEF Range
<1>3. EntityOf(path, node).id = NodeId(path, node)
  BY DEF EntityOf
<1> QED
  BY <1>1, <1>2, <1>3 DEF IdsOf

(* The nodes that are visited are well formed, by the fallback too, which     *)
(* puts all of them at the top of the file.                                   *)
LEMMA NodesAreFormed ==
  ASSUME NEW path \in Files, NEW content \in Contents[path],
         NEW i \in DOMAIN SyntaxNodes(path, content)
  PROVE  LET nodes == SyntaxNodes(path, content)
         IN  /\ i # 0
             /\ nodes[i].parent # 0 => /\ nodes[i].parent \in DOMAIN nodes
                                       /\ nodes[nodes[i].parent].type \in Declarations
             /\ nodes[i].bases # {} => nodes[i].type = "class"
<1>1. CASE ~FallsBack(path, content)
  BY <1>1, ContentsAssumption DEF SyntaxNodes
<1>2. CASE FallsBack(path, content)
  <2> DEFINE nodes == SyntaxNodes(path, content)
  <2>1. nodes = Flat(path, content)
    BY <1>2 DEF SyntaxNodes
  <2>2. /\ i \in DOMAIN content
        /\ nodes[i] = [content[i] EXCEPT !.type = IF @ = "def" THEN "def" ELSE "class",
                                         !.parent = 0]
    BY <2>1 DEF Flat
  <2>3. content \in Seq(SyntaxNode) /\ (content[i].bases # {} => content[i].type = "class")
    BY <2>2, ContentsAssumption
  <2>4. i # 0 /\ content[i] \in SyntaxNode
    BY <2>2, <2>3
  <2>5. /\ nodes[i].parent = 0 /\ nodes[i].bases = content[i].bases
        /\ content[i].type = "class" => nodes[i].type = "class"
    BY <2>2, <2>4 DEF SyntaxNode
  <2> HIDE DEF nodes
  <2>6. /\ i # 0
        /\ nodes[i].parent # 0 => /\ nodes[i].parent \in DOMAIN nodes
                                  /\ nodes[nodes[i].parent].type \in Declarations
        /\ nodes[i].bases # {} => nodes[i].type = "class"
    BY <2>3, <2>4, <2>5
  <2> QED
    BY <2>6 DEF nodes
<1> QED
  BY <1>1, <1>2

LEMMA ParentIsExtracted ==
  ASSUME NEW path \in Files, NEW content \in Contents[path],
         NEW i \in DOMAIN SyntaxNodes(path, content)
  PROVE  ParentId(path, SyntaxNodes(path, content), SyntaxNodes(path, content)[i])
           \in IdsOf(path, content)
<1> DEFINE nodes == SyntaxNodes(path, content)
<1>1. CASE nodes[i].parent = 0
  BY <1>1, FileIsExtracted DEF ParentId
<1>2. CASE nodes[i].parent # 0
  <2>1. nodes[i].parent \in DOMAIN nodes /\ nodes[nodes[i].parent].type \in Declarations
    BY <1>2, NodesAreFormed
  <2>2. nodes[i].parent # 0
    BY <1>2
  <2>3. NodeId(path, nodes[nodes[i].parent]) \in IdsOf(path, content)
    BY <2>1, <2>2, SymbolIsExtracted
  <2> QED
    BY <1>2, <2>3 DEF ParentId
<1> QED
  BY <1>1, <1>2

(* Every relation of a file starts at a symbol of the file.                  *)
LEMMA SourcesAreExtracted ==
  ASSUME NEW path \in Files, NEW content \in Contents[path],
         NEW rel \in ExtractedRelations(path, content)
  PROVE  /\ rel.source \in IdsOf(path, content)
         /\ rel.kind \in {"contains", "inherits", "imports", "calls"}
<1> DEFINE nodes == SyntaxNodes(path, content)
<1>1. PICK i \in DOMAIN nodes : rel \in RelationsOf(path, nodes, nodes[i])
  BY DEF ExtractedRelations
<1> DEFINE node == nodes[i]
<1>2. /\ ParentId(path, nodes, node) \in IdsOf(path, content)
      /\ FileId(path) \in IdsOf(path, content)
  BY ParentIsExtracted, FileIsExtracted
<1>3. node.type = "class" => NodeId(path, node) \in IdsOf(path, content)
  BY NodesAreFormed, SymbolIsExtracted DEF Declarations
<1>4. node.bases # {} => node.type = "class"
  BY NodesAreFormed
<1> HIDE DEF nodes, node
<1>5. CASE rel \in Containment(path, nodes, node)
  <2>1. rel = Relation(ParentId(path, nodes, node), "contains", NodeId(path, node), NoName)
    BY <1>5 DEF Containment
  <2> QED
    BY <1>2, <2>1 DEF Relation
<1>6. CASE rel \in Inheritance(path, node)
  <2>1. PICK b \in node.bases :
          rel = Relation(NodeId(path, node), "inherits", SymbolId(path, "class", b),
                         InheritanceQuote(node, b))
    BY <1>6 DEF Inheritance
  <2> QED
    BY <1>3, <1>4, <2>1 DEF Relation
<1>7. CASE rel \in Imported(path, node)
  <2>1. rel = Relation(FileId(path), "imports", NodeId(path, node), node.name)
    BY <1>7 DEF Imported
  <2> QED
    BY <1>2, <2>1 DEF Relation
<1>8. CASE rel \in Called(path, nodes, node)
  <2>1. rel = Relation(ParentId(path, nodes, node), "calls",
                       SymbolId(path, "function", node.name), node.name)
    BY <1>8 DEF Called
  <2> QED
    BY <1>2, <2>1 DEF Relation
<1> QED
  BY <1>1, <1>5, <1>6, <1>7, <1>8 DEF RelationsOf, node

(* The symbols of each file of a batch are symbols of the batch.             *)
LEMMA BatchHasFiles ==
  ASSUME NEW batch, NEW i \in DOMAIN batch
  PROVE  IdsOf(batch[i][1], batch[i][2]) \subseteq RawIds(batch)
<1> DEFINE es == ExtractedEntities(batch[i][1], batch[i][2])
<1> SUFFICES ASSUME NEW j \in DOMAIN es
             PROVE  es[j].id \in RawIds(batch)
  BY DEF IdsOf, Range
<1>1. <<i, j>> \in Places(batch)
  BY DEF Places
<1>2. EntityAt(batch, <<i, j>>) = es[j]
  BY DEF EntityAt
<1> QED
  BY <1>1, <1>2 DEF RawIds

(* A batch that resolves its relations asserts those within each file.       *)
LEMMA FilesAreResolved ==
  ASSUME NEW batch, NEW i \in DOMAIN batch, IsSource(batch[i]),
         NEW ids, RawIds(batch) \subseteq ids,
         NEW rel \in ExtractedRelations(batch[i][1], batch[i][2]),
         rel.target \in IdsOf(batch[i][1], batch[i][2]), rel.source # rel.target
  PROVE  [source |-> rel.source, kind |-> rel.kind, target |-> rel.target]
           \in Resolved(batch, ids)
<1>1. PICK path \in Files : \E content \in Contents[path] : batch[i] = <<path, content>>
  BY DEF IsSource
<1>2. PICK content \in Contents[path] : batch[i] = <<path, content>>
  BY <1>1
<1>3. /\ rel.source \in IdsOf(path, content)
      /\ rel.kind \in {"contains", "inherits", "imports", "calls"}
  BY <1>2, SourcesAreExtracted
<1>4. IdsOf(path, content) \subseteq RawIds(batch)
  BY <1>2, BatchHasFiles
<1>5. Resolve(batch, rel) = rel.target
  BY <1>2, <1>4 DEF Resolve
<1>6. rel \in BatchRelations(batch)
  BY DEF BatchRelations, Range
<1> QED
  BY <1>2, <1>3, <1>4, <1>5, <1>6 DEF Resolved

-----------------------------------------------------------------------------
(* The steps. *)

(* A request that goes on keeps its batch; one that ends has none.           *)
LEMMA ProceedKeeps ==
  ASSUME RequestsOK, NEW r \in Requests, NEW phase, Proceed(r, phase)
  PROVE  /\ RequestsOK'
         /\ request'[r].phase = phase /\ request'[r].batch = request[r].batch
         /\ \A q \in Requests \ {r} : request'[q] = request[q]
BY DEF RequestsOK, Proceed

LEMMA LeaveKeeps ==
  ASSUME RequestsOK, NEW r \in Requests, Leave(r)
  PROVE  /\ RequestsOK'
         /\ request'[r].phase = "idle"
         /\ \A q \in Requests \ {r} : request'[q] = request[q]
BY DEF RequestsOK, Leave, NoRequest

(* Rows and assertions that are added leave what is answered stored.         *)
LEMMA AnsweredStay ==
  ASSUME AnsweredIsStored, DOMAIN rows \subseteq DOMAIN rows', assertions \subseteq assertions',
         done' = done
  PROVE  AnsweredIsStored'
BY DEF AnsweredIsStored

LEMMA CodeInitInv == CodeInit => CodeInv
<1> SUFFICES ASSUME CodeInit PROVE CodeInv
  OBVIOUS
<1>1. \A r \in Requests : request[r] = [phase |-> "idle", batch |-> <<>>]
  BY DEF CodeInit, NoRequest
<1>2. RequestsOK
  BY <1>1 DEF RequestsOK, CodeInit, NoRequest
<1>3. EntitiesAreThere /\ RelationsAreThere
  BY <1>1 DEF EntitiesAreThere, RelationsAreThere
<1>4. AnsweredIsStored
  BY DEF AnsweredIsStored, CodeInit
<1> QED
  BY <1>2, <1>3, <1>4 DEF CodeInv

LEMMA ReceiveInv == ASSUME CodeInv, NEW r \in Requests, Receive(r) PROVE CodeInv'
<1>1. UNCHANGED <<present, rows, assertions, done>>
  BY DEF Receive
<1> DEFINE Received(fs, content, order) ==
             /\ \A f \in fs : content[f] \in Contents[f]
             /\ Range(order) = fs
             /\ request' = [request EXCEPT ![r] =
                   [phase |-> IF present THEN "entities" ELSE "create",
                    batch |-> [i \in DOMAIN order |-> <<order[i], content[order[i]]>>]]]
<1>2a. PICK fs \in SUBSET Files \ {{}} :
         \E content \in [fs -> UNION {Contents[f] : f \in fs}] :
           \E order \in [1..Cardinality(fs) -> fs] : Received(fs, content, order)
  BY DEF Receive
<1>2b. PICK content \in [fs -> UNION {Contents[f] : f \in fs}] :
         \E order \in [1..Cardinality(fs) -> fs] : Received(fs, content, order)
  BY <1>2a
<1>2. PICK order \in [1..Cardinality(fs) -> fs] : Received(fs, content, order)
  BY <1>2b
<1> DEFINE batch == [i \in DOMAIN order |-> <<order[i], content[order[i]]>>]
<1>3. \A i \in DOMAIN batch : IsSource(batch[i])
  BY <1>2 DEF IsSource
<1> HIDE DEF batch
<1>4. /\ request'[r] = [phase |-> IF present THEN "entities" ELSE "create", batch |-> batch]
      /\ \A q \in Requests \ {r} : request'[q] = request[q]
  BY <1>2 DEF CodeInv, RequestsOK, batch
<1>5. request'[r].phase \in {"entities", "create"} /\ request'[r].batch = batch
  BY <1>4
<1>6. RequestsOK'
  <2>1. request' = [q \in Requests |-> [phase |-> request'[q].phase, batch |-> request'[q].batch]]
    BY <1>2, <1>4 DEF CodeInv, RequestsOK
  <2> QED
    BY <2>1, <1>3, <1>4, <1>5 DEF CodeInv, RequestsOK
<1>7. EntitiesAreThere' /\ RelationsAreThere'
  BY <1>1, <1>4, <1>5 DEF CodeInv, EntitiesAreThere, RelationsAreThere, Asserted
<1> QED
  BY <1>1, <1>6, <1>7, AnsweredStay DEF CodeInv

(* A request that is dropped leaves what is committed.                       *)
LEMMA DropInv ==
  ASSUME CodeInv, NEW r \in Requests, Leave(r), UNCHANGED <<rows, assertions, done>>
  PROVE  CodeInv'
<1>1. /\ RequestsOK' /\ request'[r].phase = "idle"
      /\ \A q \in Requests \ {r} : request'[q] = request[q]
  BY LeaveKeeps DEF CodeInv
<1>2. EntitiesAreThere' /\ RelationsAreThere'
  BY <1>1 DEF CodeInv, EntitiesAreThere, RelationsAreThere, Asserted
<1> QED
  BY <1>1, <1>2, AnsweredStay DEF CodeInv

LEMMA CreateDatasetInv == ASSUME CodeInv, NEW r \in Requests, CreateDataset(r) PROVE CodeInv'
<1>1. UNCHANGED <<rows, assertions, done>>
  BY DEF CreateDataset
<1>2. CASE Leave(r)
  BY <1>1, <1>2, DropInv
<1>3. CASE Proceed(r, "entities")
  <2>1. /\ RequestsOK' /\ request'[r].phase = "entities"
        /\ \A q \in Requests \ {r} : request'[q] = request[q]
    BY <1>3, ProceedKeeps DEF CodeInv
  <2>2. EntitiesAreThere' /\ RelationsAreThere'
    BY <1>1, <2>1 DEF CodeInv, EntitiesAreThere, RelationsAreThere, Asserted
  <2> QED
    BY <1>1, <2>1, <2>2, AnsweredStay DEF CodeInv
<1> QED
  BY <1>2, <1>3 DEF CreateDataset

LEMMA InsertEntitiesInv == ASSUME CodeInv, NEW r \in Requests, InsertEntities(r) PROVE CodeInv'
<1> DEFINE batch == request[r].batch
<1>1. UNCHANGED <<assertions, done>>
  BY DEF InsertEntities
<1>2. CASE Refused(batch)
  BY <1>1, <1>2, DropInv DEF InsertEntities
<1>3. CASE ~Refused(batch)
  <2>1. Proceed(r, "relations") /\ rows' = AfterUpserts(batch, Places(batch))
    BY <1>3 DEF InsertEntities
  <2>2. DOMAIN rows' = DOMAIN rows \union RawIds(batch)
    BY <2>1 DEF AfterUpserts, RawIds
  <2>3. /\ RequestsOK' /\ request'[r].phase = "relations" /\ request'[r].batch = batch
        /\ \A q \in Requests \ {r} : request'[q] = request[q]
    BY <2>1, ProceedKeeps DEF CodeInv
  <2>4. EntitiesAreThere'
    BY <2>2, <2>3 DEF CodeInv, EntitiesAreThere
  <2>5. RelationsAreThere'
    BY <1>1, <2>3 DEF CodeInv, RelationsAreThere, Asserted
  <2> QED
    BY <1>1, <2>2, <2>3, <2>4, <2>5, AnsweredStay DEF CodeInv
<1> QED
  BY <1>2, <1>3

LEMMA AssertRelationsInv == ASSUME CodeInv, NEW r \in Requests, AssertRelations(r) PROVE CodeInv'
<1> DEFINE batch == request[r].batch
<1>1. /\ UNCHANGED <<rows, done>> /\ request[r].phase = "relations"
      /\ assertions' = assertions \union Resolved(batch, DOMAIN rows)
      /\ Proceed(r, "analytics")
  BY DEF AssertRelations
<1>2. /\ RequestsOK' /\ request'[r].phase = "analytics" /\ request'[r].batch = batch
      /\ \A q \in Requests \ {r} : request'[q] = request[q]
  BY <1>1, ProceedKeeps DEF CodeInv
<1>3. RawIds(batch) \subseteq DOMAIN rows
  BY <1>1 DEF CodeInv, EntitiesAreThere
<1>4. EntitiesAreThere'
  BY <1>1, <1>2, <1>3 DEF CodeInv, EntitiesAreThere
<1>5. \A i \in DOMAIN batch : \A rel \in ExtractedRelations(batch[i][1], batch[i][2]) :
        rel.target \in IdsOf(batch[i][1], batch[i][2]) /\ rel.source # rel.target =>
          [source |-> rel.source, kind |-> rel.kind, target |-> rel.target]
            \in Resolved(batch, DOMAIN rows)
  <2> SUFFICES ASSUME NEW i \in DOMAIN batch,
                      NEW rel \in ExtractedRelations(batch[i][1], batch[i][2]),
                      rel.target \in IdsOf(batch[i][1], batch[i][2]), rel.source # rel.target
               PROVE  [source |-> rel.source, kind |-> rel.kind, target |-> rel.target]
                        \in Resolved(batch, DOMAIN rows)
    OBVIOUS
  <2>1. IsSource(batch[i])
    BY DEF CodeInv, RequestsOK
  <2> HIDE DEF batch
  <2> QED
    BY <1>3, <2>1, FilesAreResolved
<1>6. RelationsAreThere'
  BY <1>1, <1>2, <1>5 DEF CodeInv, RelationsAreThere, Asserted, Range
<1> QED
  BY <1>1, <1>2, <1>4, <1>6, AnsweredStay DEF CodeInv

LEMMA AnswerInv == ASSUME CodeInv, NEW r \in Requests, Answer(r) PROVE CodeInv'
<1> DEFINE batch == request[r].batch
<1>1. /\ request[r].phase = "analytics" /\ done' = done \union Range(batch)
      /\ Leave(r) /\ UNCHANGED <<rows, assertions>>
  BY DEF Answer
<1>2. /\ RequestsOK' /\ request'[r].phase = "idle"
      /\ \A q \in Requests \ {r} : request'[q] = request[q]
  BY <1>1, LeaveKeeps DEF CodeInv
<1>3. EntitiesAreThere' /\ RelationsAreThere'
  BY <1>1, <1>2 DEF CodeInv, EntitiesAreThere, RelationsAreThere, Asserted
<1>4. \A f \in Range(batch) :
        IdsOf(f[1], f[2]) \subseteq DOMAIN rows /\ Asserted(f[1], f[2])
  BY <1>1, BatchHasFiles DEF CodeInv, EntitiesAreThere, RelationsAreThere, Range
<1>5. AnsweredIsStored'
  <2> HIDE DEF batch
  <2> QED
    BY <1>1, <1>4 DEF CodeInv, AnsweredIsStored, IdsOf, Asserted
<1> QED
  BY <1>2, <1>3, <1>5 DEF CodeInv

LEMMA CodeStep == CodeInv /\ [CodeNext]_codeVars => CodeInv'
<1> SUFFICES ASSUME CodeInv, [CodeNext]_codeVars PROVE CodeInv'
  OBVIOUS
<1>1. ASSUME NEW r \in Requests, Abort(r) PROVE CodeInv'
  BY <1>1, DropInv DEF Abort
<1>2. CASE UNCHANGED codeVars
  BY <1>2 DEF codeVars, CodeInv, RequestsOK, EntitiesAreThere, RelationsAreThere, Asserted,
    AnsweredIsStored
<1> QED
  BY <1>1, <1>2, ReceiveInv, CreateDatasetInv, InsertEntitiesInv, AssertRelationsInv, AnswerInv
  DEF CodeNext

-----------------------------------------------------------------------------

(* What a client was told is ingested stays stored, with the relations       *)
(* between the symbols of each file, whatever other requests do and wherever *)
(* they die (ingest_codebase, sync_codebase_file, index_directory).           *)
THEOREM AnswersAreStored == CodeSpec => []AnsweredIsStored
<1>1. CodeInv => AnsweredIsStored
  BY DEF CodeInv
<1> QED
  BY CodeInitInv, CodeStep, <1>1, PTL DEF CodeSpec

-----------------------------------------------------------------------------
(* Migrations.  The objects that come and go together are a group, numbered *)
(* 10 r, 10 r + 1, ... after the revision r that adds them.                 *)

Group(m) ==
  CASE m = 10 -> Tables({"projects", "api_keys"})
    [] m = 20 -> Tables({"datasets", "documents"})
    [] m = 21 -> Types({"dataset_status"})
    [] m = 22 -> Types({"document_status"})
    [] m = 30 -> Tables({"indexing_jobs", "chunks", "indexing_artifacts",
                         "indexing_stage_events"})
    [] m = 31 -> Types({"indexing_job_status"})
    [] m = 32 -> Types({"indexing_stage"})
    [] m = 40 -> QueryLogTables
    [] m = 50 -> Tables({"indexing_outbox"})
    [] m = 60 -> Tables(GraphTables)
    [] m = 61 -> KeptTimestamps
    [] m = 70 -> Tables({"graph_extraction_jobs", "graph_extraction_outbox"})
    [] m = 71 -> Parts("documents", {"graph_stage"})
    [] m = 80 -> AddedTimestamps
    [] m = 90 -> CleanupOutbox.up.create
    [] m = 100 -> CleanupLeases.up.create
    [] m = 110 -> MemoryTables \cup MemoryIndexes
    [] m = 111 -> Types({"memory_fact_status"})
    [] m = 120 -> Analytics.up.create
    [] m = 130 -> ReportTables \cup ReportIndexes
    [] m = 131 -> ReportInput
    [] m = 132 -> Types({"community_report_status"})
    [] m = 140 -> HierarchyParts
    [] m = 141 -> ReportLevels
    [] m = 180 -> Consolidated
    [] m = 181 -> RawExtraction
    [] m = 190 -> TemporalParts
    [] m = 210 -> AgentMemory.up.create \ StatusCheck
    [] m = 211 -> StatusCheck
    [] m = 220 -> MemoryTimestamps.up.create
    [] m = 230 -> SupersessionIntegrity.up.create
    [] m = 240 -> LegalHold.up.create
    [] m = 250 -> RetentionPolicy.up.create
    [] m = 260 -> Tables({"agent_memory_versions"})
    [] m = 261 -> MemoryTypes.up.create \ Tables({"agent_memory_versions"})
    [] m = 280 -> Parts("chunks", {"embedding"})
    [] m = 281 -> Parts("agent_memory_episodes", {"embedding"})
    [] m = 282 -> Types({"vector"})

Marks == {10, 20, 21, 22, 30, 31, 32, 40, 50, 60, 61, 70, 71, 80, 90, 100, 110, 111, 120, 130,
          131, 132, 140, 141, 180, 181, 190, 210, 211, 220, 230, 240, 250, 260, 261, 280, 281,
          282}
Dropped == {40, 110, 130, 131, 141}     \* those that 0015 drops
Early == {80, 181, 190, 282}            \* those that may be there before their revision

Objects(M) == UNION {Group(m) : m \in M}

(* The groups a database at revision v has.                                  *)
Firm(v) == {m \in Marks : m <= 10 * v + 9 /\ (m \in Dropped => v < 15)}

(* A schema of revision v: it has these, and nothing else but early ones.     *)
Fits(db, v) == Objects(Firm(v)) \subseteq db /\ db \subseteq Objects(Firm(v) \cup Early)

-----------------------------------------------------------------------------
(* An object is in one group only: the group follows from its name.         *)

TypeMark(p) ==
  IF p = "dataset_status" THEN 21
  ELSE IF p = "document_status" THEN 22
  ELSE IF p = "indexing_job_status" THEN 31
  ELSE IF p = "indexing_stage" THEN 32
  ELSE IF p = "memory_fact_status" THEN 111
  ELSE IF p = "community_report_status" THEN 132
  ELSE IF p = "vector" THEN 282
  ELSE 0
TableMark(t) ==
  IF t \in {"projects", "api_keys"} THEN 10
  ELSE IF t \in {"datasets", "documents"} THEN 20
  ELSE IF t \in {"indexing_jobs", "chunks", "indexing_artifacts", "indexing_stage_events"} THEN 30
  ELSE IF t = "query_logs" THEN 40
  ELSE IF t = "indexing_outbox" THEN 50
  ELSE IF t \in GraphTables THEN 60
  ELSE IF t \in {"graph_extraction_jobs", "graph_extraction_outbox"} THEN 70
  ELSE IF t = "graph_cleanup_outbox" THEN 90
  ELSE IF <<t, "table">> \in MemoryTables THEN 110
  ELSE IF <<t, "table">> \in Analytics.up.create THEN 120
  ELSE IF <<t, "table">> \in ReportTables THEN 130
  ELSE IF t \in {"graph_consolidation_runs", "entity_alias_evidence"} THEN 180
  ELSE IF <<t, "table">> \in AgentMemory.up.create THEN 210
  ELSE IF t = "legal_holds" THEN 240
  ELSE IF t \in {"retention_policies", "audit_logs", "idempotency_keys"} THEN 250
  ELSE IF t = "agent_memory_versions" THEN 260
  ELSE 0
PartMark(t, p) ==
  IF t \in GraphTables
  THEN IF p = "raw_extraction" THEN 181 ELSE IF p \in Temporal THEN 190
       ELSE IF p = "created_at" /\ t \in UpdatedOnly THEN 61 ELSE 80
  ELSE IF t = "documents" THEN 71
  ELSE IF t = "chunks" THEN 280
  ELSE IF t = "graph_cleanup_outbox" THEN 100
  ELSE IF TableMark(t) = 120 THEN IF p = "ix_latest" THEN 120 ELSE 140
  ELSE IF TableMark(t) = 130
  THEN IF p = "uq_input" THEN 131 ELSE IF p \in {"level", "ck_level"} THEN 141 ELSE 130
  ELSE IF t = "agent_memory_episodes"
  THEN IF p = "embedding" THEN 281 ELSE IF p = "ck_status" THEN 211 ELSE 261
  ELSE IF t = "agent_memory_patterns" THEN 230
  ELSE IF TableMark(t) = 210 THEN 220
  ELSE TableMark(t)
Mark(t, p) ==
  IF t = "type" THEN TypeMark(p) ELSE IF p = "table" THEN TableMark(t) ELSE PartMark(t, p)

TypeMarks == {21, 22, 31, 32, 111, 132, 282}
(* The group of the tables whose parts a group holds; 0 for types.           *)
Host(m) ==
  IF m \in TypeMarks THEN 0
  ELSE IF m \in {61, 80, 181, 190} THEN 60
  ELSE IF m = 71 THEN 20
  ELSE IF m = 100 THEN 90
  ELSE IF m = 140 THEN 120
  ELSE IF m \in {131, 141} THEN 130
  ELSE IF m \in {211, 220, 230, 261, 281} THEN 210
  ELSE IF m = 280 THEN 30
  ELSE m

Marked(m) ==
  \A o \in Group(m) :
    /\ Mark(o[1], o[2]) = m
    /\ IF Host(m) = 0 THEN o[1] = "type" ELSE TableOf(o) \in Group(Host(m))

LEMMA GroupsAreMarked == \A m \in Marks : Marked(m)
<1> USE DEF Marked, TypeMarks, Mark, TypeMark, TableMark, PartMark, TableOf, Tables, Parts,
            Types, GraphTables, UpdatedOnly, Temporal, MemoryTables, ReportTables, Analytics,
            AgentMemory, StatusCheck, Adds, Create
<1>1. \A m \in TypeMarks : Marked(m)
  <2>1. \A m \in TypeMarks : Host(m) = 0
    BY DEF Host
  <2>2. /\ Group(21) = Types({"dataset_status"}) /\ Group(22) = Types({"document_status"})
        /\ Group(31) = Types({"indexing_job_status"}) /\ Group(32) = Types({"indexing_stage"})
        /\ Group(111) = Types({"memory_fact_status"})
        /\ Group(132) = Types({"community_report_status"}) /\ Group(282) = Types({"vector"})
    BY DEF Group
  <2> QED
    BY <2>1, <2>2
<1>10. Marked(10)
  <2>1. Host(10) = 10 /\ Group(10) = Tables({"projects", "api_keys"})
    BY DEF Host, Group
  <2> QED
    BY <2>1
<1>20. Marked(20) /\ Marked(71)
  <2>1. /\ Host(20) = 20 /\ Group(20) = Tables({"datasets", "documents"})
        /\ Host(71) = 20 /\ Group(71) = Parts("documents", {"graph_stage"})
    BY DEF Host, Group
  <2>2. Marked(20)
    BY <2>1
  <2>3. Marked(71)
    BY <2>1
  <2> QED
    BY <2>2, <2>3
<1>30. Marked(30) /\ Marked(280)
  <2>1. /\ Host(30) = 30 /\ Group(30)
          = Tables({"indexing_jobs", "chunks", "indexing_artifacts", "indexing_stage_events"})
        /\ Host(280) = 30 /\ Group(280) = Parts("chunks", {"embedding"})
    BY DEF Host, Group
  <2>2. Marked(30)
    BY <2>1
  <2>3. Marked(280)
    BY <2>1
  <2> QED
    BY <2>2, <2>3
<1>40. Marked(40)
  <2>1. Host(40) = 40 /\ Group(40) = QueryLogTables
    BY DEF Host, Group
  <2> QED
    BY <2>1 DEF QueryLogTables
<1>50. Marked(50)
  <2>1. Host(50) = 50 /\ Group(50) = Tables({"indexing_outbox"})
    BY DEF Host, Group
  <2> QED
    BY <2>1
<1>60. Marked(60) /\ Marked(61) /\ Marked(80) /\ Marked(181) /\ Marked(190)
  <2>1. /\ Host(60) = 60 /\ Group(60) = Tables(GraphTables)
        /\ Host(61) = 60 /\ Group(61) = KeptTimestamps
        /\ Host(80) = 60 /\ Group(80) = AddedTimestamps
        /\ Host(181) = 60 /\ Group(181) = RawExtraction
        /\ Host(190) = 60 /\ Group(190) = TemporalParts
    BY DEF Host, Group
  <2>2. Marked(60)
    BY <2>1
  <2>3. Marked(61)
    BY <2>1 DEF Timestamps, KeptTimestamps
  <2>4. Marked(80)
    BY <2>1 DEF Timestamps, KeptTimestamps, AddedTimestamps
  <2>5. Marked(181)
    BY <2>1 DEF RawExtraction
  <2>6. Marked(190)
    BY <2>1 DEF TemporalParts
  <2> QED
    BY <2>2, <2>3, <2>4, <2>5, <2>6
<1>70. Marked(70)
  <2>1. Host(70) = 70 /\ Group(70) = Tables({"graph_extraction_jobs", "graph_extraction_outbox"})
    BY DEF Host, Group
  <2> QED
    BY <2>1
<1>90. Marked(90) /\ Marked(100)
  <2>1. /\ Host(90) = 90 /\ Group(90) = CleanupOutbox.up.create
        /\ Host(100) = 90 /\ Group(100) = CleanupLeases.up.create
    BY DEF Host, Group
  <2>2. Marked(90)
    BY <2>1 DEF CleanupOutbox
  <2>3. Marked(100)
    BY <2>1 DEF CleanupOutbox, CleanupLeases
  <2> QED
    BY <2>2, <2>3
<1>110. Marked(110)
  <2>1. Host(110) = 110 /\ Group(110) = MemoryTables \cup MemoryIndexes
    BY DEF Host, Group
  <2> QED
    BY <2>1 DEF MemoryIndexes
<1>120. Marked(120) /\ Marked(140)
  <2>1. /\ Host(120) = 120 /\ Group(120) = Analytics.up.create
        /\ Host(140) = 120 /\ Group(140) = HierarchyParts
    BY DEF Host, Group
  <2>2. Marked(120)
    BY <2>1
  <2>3. Marked(140)
    BY <2>1 DEF HierarchyParts
  <2> QED
    BY <2>2, <2>3
<1>130. Marked(130) /\ Marked(131) /\ Marked(141)
  <2>1. /\ Host(130) = 130 /\ Group(130) = ReportTables \cup ReportIndexes
        /\ Host(131) = 130 /\ Group(131) = ReportInput
        /\ Host(141) = 130 /\ Group(141) = ReportLevels
    BY DEF Host, Group
  <2>2. Marked(130)
    BY <2>1 DEF ReportIndexes
  <2>3. Marked(131)
    BY <2>1 DEF ReportIndexes, ReportInput
  <2>4. Marked(141)
    BY <2>1 DEF ReportIndexes, ReportLevels
  <2> QED
    BY <2>2, <2>3, <2>4
<1>180. Marked(180)
  <2>1. Host(180) = 180 /\ Group(180) = Consolidated
    BY DEF Host, Group
  <2> QED
    BY <2>1 DEF Consolidated
<1>210. Marked(210) /\ Marked(211) /\ Marked(220) /\ Marked(230) /\ Marked(261) /\ Marked(281)
  <2>1. /\ Host(210) = 210 /\ Group(210) = AgentMemory.up.create \ StatusCheck
        /\ Host(211) = 210 /\ Group(211) = StatusCheck
        /\ Host(220) = 210 /\ Group(220) = MemoryTimestamps.up.create
        /\ Host(230) = 210 /\ Group(230) = SupersessionIntegrity.up.create
        /\ Host(261) = 210
          /\ Group(261) = MemoryTypes.up.create \ Tables({"agent_memory_versions"})
        /\ Host(281) = 210 /\ Group(281) = Parts("agent_memory_episodes", {"embedding"})
    BY DEF Host, Group
  <2>2. Marked(210)
    BY <2>1
  <2>3. Marked(211)
    BY <2>1
  <2>4. Marked(220)
    BY <2>1 DEF MemoryTimestamps
  <2>5. Marked(230)
    BY <2>1 DEF SupersessionIntegrity
  <2>6. Marked(261)
    BY <2>1 DEF MemoryTypes
  <2>7. Marked(281)
    BY <2>1
  <2> QED
    BY <2>2, <2>3, <2>4, <2>5, <2>6, <2>7
<1>240. Marked(240)
  <2>1. Host(240) = 240 /\ Group(240) = LegalHold.up.create
    BY DEF Host, Group
  <2> QED
    BY <2>1 DEF LegalHold
<1>250. Marked(250)
  <2>1. Host(250) = 250 /\ Group(250) = RetentionPolicy.up.create
    BY DEF Host, Group
  <2> QED
    BY <2>1 DEF RetentionPolicy
<1>260. Marked(260)
  <2>1. Host(260) = 260 /\ Group(260) = Tables({"agent_memory_versions"})
    BY DEF Host, Group
  <2> QED
    BY <2>1
<1> HIDE DEF Marked
<1> QED
  BY <1>1, <1>10, <1>20, <1>30, <1>40, <1>50, <1>60, <1>70, <1>90,
     <1>110, <1>120, <1>130, <1>180, <1>210, <1>240, <1>250, <1>260 DEF Marks, TypeMarks
-----------------------------------------------------------------------------
(* Objects of groups *)

LEMMA ObjectsOfGroups ==
  /\ Objects({}) = {}
  /\ \A m : Objects({m}) = Group(m)
  /\ \A m, n : Objects({m, n}) = Group(m) \cup Group(n)
  /\ \A k, m, n : Objects({k, m, n}) = Group(k) \cup Group(m) \cup Group(n)
  /\ \A M, N : Objects(M \cup N) = Objects(M) \cup Objects(N)
  BY DEF Objects

LEMMA OneGroup ==
  ASSUME NEW m \in Marks, NEW n \in Marks, NEW o \in Group(m), o \in Group(n)
  PROVE  m = n
  BY GroupsAreMarked DEF Marked

(* The table of a part is in the group of the part's host, or in none.       *)
LEMMA HostOfPart ==
  ASSUME NEW m \in Marks, NEW n \in Marks, NEW o \in Group(m), TableOf(o) \in Group(n)
  PROVE  Host(m) = n
<1>1. CASE Host(m) = 0
  <2>1. o[1] = "type"
    BY <1>1, GroupsAreMarked DEF Marked
  <2>2. TableOf(o)[1] = "type" /\ TableOf(o)[2] = "table"
    BY <2>1 DEF TableOf
  <2>3. Mark("type", "table") = n
    BY <2>2, GroupsAreMarked DEF Marked
  <2> QED
    BY <2>3 DEF Mark, TypeMark, Marks
<1>2. CASE Host(m) # 0
  <2>1. TableOf(o) \in Group(Host(m))
    BY <1>2, GroupsAreMarked DEF Marked
  <2>2. Host(m) \in Marks
    BY <1>2 DEF Host, Marks, TypeMarks
  <2> QED
    BY <2>1, <2>2, OneGroup
<1> QED
  BY <1>1, <1>2

(* A script drops, ensures and creates groups; of what it drops it may name  *)
(* only the tables.                                                          *)
Uses(s, D, E, C) ==
  /\ s.drop \subseteq Objects(D)
  /\ \A o \in Objects(D) : o \in s.drop \/ TableOf(o) \in s.drop
  /\ s.ensure = Objects(E)
  /\ s.create = Objects(C)

(* It takes a database with the groups H to one with the groups K.           *)
Moves(H, D, E, C, K) ==
  /\ D \subseteq H /\ E \subseteq Marks /\ C \subseteq Marks
  /\ \A m \in H \cup Early : Host(m) \in D => m \in D
  /\ \A m \in C : m \in (H \cup Early) => m \in D
  /\ \A m \in E \cup C : Host(m) = 0 \/ Host(m) \in (H \ D) \cup E \cup C
  /\ K \subseteq (H \ D) \cup E \cup C
  /\ (H \ D) \cup E \cup C \subseteq K \cup Early

LEMMA ScriptMoves ==
  ASSUME NEW db, NEW v, NEW w, Fits(db, v),
         NEW s, NEW D, NEW E, NEW C, Uses(s, D, E, C), Moves(Firm(v), D, E, C, Firm(w))
  PROVE  Executes(db, s) /\ Fits(After(db, s), w)
<1> DEFINE H == Firm(v)
           left == Without(db, s.drop)
           next == After(db, s)
<1>1. /\ H \subseteq Marks /\ Early \subseteq Marks /\ D \subseteq Marks
      /\ E \subseteq Marks /\ C \subseteq Marks
  BY DEF Moves, Firm, Early, Marks
<1>2. Objects(H \ D) \subseteq left
  <2> SUFFICES ASSUME NEW m \in H \ D, NEW o \in Group(m)
               PROVE  o \in left
    BY DEF Objects
  <2>1. o \in db
    BY DEF Fits, Objects
  <2>2. o \notin s.drop
    BY <1>1, OneGroup DEF Objects, Uses
  <2>3. ASSUME NEW n \in D, TableOf(o) \in Group(n) PROVE FALSE
    <3>1. Host(m) = n
      BY <1>1, <2>3, HostOfPart
    <3> QED
      BY <3>1 DEF Moves
  <2> QED
    BY <2>1, <2>2, <2>3 DEF Without, Objects, Uses
<1>3. left \subseteq Objects((H \cup Early) \ D)
  BY DEF Fits, Without, Objects, Uses
<1>4. next = left \cup Objects(E) \cup Objects(C)
  BY DEF After, Uses
<1>5. s.drop \subseteq db
  BY DEF Fits, Moves, Objects, Uses
<1>6. Objects(C) \cap left = {}
  <2> SUFFICES ASSUME NEW m \in C, NEW o \in Group(m), o \in left PROVE FALSE
    BY DEF Objects
  <2>1. PICK n \in (H \cup Early) \ D : o \in Group(n)
    BY <1>3 DEF Objects
  <2>2. m = n
    BY <1>1, <2>1, OneGroup
  <2> QED
    BY <2>1, <2>2 DEF Moves
<1>7. ASSUME NEW m \in E \cup C, NEW o \in Group(m)
      PROVE  o[1] = "type" \/ TableOf(o) \in next
  <2>1. CASE Host(m) = 0
    BY <1>1, <2>1, GroupsAreMarked DEF Marked
  <2>2. CASE Host(m) # 0
    <3>1. TableOf(o) \in Group(Host(m))
      BY <1>1, <2>2, GroupsAreMarked DEF Marked
    <3>2. Host(m) \in (H \ D) \cup E \cup C
      BY <2>2 DEF Moves
    <3> QED
      BY <3>1, <3>2, <1>2, <1>4 DEF Objects
  <2> QED
    BY <2>1, <2>2
<1>8. Executes(db, s)
  <2>1. \A o \in Objects(E) \cup Objects(C) : o[1] = "type" \/ TableOf(o) \in next
    BY <1>7 DEF Objects
  <2> HIDE DEF left, next
  <2> QED
    BY <1>5, <1>6, <2>1 DEF Executes, Uses, left, next
<1>9. Objects(Firm(w)) \subseteq next
  <2>1. Firm(w) \subseteq (H \ D) \cup E \cup C
    BY DEF Moves
  <2> QED
    BY <2>1, <1>2, <1>4 DEF Objects
<1>10. next \subseteq Objects(Firm(w) \cup Early)
  <2>1. ((H \cup Early) \ D) \cup E \cup C \subseteq Firm(w) \cup Early
    BY DEF Moves
  <2> QED
    BY <2>1, <1>3, <1>4 DEF Objects
<1> QED
  BY <1>8, <1>9, <1>10 DEF Fits

(* One revision takes a schema of a revision to one of its neighbour.        *)
Follows(s, v, w) ==
  \E D, E, C : Uses(s, D, E, C) /\ Moves(Firm(v), D, E, C, Firm(w))

(* The groups that a revision adds.                                          *)
New(r) == {m \in Marks : 10 * r <= m /\ m <= 10 * r + 9}

LEMMA NewGroups ==
  /\ New(1) = {10} /\ New(2) = {20, 21, 22} /\ New(3) = {30, 31, 32} /\ New(4) = {40}
  /\ New(5) = {50} /\ New(6) = {60, 61} /\ New(7) = {70, 71} /\ New(8) = {80}
  /\ New(9) = {90} /\ New(10) = {100} /\ New(11) = {110, 111} /\ New(12) = {120}
  /\ New(13) = {130, 131, 132} /\ New(14) = {140, 141} /\ New(15) = {} /\ New(16) = {}
  /\ New(17) = {} /\ New(18) = {180, 181} /\ New(19) = {190} /\ New(20) = {}
  /\ New(21) = {210, 211} /\ New(22) = {220} /\ New(23) = {230} /\ New(24) = {240}
  /\ New(25) = {250} /\ New(26) = {260, 261} /\ New(27) = {} /\ New(28) = {280, 281, 282}
  BY DEF New, Marks

(* A part is not added before its table, nor dropped after it.               *)
LEMMA HostsComeFirst ==
  /\ \A m \in Marks : \/ Host(m) = 0
                      \/ /\ Host(m) \in Marks /\ Host(m) <= m
                         /\ Host(m) \in Dropped => m \in Dropped
  /\ \A m \in Early : Host(m) \in {0, 60}
  /\ \A m \in Dropped : m <= 149
  /\ Early \subseteq Marks
  /\ \A m \in Marks : m \in Int
  BY DEF Marks, Host, TypeMarks, Early, Dropped

LEMMA FirmGrows ==
  ASSUME NEW r \in 1..28, r # 15
  PROVE  /\ Firm(r) = Firm(r - 1) \cup New(r)
         /\ Firm(r - 1) \cap New(r) = {}
         /\ Firm(r - 1) \subseteq Marks /\ New(r) \subseteq Marks
         /\ \A m \in Firm(r - 1) : Host(m) = 0 \/ Host(m) \in Firm(r - 1)
         /\ \A m \in New(r) : Host(m) = 0 \/ Host(m) \in Firm(r)
<1>1. ASSUME NEW m \in Marks
      PROVE  /\ m \in Firm(r - 1) <=> m <= 10 * r - 1 /\ (m \in Dropped => r <= 15)
             /\ m \in Firm(r) <=> m <= 10 * r + 9 /\ (m \in Dropped => r < 15)
             /\ m \in New(r) <=> 10 * r <= m /\ m <= 10 * r + 9
             /\ m \in Int /\ (m \in Dropped => m <= 149)
  <2>1. m \in Int /\ (m \in Dropped => m <= 149)
    BY HostsComeFirst
  <2>2. 10 * (r - 1) + 9 = 10 * r - 1 /\ (r - 1 < 15 <=> r <= 15)
    OBVIOUS
  <2> QED
    BY <2>1, <2>2 DEF Firm, New
<1>2. /\ Firm(r - 1) \subseteq Marks /\ Firm(r) \subseteq Marks /\ New(r) \subseteq Marks
  BY DEF Firm, New
<1>3. ASSUME NEW m \in Marks
      PROVE  /\ m \in Firm(r) <=> m \in Firm(r - 1) \/ m \in New(r)
             /\ ~(m \in Firm(r - 1) /\ m \in New(r))
  BY <1>1
<1>4. ASSUME NEW m \in Marks
      PROVE  /\ m \in Firm(r - 1) => Host(m) = 0 \/ Host(m) \in Firm(r - 1)
             /\ m \in New(r) => Host(m) = 0 \/ Host(m) \in Firm(r)
  BY <1>1, HostsComeFirst
<1> QED
  BY <1>2, <1>3, <1>4

LEMMA UpMoves ==
  ASSUME NEW r \in 1..28, r # 15,
         NEW D, D \subseteq Firm(r - 1), \A m \in Marks : Host(m) \notin D,
         NEW E, E \subseteq Firm(r) \cup Early, New(r) \cap Early \subseteq E,
         \A m \in E : Host(m) = 0 \/ Host(m) \in Firm(r),
         NEW C, C = D \cup (New(r) \ E)
  PROVE  Moves(Firm(r - 1), D, E, C, Firm(r))
<1>1. Firm(r - 1) \subseteq Marks /\ Firm(r) \subseteq Marks /\ New(r) \subseteq Marks
  BY FirmGrows
<1>2. Firm(r) = Firm(r - 1) \cup New(r)
  BY FirmGrows
<1>3. Firm(r - 1) \cap New(r) = {}
  BY FirmGrows
<1>4. ASSUME NEW m \in New(r) \cup D PROVE Host(m) = 0 \/ Host(m) \in Firm(r)
  BY <1>2, <1>4, FirmGrows
<1>5. ASSUME NEW m \in C, m \in Firm(r - 1) \cup Early PROVE m \in D
  BY <1>3, <1>5
<1>6. ASSUME NEW m \in E \cup C
      PROVE  Host(m) = 0 \/ Host(m) \in (Firm(r - 1) \ D) \cup E \cup C
  BY <1>1, <1>2, <1>4, HostsComeFirst
<1>7. (Firm(r - 1) \ D) \cup E \cup C \subseteq Firm(r) \cup Early
  BY <1>2
<1>8. Firm(r) \subseteq (Firm(r - 1) \ D) \cup E \cup C
  BY <1>2
<1>9. E \subseteq Marks /\ C \subseteq Marks
  BY <1>1, HostsComeFirst
<1>10. \A m \in Firm(r - 1) \cup Early : Host(m) \notin D
  BY <1>1, HostsComeFirst
<1> QED
  BY <1>5, <1>6, <1>7, <1>8, <1>9, <1>10 DEF Moves

LEMMA DownMoves ==
  ASSUME NEW r \in 8..28, r # 15,
         NEW D, D \subseteq Firm(r - 1), \A m \in Marks : Host(m) \notin D,
         NEW G, D \subseteq G, G \subseteq D \cup New(r),
         \A m \in New(r) : m \in G \/ (m \in Early /\ Host(m) = 0)
  PROVE  Moves(Firm(r), G, {}, D, Firm(r - 1))
<1>1. Firm(r - 1) \subseteq Marks /\ Firm(r) \subseteq Marks /\ New(r) \subseteq Marks
  BY FirmGrows
<1>2. Firm(r) = Firm(r - 1) \cup New(r)
  BY FirmGrows
<1>3. Firm(r - 1) \cap New(r) = {}
  BY FirmGrows
<1>4. ASSUME NEW m \in Firm(r) \cup Early, Host(m) \in G PROVE m \in G
  <2>1. m \in Marks /\ Host(m) \in New(r)
    BY <1>1, <1>4, HostsComeFirst
  <2>2. 10 * r <= Host(m) /\ Host(m) <= m /\ m \in Int /\ Host(m) # 0
    BY <2>1, HostsComeFirst DEF New
  <2>3. m \notin Early
    BY <2>2, HostsComeFirst
  <2>4. m \in New(r)
    <3>1. m \notin Firm(r - 1)
      BY <1>3, <2>1, <2>2, FirmGrows
    <3> QED
      BY <1>2, <1>4, <2>3, <3>1
  <2> QED
    BY <2>3, <2>4
<1>5. ASSUME NEW m \in D PROVE Host(m) = 0 \/ Host(m) \in (Firm(r) \ G) \cup D
  <2>1. m \in Firm(r - 1) /\ Host(m) \notin D
    BY <1>1
  <2>2. Host(m) = 0 \/ Host(m) \in Firm(r - 1)
    BY <2>1, FirmGrows
  <2> QED
    BY <1>2, <1>3, <2>1, <2>2
<1>6. Firm(r - 1) \subseteq (Firm(r) \ G) \cup D
  BY <1>2, <1>3
<1>7. (Firm(r) \ G) \cup D \subseteq Firm(r - 1) \cup Early
  BY <1>2
<1>8. G \subseteq Firm(r) /\ D \subseteq G /\ D \subseteq Marks
  BY <1>1, <1>2
<1> QED
  BY <1>4, <1>5, <1>6, <1>7, <1>8 DEF Moves

LEMMA UpFollows ==
  ASSUME NEW v, NEW r \in 1..28, v = r - 1, r # 15,
         NEW s, NEW D, NEW E, NEW C, Uses(s, D, E, C),
         D \subseteq Firm(v), \A m \in Marks : Host(m) \notin D,
         E \subseteq Firm(r) \cup Early, New(r) \cap Early \subseteq E,
         \A m \in E : Host(m) = 0 \/ Host(m) \in Firm(r),
         C = D \cup (New(r) \ E)
  PROVE  Follows(s, v, r)
<1>1. Moves(Firm(r - 1), D, E, C, Firm(r))
  BY UpMoves
<1> QED
  BY <1>1 DEF Follows

LEMMA DownFollows ==
  ASSUME NEW v, NEW r \in 8..28, v = r - 1, r # 15,
         NEW s, NEW D, NEW G, Uses(s, G, {}, D),
         D \subseteq Firm(v), \A m \in Marks : Host(m) \notin D,
         D \subseteq G, G \subseteq D \cup New(r),
         \A m \in New(r) : m \in G \/ (m \in Early /\ Host(m) = 0)
  PROVE  Follows(s, r, v)
<1>1. Moves(Firm(r), G, {}, D, Firm(r - 1))
  BY DownMoves
<1> QED
  BY <1>1 DEF Follows

-----------------------------------------------------------------------------
(* The scripts *)

LEMMA AddsFollow ==
  ASSUME NEW r \in 1..28, r # 15, New(r) \cap Early = {}
  PROVE  /\ Follows(Adds(Objects(New(r))).up, r - 1, r)
         /\ r >= 8 => Follows(Adds(Objects(New(r))).down, r, r - 1)
<1> DEFINE X == Objects(New(r))
<1>1. Uses(Adds(X).up, {}, {}, New(r)) /\ Uses(Adds(X).down, New(r), {}, {})
  BY ObjectsOfGroups DEF Uses, Adds, Create, Drop
<1>2. Moves(Firm(r - 1), {}, {}, New(r), Firm(r))
  BY UpMoves
<1>3. ASSUME r >= 8 PROVE Moves(Firm(r), New(r), {}, {}, Firm(r - 1))
  <2>1. r \in 8..28
    BY <1>3
  <2> QED
    BY <2>1, DownMoves
<1> HIDE DEF X
<1> QED
  BY <1>1, <1>2, <1>3 DEF Follows, X

(* The revisions that add groups, and nothing else.                          *)
Additions == {1, 2, 3, 4, 5, 7, 9, 10, 12, 17, 20, 21, 22, 23, 24, 25, 26}

LEMMA AdditionScripts ==
  ASSUME NEW r \in Additions, NEW release
  PROVE  Script(r, release) = Adds(Objects(New(r)))
<1>1. CASE r = 1
  <2>1. Group(10) = Tables({"projects", "api_keys"})
    BY DEF Group
  <2> QED
    BY <1>1, <2>1, NewGroups, ObjectsOfGroups DEF Script, Foundation
<1>2. CASE r = 2
  <2>1. Group(20) \cup Group(21) \cup Group(22) = Tables({"datasets", "documents"})
          \cup Types({"document_status", "dataset_status"})
    BY DEF Group, Types, Parts
  <2>0. Objects(New(2)) = Group(20) \cup Group(21) \cup Group(22)
    BY NewGroups, ObjectsOfGroups
  <2> QED
    BY <1>2, <2>1, <2>0 DEF Script, DatasetsDocuments
<1>3. CASE r = 3
  <2>1. Group(30) \cup Group(31) \cup Group(32)
          = Tables({"indexing_jobs", "chunks", "indexing_artifacts", "indexing_stage_events"})
            \cup Types({"indexing_job_status", "indexing_stage"})
    BY DEF Group, Types, Parts
  <2>0. Objects(New(3)) = Group(30) \cup Group(31) \cup Group(32)
    BY NewGroups, ObjectsOfGroups
  <2> QED
    BY <1>3, <2>1, <2>0 DEF Script, IngestionPipeline
<1>4. CASE r = 4
  <2>1. Group(40) = QueryLogTables
    BY DEF Group
  <2> QED
    BY <1>4, <2>1, NewGroups, ObjectsOfGroups DEF Script, QueryLogs
<1>5. CASE r = 5
  <2>1. Group(50) = Tables({"indexing_outbox"})
    BY DEF Group
  <2> QED
    BY <1>5, <2>1, NewGroups, ObjectsOfGroups DEF Script, IndexingOutbox
<1>7. CASE r = 7
  <2>1. Group(70) \cup Group(71) = Tables({"graph_extraction_jobs", "graph_extraction_outbox"})
            \cup Parts("documents", {"graph_stage"})
    BY DEF Group
  <2>0. Objects(New(7)) = Group(70) \cup Group(71)
    BY NewGroups, ObjectsOfGroups
  <2> QED
    BY <1>7, <2>1, <2>0 DEF Script, GraphOutbox
<1>9. CASE r = 9
  <2>1. Group(90) = CleanupOutbox.up.create
    BY DEF Group
  <2>2. CleanupOutbox = Adds(CleanupOutbox.up.create)
    BY DEF CleanupOutbox, Adds, Create
  <2> QED
    BY <1>9, <2>1, <2>2, NewGroups, ObjectsOfGroups DEF Script
<1>10. CASE r = 10
  <2>1. Group(100) = CleanupLeases.up.create
    BY DEF Group
  <2>2. CleanupLeases = Adds(CleanupLeases.up.create)
    BY DEF CleanupLeases, Adds, Create
  <2> QED
    BY <1>10, <2>1, <2>2, NewGroups, ObjectsOfGroups DEF Script
<1>12. CASE r = 12
  <2>1. Group(120) = Analytics.up.create
    BY DEF Group
  <2>2. Analytics = Adds(Analytics.up.create)
    BY DEF Analytics, Adds, Create
  <2> QED
    BY <1>12, <2>1, <2>2, NewGroups, ObjectsOfGroups DEF Script
<1>17. CASE r = 17
  BY <1>17, NewGroups, ObjectsOfGroups DEF Script, ExplorerIndexes
<1>20. CASE r = 20
  BY <1>20, NewGroups, ObjectsOfGroups DEF Script
<1>21. CASE r = 21
  <2>1. Group(210) \cup Group(211) = AgentMemory.up.create
    BY DEF Group, AgentMemory, Adds, Create
  <2>0. Objects(New(21)) = Group(210) \cup Group(211)
    BY NewGroups, ObjectsOfGroups
  <2>2. AgentMemory = Adds(AgentMemory.up.create)
    BY DEF AgentMemory, Adds, Create
  <2> QED
    BY <1>21, <2>1, <2>2, <2>0 DEF Script
<1>22. CASE r = 22
  <2>1. Group(220) = MemoryTimestamps.up.create
    BY DEF Group
  <2>2. MemoryTimestamps = Adds(MemoryTimestamps.up.create)
    BY DEF MemoryTimestamps, Adds, Create
  <2> QED
    BY <1>22, <2>1, <2>2, NewGroups, ObjectsOfGroups DEF Script
<1>23. CASE r = 23
  <2>1. Group(230) = SupersessionIntegrity.up.create
    BY DEF Group
  <2>2. SupersessionIntegrity = Adds(SupersessionIntegrity.up.create)
    BY DEF SupersessionIntegrity, Adds, Create
  <2> QED
    BY <1>23, <2>1, <2>2, NewGroups, ObjectsOfGroups DEF Script
<1>24. CASE r = 24
  <2>1. Group(240) = LegalHold.up.create
    BY DEF Group
  <2>2. LegalHold = Adds(LegalHold.up.create)
    BY DEF LegalHold, Adds, Create
  <2> QED
    BY <1>24, <2>1, <2>2, NewGroups, ObjectsOfGroups DEF Script
<1>25. CASE r = 25
  <2>1. Group(250) = RetentionPolicy.up.create
    BY DEF Group
  <2>2. RetentionPolicy = Adds(RetentionPolicy.up.create)
    BY DEF RetentionPolicy, Adds, Create
  <2> QED
    BY <1>25, <2>1, <2>2, NewGroups, ObjectsOfGroups DEF Script
<1>26. CASE r = 26
  <2>1. Group(260) \cup Group(261) = MemoryTypes.up.create
    BY DEF Group, MemoryTypes, Adds, Create
  <2>0. Objects(New(26)) = Group(260) \cup Group(261)
    BY NewGroups, ObjectsOfGroups
  <2>2. MemoryTypes = Adds(MemoryTypes.up.create)
    BY DEF MemoryTypes, Adds, Create
  <2> QED
    BY <1>26, <2>1, <2>2, <2>0 DEF Script
<1> QED
  BY <1>1, <1>2, <1>3, <1>4, <1>5, <1>7, <1>9, <1>10, <1>12, <1>17, <1>20, <1>21, <1>22,
     <1>23, <1>24, <1>25, <1>26 DEF Additions

LEMMA AdditionsFollow ==
  ASSUME NEW r \in Additions, NEW release
  PROVE  /\ Follows(Script(r, release).up, r - 1, r)
         /\ r >= 8 => Follows(Script(r, release).down, r, r - 1)
<1>1. r \in 1..28 /\ r # 15
  BY DEF Additions
<1>2. New(r) \cap Early = {}
  BY NewGroups DEF Additions, Early
<1> QED
  BY <1>1, <1>2, AddsFollow, AdditionScripts

(* 0006 ensures its tables with the columns its release has.                 *)
LEMMA GraphPersistenceFollows ==
  ASSUME NEW release PROVE Follows(GraphPersistence(release).up, 5, 6)
<1> DEFINE a == IF release >= 8 THEN {80} ELSE {}
           b == IF release >= 18 THEN {181} ELSE {}
           c == IF release >= 19 THEN {190} ELSE {}
           ahead == (a \cup b) \cup c
           E == {60, 61} \cup ahead
<1>1. Objects(ahead) = (IF release >= 8 THEN AddedTimestamps ELSE {})
                         \cup (IF release >= 18 THEN RawExtraction ELSE {})
                         \cup (IF release >= 19 THEN TemporalParts ELSE {})
  <2>1. /\ Group(80) = AddedTimestamps /\ Group(181) = RawExtraction
        /\ Group(190) = TemporalParts
    BY DEF Group
  <2>2. /\ Objects(a) = IF release >= 8 THEN AddedTimestamps ELSE {}
        /\ Objects(b) = IF release >= 18 THEN RawExtraction ELSE {}
        /\ Objects(c) = IF release >= 19 THEN TemporalParts ELSE {}
    BY <2>1, ObjectsOfGroups
  <2> HIDE DEF a, b, c
  <2>3. Objects(a \cup b) = Objects(a) \cup Objects(b)
    BY DEF Objects
  <2>4. Objects(ahead) = Objects(a \cup b) \cup Objects(c)
    BY DEF Objects
  <2> QED
    BY <2>2, <2>3, <2>4
<1>2. Objects({60, 61}) = Tables(GraphTables) \cup KeptTimestamps
  <2>1. Group(60) = Tables(GraphTables) /\ Group(61) = KeptTimestamps
    BY DEF Group
  <2> QED
    BY <2>1, ObjectsOfGroups
<1>3. Objects(E) = Objects({60, 61}) \cup Objects(ahead)
  BY ObjectsOfGroups
<1>4. ahead \subseteq Early
  BY DEF Early
<1> HIDE DEF ahead
<1>5. Uses(GraphPersistence(release).up, {}, E, {})
  BY <1>1, <1>2, <1>3, ObjectsOfGroups DEF Uses, GraphPersistence, Ensure
<1>6. Moves(Firm(5), {}, E, {}, Firm(6))
  <2>1. Firm(6) = Firm(5) \cup {60, 61}
    BY FirmGrows, NewGroups
  <2>2. \A m \in E : Host(m) = 0 \/ Host(m) \in Firm(6)
    BY <1>4, <2>1, HostsComeFirst DEF Host, TypeMarks
  <2>3. {} = {} \cup (New(6) \ E)
    BY NewGroups
  <2>4. E \subseteq Firm(6) \cup Early
    BY <1>4, <2>1
  <2>5. New(6) \cap Early \subseteq E
    BY NewGroups
  <2> HIDE DEF E
  <2> QED
    BY <2>2, <2>3, <2>4, <2>5, UpMoves
<1> QED
  BY <1>5, <1>6 DEF Follows

LEMMA ArtifactTimestampsFollow ==
  Follows(ArtifactTimestamps.up, 7, 8) /\ Follows(ArtifactTimestamps.down, 8, 7)
<1>1. Group(61) = KeptTimestamps /\ Group(80) = AddedTimestamps
  BY DEF Group
<1>2. KeptTimestamps \cup AddedTimestamps = Timestamps
  BY DEF AddedTimestamps, KeptTimestamps, Timestamps, UpdatedOnly, GraphTables
<1>3. Uses(ArtifactTimestamps.up, {}, {61, 80}, {})
  BY <1>1, <1>2, ObjectsOfGroups DEF Uses, ArtifactTimestamps, Ensure
<1>4. Uses(ArtifactTimestamps.down, {80}, {}, {})
  BY <1>1, ObjectsOfGroups DEF Uses, ArtifactTimestamps, Drop
<1>5. 61 \in Firm(8) /\ 60 \in Firm(8) /\ 80 \in Early /\ Host(61) = 60 /\ Host(80) = 60
  BY DEF Firm, Marks, Early, Dropped, Host, TypeMarks
<1>6. {} = {} \cup (New(8) \ {61, 80}) /\ {80} = {} \cup (New(8) \ {})
  BY NewGroups
<1>7. Follows(ArtifactTimestamps.up, 7, 8)
  BY <1>3, <1>5, <1>6, UpFollows
<1>8. Follows(ArtifactTimestamps.down, 8, 7)
  BY <1>4, <1>6, DownFollows
<1> QED
  BY <1>7, <1>8

LEMMA MemoryPreviewFollows ==
  Follows(MemoryPreview.up, 10, 11) /\ Follows(MemoryPreview.down, 11, 10)
<1>1. /\ Group(110) = MemoryTables \cup MemoryIndexes
      /\ Group(111) = Types({"memory_fact_status"})
  BY DEF Group
<1>2. Uses(MemoryPreview.up, {}, {111}, {110})
  BY <1>1, ObjectsOfGroups DEF Uses, MemoryPreview, Create
<1>3. Uses(MemoryPreview.down, {110, 111}, {}, {})
  <2>1. Objects({110, 111}) = Group(110) \cup Group(111) /\ Objects({}) = {}
    BY ObjectsOfGroups
  <2> QED
    BY <1>1, <2>1 DEF Uses, MemoryPreview, Drop
<1>4. 111 \in Firm(11) /\ Host(111) = 0
  BY DEF Firm, Marks, Dropped, Host, TypeMarks
<1>5. New(11) \cap Early \subseteq {111}
  BY NewGroups DEF Early
<1>6. {110} = {} \cup (New(11) \ {111}) /\ {110, 111} = {} \cup (New(11) \ {})
  BY NewGroups
<1>7. Follows(MemoryPreview.up, 10, 11)
  BY <1>2, <1>4, <1>5, <1>6, UpFollows
<1>8. Follows(MemoryPreview.down, 11, 10)
  BY <1>3, <1>6, DownFollows
<1> QED
  BY <1>7, <1>8

LEMMA CommunityReportsFollow ==
  Follows(CommunityReports.up, 12, 13) /\ Follows(CommunityReports.down, 13, 12)
<1>1. /\ Group(130) = ReportTables \cup ReportIndexes
      /\ Group(131) = ReportInput
      /\ Group(132) = Types({"community_report_status"})
  BY DEF Group
<1>2. /\ Objects({132}) = Group(132) /\ Objects({130, 131}) = Group(130) \cup Group(131)
      /\ Objects({130, 131, 132}) = Group(130) \cup Group(131) \cup Group(132)
      /\ Objects({}) = {}
  BY ObjectsOfGroups
<1>3. Uses(CommunityReports.up, {}, {132}, {130, 131})
  BY <1>1, <1>2 DEF Uses, CommunityReports, Create
<1>4. Uses(CommunityReports.down, {130, 131, 132}, {}, {})
  <2>1. \A o \in ReportInput : TableOf(o) \in ReportTables
    BY DEF ReportInput, Parts, TableOf, ReportTables, Tables
  <2>2. /\ CommunityReports.down.drop
              = ReportIndexes \cup ReportTables \cup Types({"community_report_status"})
        /\ CommunityReports.down.ensure = {} /\ CommunityReports.down.create = {}
    BY DEF CommunityReports, Drop
  <2>3. CommunityReports.down.drop \cup ReportInput = Objects({130, 131, 132})
    BY <1>1, <1>2, <2>2
  <2> QED
    BY <1>2, <2>1, <2>2, <2>3 DEF Uses
<1>5. 132 \in Firm(13) /\ Host(132) = 0
  BY DEF Firm, Marks, Dropped, Host, TypeMarks
<1>6. New(13) \cap Early \subseteq {132}
  BY NewGroups DEF Early
<1>7. /\ {130, 131} = {} \cup (New(13) \ {132}) /\ {130, 131, 132} = {} \cup (New(13) \ {})
  BY NewGroups
<1>8. Follows(CommunityReports.up, 12, 13)
  BY <1>3, <1>5, <1>6, <1>7, UpFollows
<1>9. Follows(CommunityReports.down, 13, 12)
  BY <1>4, <1>7, DownFollows
<1> QED
  BY <1>8, <1>9

LEMMA HierarchyFollows ==
  Follows(Hierarchy.up, 13, 14) /\ Follows(Hierarchy.down, 14, 13)
<1>1. /\ Group(131) = ReportInput /\ Group(140) = HierarchyParts /\ Group(141) = ReportLevels
  BY DEF Group
<1>2. /\ Objects({131}) = Group(131) /\ Objects({}) = {}
      /\ Objects({131, 140, 141}) = Group(131) \cup Group(140) \cup Group(141)
  BY ObjectsOfGroups
<1>3. Uses(Hierarchy.up, {131}, {}, {131, 140, 141})
  BY <1>1, <1>2 DEF Uses, Hierarchy, Replace
<1>4. Uses(Hierarchy.down, {131, 140, 141}, {}, {131})
  BY <1>1, <1>2 DEF Uses, Hierarchy, Replace
<1>5. 131 \in Firm(13) /\ \A m \in Marks : Host(m) # 131
  BY DEF Firm, Marks, Dropped, Host, TypeMarks
<1>6. New(14) \cap Early \subseteq {}
  BY NewGroups DEF Early
<1>7. {131, 140, 141} = {131} \cup (New(14) \ {})
  BY NewGroups
<1>8. Follows(Hierarchy.up, 13, 14)
  BY <1>3, <1>5, <1>6, <1>7, UpFollows
<1>9. Follows(Hierarchy.down, 14, 13)
  BY <1>4, <1>5, <1>7, DownFollows
<1> QED
  BY <1>8, <1>9

(* 0015 drops tables of several revisions, and puts them back.               *)
LEMMA DropObsoleteFollows ==
  Follows(DropObsolete.up, 14, 15) /\ Follows(DropObsolete.down, 15, 14)
<1>1. /\ Group(40) = QueryLogTables /\ Group(110) = MemoryTables \cup MemoryIndexes
      /\ Group(130) = ReportTables \cup ReportIndexes /\ Group(131) = ReportInput
      /\ Group(141) = ReportLevels
  BY DEF Group
<1>2. Objects(Dropped) = Group(40) \cup Group(110) \cup Group(130) \cup Group(131) \cup Group(141)
  BY DEF Objects, Dropped
<1>3. Objects(Dropped) = RestoredObsolete
  BY <1>1, <1>2 DEF RestoredObsolete, Obsolete, QueryLogTables
<1>4. \A o \in RestoredObsolete : o \in Obsolete \/ TableOf(o) \in Obsolete
  BY DEF RestoredObsolete, Obsolete, TableOf, MemoryTables, ReportTables, MemoryIndexes,
         ReportIndexes, ReportInput, ReportLevels, Tables, Parts
<1>5. Uses(DropObsolete.up, Dropped, {}, {})
  BY <1>3, <1>4, ObjectsOfGroups DEF Uses, DropObsolete, Drop, RestoredObsolete
<1>6. Uses(DropObsolete.down, {}, {}, Dropped)
  BY <1>3, ObjectsOfGroups DEF Uses, DropObsolete, Create
<1>7. /\ Firm(15) = Firm(14) \ Dropped /\ Dropped \subseteq Firm(14) /\ Dropped \cap Early = {}
  BY DEF Firm, Marks, Dropped, Early
<1>8. /\ Firm(14) \subseteq Marks
      /\ \A m \in Marks : Host(m) \in Dropped => m \in Dropped
      /\ \A m \in Dropped : Host(m) \in Dropped
  BY DEF Firm, Marks, Dropped, Host, TypeMarks
<1>9. Moves(Firm(14), Dropped, {}, {}, Firm(15))
  BY <1>7, <1>8, HostsComeFirst DEF Moves
<1>10. Moves(Firm(15), {}, {}, Dropped, Firm(14))
  BY <1>7, <1>8, HostsComeFirst DEF Moves
<1> QED
  BY <1>5, <1>6, <1>9, <1>10 DEF Follows

LEMMA ReplaceEnumsFollow ==
  Follows(ReplaceEnums.up, 15, 16) /\ Follows(ReplaceEnums.down, 16, 15)
<1>1. Group(22) \cup Group(32) = ReplacedEnums
  BY DEF Group, ReplacedEnums, Types, Parts
<1>2. Objects({22, 32}) = Group(22) \cup Group(32) /\ Objects({}) = {}
  BY ObjectsOfGroups
<1>3. Uses(ReplaceEnums.up, {22, 32}, {}, {22, 32}) /\ Uses(ReplaceEnums.down, {22, 32}, {},
        {22, 32})
  BY <1>1, <1>2 DEF Uses, ReplaceEnums, Replace
<1>4. {22, 32} \subseteq Firm(15) /\ \A m \in Marks : Host(m) \notin {22, 32}
  BY DEF Firm, Marks, Dropped, Host, TypeMarks
<1>5. New(16) = {} /\ {22, 32} = {22, 32} \cup (New(16) \ {})
  BY NewGroups
<1>6. Follows(ReplaceEnums.up, 15, 16)
  BY <1>3, <1>4, <1>5, UpFollows
<1>7. Follows(ReplaceEnums.down, 16, 15)
  BY <1>3, <1>4, <1>5, DownFollows
<1> QED
  BY <1>6, <1>7

LEMMA ConsolidationFollows ==
  Follows(Consolidation.up, 17, 18) /\ Follows(Consolidation.down, 18, 17)
<1>1. Group(180) = Consolidated /\ Group(181) = RawExtraction
  BY DEF Group
<1>2. Objects({180, 181}) = Group(180) \cup Group(181) /\ Objects({}) = {}
  BY ObjectsOfGroups
<1>3. Uses(Consolidation.up, {}, {180, 181}, {}) /\ Uses(Consolidation.down, {180, 181}, {}, {})
  BY <1>1, <1>2 DEF Uses, Consolidation, Ensure, Drop
<1>4. {180, 181} \subseteq Firm(18) /\ 60 \in Firm(18) /\ Host(180) = 180 /\ Host(181) = 60
  BY DEF Firm, Marks, Dropped, Host, TypeMarks
<1>5. /\ {} = {} \cup (New(18) \ {180, 181}) /\ {180, 181} = {} \cup (New(18) \ {})
  BY NewGroups
<1>6. Follows(Consolidation.up, 17, 18)
  BY <1>3, <1>4, <1>5, UpFollows
<1>7. Follows(Consolidation.down, 18, 17)
  BY <1>3, <1>5, DownFollows
<1> QED
  BY <1>6, <1>7

LEMMA TemporalTrackingFollows ==
  Follows(TemporalTracking.up, 18, 19) /\ Follows(TemporalTracking.down, 19, 18)
<1>1. Objects({190}) = TemporalParts /\ Objects({}) = {}
  <2>1. Group(190) = TemporalParts
    BY DEF Group
  <2> QED
    BY <2>1, ObjectsOfGroups
<1>2. Uses(TemporalTracking.up, {}, {190}, {}) /\ Uses(TemporalTracking.down, {190}, {}, {})
  BY <1>1 DEF Uses, TemporalTracking, Ensure, Drop
<1>3. 190 \in Firm(19) /\ 60 \in Firm(19) /\ Host(190) = 60
  BY DEF Firm, Marks, Dropped, Host, TypeMarks
<1>4. {} = {} \cup (New(19) \ {190}) /\ {190} = {} \cup (New(19) \ {})
  BY NewGroups
<1>5. Follows(TemporalTracking.up, 18, 19)
  BY <1>2, <1>3, <1>4, UpFollows
<1>6. Follows(TemporalTracking.down, 19, 18)
  BY <1>2, <1>4, DownFollows
<1> QED
  BY <1>5, <1>6

LEMMA ArchivedStatusFollows ==
  Follows(ArchivedStatus.up, 26, 27) /\ Follows(ArchivedStatus.down, 27, 26)
<1>1. Objects({211}) = StatusCheck /\ Objects({}) = {}
  <2>1. Group(211) = StatusCheck
    BY DEF Group
  <2> QED
    BY <2>1, ObjectsOfGroups
<1>2. Uses(ArchivedStatus.up, {211}, {}, {211}) /\ Uses(ArchivedStatus.down, {211}, {}, {211})
  BY <1>1 DEF Uses, ArchivedStatus, Replace
<1>3. 211 \in Firm(26) /\ \A m \in Marks : Host(m) # 211
  BY DEF Firm, Marks, Dropped, Host, TypeMarks
<1>4. New(27) = {} /\ {211} = {211} \cup (New(27) \ {})
  BY NewGroups
<1>5. Follows(ArchivedStatus.up, 26, 27)
  BY <1>2, <1>3, <1>4, UpFollows
<1>6. Follows(ArchivedStatus.down, 27, 26)
  BY <1>2, <1>3, <1>4, DownFollows
<1> QED
  BY <1>5, <1>6

LEMMA PgVectorFollows ==
  Follows(PgVector.up, 27, 28) /\ Follows(PgVector.down, 28, 27)
<1>1. Group(280) \cup Group(281) = Embeddings /\ Group(282) = Types({"vector"})
  BY DEF Group, Embeddings, Parts
<1>2. /\ Objects({280, 281}) = Group(280) \cup Group(281) /\ Objects({282}) = Group(282)
      /\ Objects({}) = {}
  BY ObjectsOfGroups
<1>3. Uses(PgVector.up, {}, {282}, {280, 281}) /\ Uses(PgVector.down, {280, 281}, {}, {})
  BY <1>1, <1>2 DEF Uses, PgVector, Create, Drop
<1>4. 282 \in Firm(28) /\ Host(282) = 0 /\ 282 \in Early
  BY DEF Firm, Marks, Dropped, Host, TypeMarks, Early
<1>5. New(28) \cap Early \subseteq {282}
  BY NewGroups DEF Early
<1>6. {280, 281} = {} \cup (New(28) \ {282})
  BY NewGroups
<1>7. Follows(PgVector.up, 27, 28)
  BY <1>3, <1>4, <1>5, <1>6, UpFollows
<1>8. Follows(PgVector.down, 28, 27)
  BY <1>3, <1>4, <1>6, DownFollows
<1> QED
  BY <1>7, <1>8

(* The scripts of all revisions run, up and down.                            *)
LEMMA UpgradesFollow ==
  ASSUME NEW r \in 1..28, NEW release
  PROVE  Follows(Script(r, release).up, r - 1, r)
<1>1. CASE r \in Additions
  BY <1>1, AdditionsFollow
<1>2. CASE r \in {6, 8, 11, 13, 14}
  BY <1>2, GraphPersistenceFollows, ArtifactTimestampsFollow, MemoryPreviewFollows,
     CommunityReportsFollow, HierarchyFollows DEF Script
<1>3. CASE r \in {15, 16, 18, 19, 27, 28}
  BY <1>3, DropObsoleteFollows, ReplaceEnumsFollow, ConsolidationFollows,
     TemporalTrackingFollows, ArchivedStatusFollows, PgVectorFollows DEF Script
<1> QED
  BY <1>1, <1>2, <1>3 DEF Additions

LEMMA DowngradesFollow ==
  ASSUME NEW r \in 8..28
  PROVE  Follows(Script(r, Newest).down, r, r - 1)
<1>1. CASE r \in Additions
  BY <1>1, AdditionsFollow
<1>2. CASE r \in {8, 11, 13, 14}
  BY <1>2, ArtifactTimestampsFollow, MemoryPreviewFollows, CommunityReportsFollow,
     HierarchyFollows DEF Script
<1>3. CASE r \in {15, 16, 18, 19, 27, 28}
  BY <1>3, DropObsoleteFollows, ReplaceEnumsFollow, ConsolidationFollows,
     TemporalTrackingFollows, ArchivedStatusFollows, PgVectorFollows DEF Script
<1> QED
  BY <1>1, <1>2, <1>3 DEF Additions

LEMMA StepUp ==
  ASSUME NEW r \in 1..28, NEW release, NEW db, Fits(db, r - 1)
  PROVE  /\ Executes(db, Script(r, release).up)
         /\ Fits(After(db, Script(r, release).up), r)
  BY UpgradesFollow, ScriptMoves DEF Follows

LEMMA StepDown ==
  ASSUME NEW r \in 8..28, NEW db, Fits(db, r)
  PROVE  /\ Executes(db, Script(r, Newest).down)
         /\ Fits(After(db, Script(r, Newest).down), r - 1)
  BY DowngradesFollow, ScriptMoves DEF Follows

-----------------------------------------------------------------------------
(* Rows *)

Data == [stages : [Jobs -> StageNames \cup {"NONE"}], events : SUBSET (Jobs \X StageNames),
         outbox : SUBSET Jobs, levels : SUBSET (0..2), archived : BOOLEAN]

LEMMA NamesOfStages ==
  StageNames = {"QUEUED", "READING", "PARSING", "CHUNKING", "EMBEDDING", "PERSISTING",
                "COMPLETE"}
<1>1. /\ Stages[1] = "QUEUED" /\ Stages[2] = "READING" /\ Stages[3] = "PARSING"
      /\ Stages[4] = "CHUNKING" /\ Stages[5] = "EMBEDDING" /\ Stages[6] = "PERSISTING"
      /\ Stages[7] = "COMPLETE"
  BY DEF Stages
<1>2. 1..7 = {1, 2, 3, 4, 5, 6, 7}
  OBVIOUS
<1> QED
  BY <1>1, <1>2 DEF StageNames

LEMMA RowsOfUpgrades ==
  ASSUME NEW r, NEW d \in Data
  PROVE  RowsUp(r, d) \in Data /\ FitsUp(r, d)
<1>1. CASE r = 5
  <2>1. RowsUp(r, d) = [d EXCEPT !.outbox = Backfilled(d)] /\ FitsUp(r, d)
    BY <1>1 DEF RowsUp, FitsUp
  <2>2. Backfilled(d) \subseteq Jobs
    BY DEF Backfilled
  <2> QED
    BY <2>1, <2>2 DEF Data
<1>2. CASE r = 14
  <2>1. RowsUp(r, d) = [d EXCEPT !.levels = Levelled(d)] /\ FitsUp(r, d)
    BY <1>2 DEF RowsUp, FitsUp
  <2>2. Levelled(d) \in SUBSET (0..2)
    BY DEF Levelled
  <2> QED
    BY <2>1, <2>2 DEF Data
<1>3. CASE r = 16
  <2>1. ASSUME NEW s \in StageNames \cup {"NONE"} PROVE Remapped(s) \in StageNames \cup {"NONE"}
    BY NamesOfStages DEF Remapped
  <2>2. [j \in Jobs |-> Remapped(d.stages[j])] \in [Jobs -> StageNames \cup {"NONE"}]
    BY <2>1 DEF Data
  <2>3. ASSUME NEW e \in Deduplicated(d.events)
        PROVE  <<e[1], Remapped(e[2])>> \in Jobs \X StageNames
    BY NamesOfStages DEF Remapped, Deduplicated, Data
  <2>4. {<<e[1], Remapped(e[2])>> : e \in Deduplicated(d.events)} \in SUBSET (Jobs \X StageNames)
    BY <2>3
  <2>5. RowsUp(r, d) \in Data
    <3> DEFINE stages == [j \in Jobs |-> Remapped(d.stages[j])]
               events == {<<e[1], Remapped(e[2])>> : e \in Deduplicated(d.events)}
    <3>1. RowsUp(r, d) = [d EXCEPT !.stages = stages, !.events = events]
      BY <1>3 DEF RowsUp
    <3> HIDE DEF stages, events
    <3>2. stages \in [Jobs -> StageNames \cup {"NONE"}] /\ events \in SUBSET (Jobs \X StageNames)
      BY <2>2, <2>4 DEF stages, events
    <3> QED
      BY <3>1, <3>2 DEF Data
  <2>6. ASSUME NEW e \in Deduplicated(d.events), NEW f \in Deduplicated(d.events),
               e[1] = f[1], Remapped(e[2]) = Remapped(f[2])
        PROVE  e = f
    <3>1. e \in d.events /\ f \in d.events /\ e = <<e[1], e[2]>> /\ f = <<f[1], f[2]>>
      BY DEF Deduplicated, Data
    <3>2. /\ e[2] = "EMBEDDING" => <<e[1], "PERSISTING">> \notin d.events
          /\ f[2] = "EMBEDDING" => <<f[1], "PERSISTING">> \notin d.events
      BY DEF Deduplicated
    <3>3. e[2] = f[2]
      BY <2>6, <3>1, <3>2 DEF Remapped
    <3> QED
      BY <2>6, <3>1, <3>3
  <2> QED
    BY <2>5, <2>6 DEF FitsUp
<1>4. CASE r \notin {5, 14, 16}
  BY <1>4 DEF RowsUp, FitsUp
<1> QED
  BY <1>1, <1>2, <1>3, <1>4

LEMMA RowsOfDowngrades ==
  ASSUME NEW r, NEW d \in Data
  PROVE  /\ RowsDown(r, d) \in Data
         /\ r \notin {12, 14} => RowsDown(r, d).levels = d.levels
         /\ r # 21 => RowsDown(r, d).archived = d.archived
<1>1. CASE r = 12
  <2>1. RowsDown(r, d) = [d EXCEPT !.levels = {}]
    BY <1>1 DEF RowsDown
  <2> QED
    BY <1>1, <2>1 DEF Data
<1>2. CASE r = 14
  <2>1. RowsDown(r, d) = [d EXCEPT !.levels = Levelled(d)]
    BY <1>2 DEF RowsDown
  <2>2. Levelled(d) \in SUBSET (0..2)
    BY DEF Levelled
  <2> QED
    BY <1>2, <2>1, <2>2 DEF Data
<1>3. CASE r = 21
  <2>1. RowsDown(r, d) = [d EXCEPT !.archived = FALSE]
    BY <1>3 DEF RowsDown
  <2> QED
    BY <1>3, <2>1 DEF Data
<1>4. CASE r \notin {12, 14, 21}
  BY <1>4 DEF RowsDown
<1> QED
  BY <1>1, <1>2, <1>3, <1>4

-----------------------------------------------------------------------------
(* The invariant: the schema fits its revision, in the transaction that     *)
(* runs too, whose rows are those of the database where a downgrade may     *)
(* find them in its way.                                                    *)
CommandOK ==
  /\ command = [kind |-> command.kind, to |-> command.to, release |-> command.release,
                at |-> command.at, schema |-> command.schema, data |-> command.data]
  /\ command.to \in 1..28 /\ command.at \in 0..28
  /\ Fits(command.schema, command.at)
  /\ command.data \in Data
  /\ \/ command.kind = "upgrade" /\ command.at <= command.to
     \/ /\ command.kind = "downgrade" /\ 7 <= command.to /\ command.to <= command.at
        /\ command.at >= 14 => command.data.levels = data.levels
        /\ command.at >= 21 => command.data.archived = data.archived

MigInv ==
  /\ version \in 0..28 /\ Fits(schema, version)
  /\ data \in Data
  /\ command = NoCommand \/ CommandOK
  /\ UpgradesSucceed
  /\ RefusedForRowsOnly

LEMMA InitFits == MigInit => MigInv
<1> SUFFICES ASSUME MigInit PROVE MigInv
  OBVIOUS
<1>1. Firm(0) = {}
  BY DEF Firm, Marks
<1>2. Fits(schema, version)
  BY <1>1, ObjectsOfGroups DEF MigInit, Fits
<1>3. data \in Data
  BY DEF MigInit, NoRows, Data
<1> QED
  BY <1>2, <1>3 DEF MigInit, MigInv, UpgradesSucceed, RefusedForRowsOnly

LEMMA StartKeeps ==
  ASSUME MigInv, NEW kind, NEW to \in 1..28, NEW release, Start(kind, to, release),
         \/ kind = "upgrade" /\ version <= to
         \/ kind = "downgrade" /\ 7 <= to /\ to <= version
  PROVE  MigInv'
<1>1. CommandOK'
  BY DEF MigInv, Start, CommandOK, Fits
<1> QED
  BY <1>1 DEF MigInv, Start, UpgradesSucceed, RefusedForRowsOnly, Fits

(* A revision that ran leaves its transaction at the next one.               *)
LEMMA RevisionMade ==
  ASSUME CommandOK, NEW at \in 0..28, NEW db, Fits(db, at), NEW d \in Data,
         command' = [command EXCEPT !.at = at, !.schema = db, !.data = d],
         data' = data,
         \/ command.kind = "upgrade" /\ at <= command.to
         \/ /\ command.kind = "downgrade" /\ 7 <= command.to /\ command.to <= at
            /\ at >= 14 => d.levels = data.levels
            /\ at >= 21 => d.archived = data.archived
  PROVE  CommandOK'
<1>1. /\ command' = [kind |-> command'.kind, to |-> command'.to, release |-> command'.release,
                     at |-> command'.at, schema |-> command'.schema, data |-> command'.data]
      /\ command'.kind = command.kind /\ command'.to = command.to /\ command'.at = at
      /\ command'.schema = db /\ command'.data = d
  BY DEF CommandOK
<1>2. Objects(Firm(at)) \subseteq db /\ db \subseteq Objects(Firm(at) \cup Early)
  BY DEF Fits
<1>3. command.to \in 1..28
  BY DEF CommandOK
<1> QED
  BY <1>1, <1>2, <1>3 DEF CommandOK, Fits

LEMMA UpgradeRevisionKeeps ==
  ASSUME MigInv, UpgradeRevision PROVE MigInv'
<1> DEFINE r == command.at + 1
           script == Script(r, command.release).up
<1>1. CommandOK /\ command.kind = "upgrade" /\ r \in 1..28 /\ r <= command.to
  BY DEF MigInv, UpgradeRevision, NoCommand, CommandOK
<1>2. Executes(command.schema, script) /\ Fits(After(command.schema, script), r)
  BY <1>1, StepUp DEF CommandOK
<1>3. FitsUp(r, command.data) /\ RowsUp(r, command.data) \in Data
  BY <1>1, RowsOfUpgrades DEF CommandOK
<1>4. /\ command' = [command EXCEPT !.at = r, !.schema = After(command.schema, script),
                                   !.data = RowsUp(r, command.data)]
      /\ UNCHANGED <<version, schema, data, refused>>
  BY <1>2, <1>3 DEF UpgradeRevision, Revise
<1>5. r \in 0..28 /\ data' = data
  BY <1>1, <1>4
<1> HIDE DEF r, script
<1>6. CommandOK'
  BY <1>1, <1>2, <1>3, <1>4, <1>5, RevisionMade
<1> QED
  BY <1>4, <1>6 DEF MigInv, UpgradesSucceed, RefusedForRowsOnly, Fits

LEMMA DowngradeRevisionKeeps ==
  ASSUME MigInv, DowngradeRevision PROVE MigInv'
<1> DEFINE r == command.at
           script == Script(r, Newest).down
<1>1. CommandOK /\ command.kind = "downgrade" /\ r \in 8..28 /\ command.to <= r - 1
  BY DEF MigInv, DowngradeRevision, NoCommand, CommandOK
<1>2. Executes(command.schema, script) /\ Fits(After(command.schema, script), r - 1)
  BY <1>1, StepDown DEF CommandOK
<1>3. /\ RowsDown(r, command.data) \in Data
      /\ r \notin {12, 14} => RowsDown(r, command.data).levels = command.data.levels
      /\ r # 21 => RowsDown(r, command.data).archived = command.data.archived
  BY <1>1, RowsOfDowngrades DEF CommandOK
<1>4. CASE FitsDown(r, command.data)
  <2>1. /\ command' = [command EXCEPT !.at = r - 1, !.schema = After(command.schema, script),
                                     !.data = RowsDown(r, command.data)]
        /\ UNCHANGED <<version, schema, data, refused>>
    BY <1>2, <1>4 DEF DowngradeRevision, Revise
  <2> HIDE DEF r, script
  <2>2. /\ r = command.at
        /\ r - 1 >= 14 => r \notin {12, 14} /\ r >= 14
        /\ r - 1 >= 21 => r # 21 /\ r >= 21
    BY <1>1 DEF r
  <2>3. /\ command.at >= 14 => command.data.levels = data.levels
        /\ command.at >= 21 => command.data.archived = data.archived
    BY <1>1 DEF CommandOK
  <2>4. /\ r - 1 >= 14 => RowsDown(r, command.data).levels = data.levels
        /\ r - 1 >= 21 => RowsDown(r, command.data).archived = data.archived
    BY <1>3, <2>2, <2>3
  <2>5. r - 1 \in 0..28 /\ 7 <= command.to
    BY <1>1 DEF CommandOK
  <2>6. CommandOK'
    BY <1>1, <1>2, <1>3, <2>1, <2>4, <2>5, RevisionMade
  <2> QED
    BY <2>1, <2>6 DEF MigInv, UpgradesSucceed, RefusedForRowsOnly, Fits
<1>5. CASE ~FitsDown(r, command.data)
  <2>1. /\ command' = NoCommand /\ refused' = "downgrade"
        /\ UNCHANGED <<version, schema, data>>
    BY <1>1, <1>5 DEF DowngradeRevision, Revise
  <2>2. SeveralLevels(data) \/ data.archived
    BY <1>1, <1>5 DEF FitsDown, CommandOK, SeveralLevels
  <2> QED
    BY <2>1, <2>2 DEF MigInv, UpgradesSucceed, RefusedForRowsOnly, SeveralLevels, Fits
<1> QED
  BY <1>4, <1>5

LEMMA WritesKeep ==
  ASSUME MigInv, NEW d \in Data, Writes(d),
         data.archived => d.archived, data.levels \subseteq d.levels
  PROVE  MigInv'
  BY DEF MigInv, Writes, Quiet, CommandOK, NoCommand, UpgradesSucceed, RefusedForRowsOnly,
         SeveralLevels, Fits

LEMMA StepKeepsMigInv == MigInv /\ [MigNext]_migVars => MigInv'
<1> SUFFICES ASSUME MigInv, [MigNext]_migVars PROVE MigInv'
  OBVIOUS
<1>1. ASSUME NEW release \in Installed, Install(release) PROVE MigInv'
  <2>1. release \in 1..28
    BY <1>1, InstalledAssumption DEF Revisions, Newest
  <2> QED
    BY <1>1, <2>1, StartKeeps DEF Install
<1>2. ASSUME NEW to \in Revisions, StartUpgrade(to) PROVE MigInv'
  <2>1. to \in 1..28 /\ version <= to
    BY <1>2 DEF Revisions, Newest, StartUpgrade, MigInv
  <2> QED
    BY <1>2, <2>1, StartKeeps DEF StartUpgrade
<1>3. ASSUME NEW to \in Revisions, StartDowngrade(to) PROVE MigInv'
  <2>1. to \in 1..28 /\ 7 <= to /\ to <= version
    BY <1>3 DEF Revisions, Newest, StartDowngrade, MigInv
  <2> QED
    BY <1>3, <2>1, StartKeeps DEF StartDowngrade
<1>4. CASE UpgradeRevision
  BY <1>4, UpgradeRevisionKeeps
<1>5. CASE DowngradeRevision
  BY <1>5, DowngradeRevisionKeeps
<1>6. CASE Commit
  <2>1. CommandOK
    BY <1>6 DEF Commit, Quiet, MigInv, NoCommand
  <2> QED
    BY <1>6, <2>1 DEF Commit, MigInv, CommandOK, UpgradesSucceed, RefusedForRowsOnly, Fits
<1>7. CASE Interrupt
  BY <1>7 DEF Interrupt, MigInv, UpgradesSucceed, RefusedForRowsOnly, Fits
<1>8. ASSUME NEW j \in Jobs, QueueJob(j) PROVE MigInv'
  <2>1. PICK d : /\ Writes(d)
                 /\ d = [data EXCEPT !.stages[j] = "QUEUED",
                           !.outbox = IF version >= 5 THEN @ \union {j} ELSE @]
    BY <1>8 DEF QueueJob
  <2>2. d \in Data /\ d.archived = data.archived /\ d.levels = data.levels
    BY <2>1, NamesOfStages DEF Data, MigInv
  <2> QED
    BY <2>1, <2>2, WritesKeep
<1>9. ASSUME NEW j \in Jobs, AdvanceJob(j) PROVE MigInv'
  <2>1. PICK i \in 1..6 :
          LET next == IF version >= 16 /\ Stages[i + 1] = "EMBEDDING" THEN Stages[i + 2]
                      ELSE Stages[i + 1]
          IN  Writes([data EXCEPT !.stages[j] = next, !.events = @ \union {<<j, next>>}])
    BY <1>9 DEF AdvanceJob
  <2> DEFINE next == IF version >= 16 /\ Stages[i + 1] = "EMBEDDING" THEN Stages[i + 2]
                     ELSE Stages[i + 1]
             d == [data EXCEPT !.stages[j] = next, !.events = @ \union {<<j, next>>}]
  <2>2. next \in StageNames
    <3>1. i \in {1, 2, 3, 4, 5, 6}
      OBVIOUS
    <3> QED
      BY <3>1, NamesOfStages DEF Stages
  <2>3. Writes(d)
    BY <2>1
  <2> HIDE DEF next
  <2>4. d \in Data /\ d.archived = data.archived /\ d.levels = data.levels
    <3>1. data.events \cup {<<j, next>>} \in SUBSET (Jobs \X StageNames)
      BY <2>2 DEF Data, MigInv
    <3>2. [data.stages EXCEPT ![j] = next] \in [Jobs -> StageNames \cup {"NONE"}]
      BY <2>2 DEF Data, MigInv
    <3> QED
      BY <3>1, <3>2 DEF Data, MigInv
  <2> HIDE DEF d
  <2> QED
    BY <2>3, <2>4, WritesKeep
<1>10. CASE Analyze
  <2>1. PICK d : /\ Writes(d)
                 /\ d = [data EXCEPT !.levels = IF version >= 14 THEN 0..2 ELSE {0}]
    BY <1>10 DEF Analyze
  <2>2. d \in Data /\ d.archived = data.archived
    BY <2>1 DEF Data, MigInv
  <2>3. data.levels \subseteq d.levels
    BY <1>10 DEF Analyze
  <2> QED
    BY <2>1, <2>2, <2>3, WritesKeep
<1>11. CASE Archive
  <2>1. PICK d : Writes(d) /\ d = [data EXCEPT !.archived = TRUE]
    BY <1>11 DEF Archive
  <2>2. d \in Data /\ d.archived /\ d.levels = data.levels
    BY <2>1 DEF Data, MigInv
  <2> QED
    BY <2>1, <2>2, WritesKeep
<1>12. CASE UNCHANGED migVars
  BY <1>12 DEF migVars, MigInv, CommandOK, UpgradesSucceed, RefusedForRowsOnly, SeveralLevels,
     Fits
<1> QED
  BY <1>1, <1>2, <1>3, <1>4, <1>5, <1>6, <1>7, <1>8, <1>9, <1>10, <1>11, <1>12 DEF MigNext

(* Whatever installations, upgrades and downgrades a database has seen, also *)
(* refused and interrupted ones, its schema is that of its revision, with    *)
(* nothing more than what newer models brought early or a downgrade keeps.   *)
THEOREM SchemasFit == MigSpec => []MigInv
<1>1. MigInit => MigInv
  BY InitFits
<1>2. MigInv /\ [MigNext]_migVars => MigInv'
  BY StepKeepsMigInv
<1> QED
  BY <1>1, <1>2, PTL DEF MigSpec

(* No upgrade ever fails, for any jobs and any releases installed.           *)
THEOREM NoUpgradeFails == MigSpec => []UpgradesSucceed
<1>1. MigInv => UpgradesSucceed
  BY DEF MigInv
<1> QED
  BY <1>1, SchemasFit, PTL

(* A downgrade is refused for rows only, never for a missing object.         *)
THEOREM OnlyRowsRefuse == MigSpec => []RefusedForRowsOnly
<1>1. MigInv => RefusedForRowsOnly
  BY DEF MigInv
<1> QED
  BY <1>1, SchemasFit, PTL

LEMMA ModelsInGroups == Models \subseteq Objects(Firm(28))
<1>1. {10, 20, 30, 50, 60, 61, 70, 71, 80, 90, 100, 120, 140, 180, 181, 190, 210, 211, 220,
       230, 240, 250, 260, 261, 280, 281} \subseteq Firm(28)
  BY DEF Firm, Marks, Dropped
<1>2. ASSUME NEW m \in Firm(28) PROVE Group(m) \subseteq Objects(Firm(28))
  BY DEF Objects
<1>3. CoreModels \subseteq Objects(Firm(28))
  <2>1. CoreModels \subseteq Group(10) \cup Group(20) \cup Group(30) \cup Group(50) \cup Group(71)
                               \cup Group(280)
    BY DEF CoreModels, Group, Tables, Parts
  <2> QED
    BY <1>1, <1>2, <2>1
<1>4. AnalyticsModels \subseteq Objects(Firm(28))
  <2>1. AnalyticsModels \subseteq Group(120) \cup Group(140)
    BY DEF AnalyticsModels, Group, Tables, Parts, Analytics, Adds, Create, HierarchyParts
  <2> QED
    BY <1>1, <1>2, <2>1
<1>5. MemoryModels \subseteq Objects(Firm(28))
  <2>1. MemoryModels \subseteq Group(210) \cup Group(211) \cup Group(220) \cup Group(230)
                                 \cup Group(260) \cup Group(261) \cup Group(281)
    BY DEF MemoryModels, Group, Tables, Parts, AgentMemory, StatusCheck, MemoryTimestamps,
           SupersessionIntegrity, MemoryTypes, Adds, Create
  <2> QED
    BY <1>1, <1>2, <2>1
<1>6. GovernanceModels \subseteq Objects(Firm(28))
  <2>1. GovernanceModels \subseteq Group(240) \cup Group(250)
    BY DEF GovernanceModels, Group, Tables, LegalHold, RetentionPolicy, Adds, Create
  <2> QED
    BY <1>1, <1>2, <2>1
<1>7. GraphJobModels \subseteq Objects(Firm(28))
  <2>1. GraphJobModels \subseteq Group(70) \cup Group(90) \cup Group(100)
    BY DEF GraphJobModels, Group, Tables, Parts, CleanupOutbox, CleanupLeases, Adds, Create
  <2> QED
    BY <1>1, <1>2, <2>1
<1>8. GraphModels \subseteq Objects(Firm(28))
  <2>1. GraphModels \subseteq Group(60) \cup Group(61) \cup Group(80) \cup Group(180)
                                \cup Group(181) \cup Group(190)
    BY DEF GraphModels, Group, Tables, Parts, GraphTables, KeptTimestamps, AddedTimestamps,
           Timestamps, UpdatedOnly, Consolidated, RawExtraction, TemporalParts, Temporal
  <2> QED
    BY <1>1, <1>2, <2>1
<1> QED
  BY <1>3, <1>4, <1>5, <1>6, <1>7, <1>8 DEF Models

(* A database at the newest revision has everything the models use.          *)
THEOREM NewestFitsModels == MigSpec => []ModelsFitNewest
<1>1. MigInv => ModelsFitNewest
  BY ModelsInGroups DEF MigInv, Fits, ModelsFitNewest, Newest
<1> QED
  BY <1>1, SchemasFit, PTL
=============================================================================

------------------------- MODULE EvidenceGraphProofs -------------------------
(***************************************************************************)
(* What holds of EvidenceGraph for every set of documents, chunks,         *)
(* entities and relations, and every number of requests and failures.      *)
(*                                                                         *)
(* The argument rests on one observation: the collection of unsupported    *)
(* subjects sees no evidence of its document any more (CollectsNothing),   *)
(* so entities and relations are only ever added, decisions are never      *)
(* dropped with their rows, and the snapshots of the analytics grow.       *)
(***************************************************************************)
EXTENDS EvidenceGraph, TLAPS

\* A run that was started has its chunk; a failed one may be started again.
RunsHaveChunks == \A c \in Chunks : run[c] # "none" => c \in chunkRows

\* Every subject of evidence has its row.
CitedIsThere == \A e \in evidence : e[2] \in entities \union relations

\* Only a row has a decision.
DecidedIsThere == \A r \in Relations : review[r] # "open" => r \in relations

\* Every analytics run knows no more entities than the newest one, and none
\* that is not there.
SnapshotsGrow ==
    /\ \A s \in snapshots : latest # NoSnapshot => s.entities \subseteq latest.entities
    /\ \A s \in snapshots : s.entities \subseteq entities
    /\ latest # NoSnapshot => latest \in snapshots

\* All of the document's graph is there.
GraphIsWhole(d) ==
    /\ \A c \in ChunksOf(d) : c \in chunkRows /\ run[c] = "succeeded"
    /\ consolidation[d] = "succeeded"

\* How far the graph stage of the document can be.
StageIsEarned(d) ==
    /\ indexJob[d] # "succeeded" =>
            stage[d] = "none" /\ graphJob[d] = "none" /\ extraction[d] = "idle"
    /\ extraction[d] # "idle" => graphJob[d] = "running" /\ stage[d] = "extracting"
    /\ extraction[d] \in {"consolidated", "refreshed"} => GraphIsWhole(d)
    /\ stage[d] = "complete" => GraphIsWhole(d) /\ graphJob[d] = "succeeded"

StagesAreEarned == lateFailures = 0 => \A d \in Documents : StageIsEarned(d)

GraphInv ==
    /\ RunsHaveChunks
    /\ CitedIsThere
    /\ DecidedIsThere
    /\ EvidenceOfSucceededRuns
    /\ CitedEndpoints

Inv == TypeOK /\ GraphInv /\ SnapshotsGrow /\ StagesAreEarned

-----------------------------------------------------------------------------
(* Operators *)

\* An action that has nothing to do with the graph keeps what is said of it.
LEMMA GraphUntouched ==
  ASSUME GraphInv, UNCHANGED <<chunkRows, run, entities, relations, review, evidence>>
  PROVE  GraphInv'
BY DEF GraphInv, RunsHaveChunks, CitedIsThere, DecidedIsThere, EvidenceOfSucceededRuns,
       CitedEndpoints, EvidenceOf, DocumentOf

LEMMA SnapshotsUntouched ==
  ASSUME SnapshotsGrow, UNCHANGED analyticsVars, entities \subseteq entities'
  PROVE  SnapshotsGrow'
BY DEF SnapshotsGrow, analyticsVars

\* A chunk belongs to the document it is named by.
LEMMA ChunkOwner ==
  ASSUME NEW d \in Documents, NEW c \in Chunks
  PROVE  c \in ChunksOf(d) <=> c[1] = d
BY DEF Chunks, ChunksOf

LEMMA ChunksOfAreChunks ==
  ASSUME NEW d \in Documents
  PROVE  ChunksOf(d) \subseteq Chunks
BY DEF Chunks, ChunksOf

\* The collection of a document whose chunks are gone finds no evidence of it,
\* and leaves everything as it is (cleanup_document_graph after the cascade).
LEMMA CollectsNothing ==
  ASSUME TypeOK, NEW d \in Documents
  PROVE  CascadeAndCollect(d) = [evidence |-> {e \in evidence : DocumentOf(e) # d},
                                 relations |-> relations, entities |-> entities]
<1> DEFINE ev == Uncascaded(ChunksOf(d))
           seen == {e \in ev : DocumentOf(e) = d}
           left == ev \ seen
           SupportedIn(x) == \E e \in left : e[2] = x
           affected == {e[2] : e \in seen}
           relations1 == {r \in relations : r \notin affected \/ SupportedIn(r)}
           candidates == (affected \intersect Entities)
                           \union {x \in Entities : \E r \in relations1 \intersect affected :
                                                           x \in {r[1], r[2]}}
           unsupported == {x \in candidates : /\ ~SupportedIn(x)
                                              /\ \A r \in relations1 : x \notin {r[1], r[2]}}
<1>1. \A e \in evidence : e[1] \in Chunks
  BY DEF TypeOK, Evidence
<1>2. ev = {e \in evidence : DocumentOf(e) # d}
  BY <1>1, ChunkOwner DEF Uncascaded, DocumentOf
<1>3. seen = {}
  BY <1>2
<1>4. affected = {} /\ left = ev
  BY <1>3
<1>5. relations1 = relations /\ candidates = {}
  BY <1>4
<1>6. unsupported = {}
  BY <1>5
<1> HIDE DEF ev, seen, left, SupportedIn, affected, relations1, candidates, unsupported
<1>7. Collect(d, ev) = [evidence |-> left, relations |-> relations1,
                        entities |-> entities \ unsupported]
  BY DEF Collect, seen, left, SupportedIn, affected, relations1, candidates, unsupported
<1> QED
  BY <1>2, <1>4, <1>5, <1>6, <1>7 DEF CascadeAndCollect, ev

\* Likewise the collection after the cascade of DELETE FROM chunks.
LEMMA FactsStay ==
  ASSUME TypeOK, NEW d \in Documents, FactsBecome(CascadeAndCollect(d))
  PROVE  /\ evidence' = {e \in evidence : DocumentOf(e) # d}
         /\ UNCHANGED <<entities, relations>>
         /\ review' = [r \in Relations |-> IF r \in relations THEN review[r] ELSE "open"]
BY CollectsNothing DEF FactsBecome

\* The rows of the extraction and the consolidation only add.
LEMMA RowsAdd ==
  ASSUME NEW new, AddRows(new)
  PROVE  /\ entities \subseteq entities' /\ entities' \subseteq entities \union Entities
         /\ relations \subseteq relations' /\ relations' \subseteq relations \union Relations
         /\ evidence' = evidence \union new
         /\ review' = review
BY DEF AddRows

LEMMA ExtractedIsEvidence ==
  ASSUME NEW c \in Chunks, NEW es \in SUBSET Entities, NEW rs \in SUBSET Relations
  PROVE  ExtractedFacts(c, es, rs) \subseteq Evidence
BY DEF ExtractedFacts, Evidence, Subjects

LEMMA ConsolidatedIsEvidence ==
  ASSUME NEW c \in Chunks, NEW rs \in SUBSET Relations
  PROVE  {c} \X rs \subseteq Evidence
BY DEF Evidence, Subjects

-----------------------------------------------------------------------------
(* Types *)

LEMMA InitType == Init => TypeOK
BY BoundsAssumption DEF Init, TypeOK, Evidence, Chunks

LEMMA FaultType ==
  ASSUME TypeOK, Fault
  PROVE  faults' \in 0..MaxFaults
BY BoundsAssumption DEF TypeOK, Fault

LEMMA RequestType ==
  ASSUME TypeOK, Request
  PROVE  requests' \in 0..MaxRequests
BY BoundsAssumption DEF TypeOK, Request

LEMMA UploadType ==
  ASSUME TypeOK, NEW d \in Documents, UploadStep(d)
  PROVE  TypeOK'
<1>1. CASE StoreObject(d)
  BY <1>1 DEF StoreObject, TypeOK, jobVars, boundVars, graphVars, analyticsVars
<1>2. CASE StoreFails(d)
  BY <1>2, FaultType DEF StoreFails, TypeOK, graphVars, analyticsVars
<1>3. CASE CommitUpload(d)
  BY <1>3 DEF CommitUpload, TypeOK, boundVars, graphVars, analyticsVars
<1>4. CASE UploadCrashes(d)
  BY <1>4, FaultType DEF UploadCrashes, TypeOK, graphVars, analyticsVars
<1> QED
  BY <1>1, <1>2, <1>3, <1>4 DEF UploadStep

LEMMA IndexingType ==
  ASSUME TypeOK, NEW d \in Documents, IndexingStep(d)
  PROVE  TypeOK'
<1>1. CASE StartIndexing(d)
  BY <1>1 DEF StartIndexing, TypeOK, boundVars, graphVars, analyticsVars
<1>2. CASE PersistChunks(d)
  <2>1. ChunksOf(d) \subseteq Chunks
    BY ChunksOfAreChunks
  <2>2. /\ evidence' \subseteq Evidence
        /\ entities' \subseteq Entities /\ relations' \subseteq Relations
        /\ review' \in [Relations -> {"open", "approved", "rejected"}]
    BY <1>2, FactsStay DEF PersistChunks, TypeOK
  <2> QED
    BY <1>2, <2>1, <2>2 DEF PersistChunks, ForgetRuns, TypeOK, boundVars, analyticsVars
<1>3. CASE IndexingFails(d)
  BY <1>3, FaultType DEF IndexingFails, TypeOK, graphVars, analyticsVars
<1>4. CASE LateIndexFailure(d)
  <2>1. lateFailures' \in 0..MaxFaults
    BY <1>4, BoundsAssumption DEF LateIndexFailure, TypeOK
  <2> QED
    BY <1>4, <2>1 DEF LateIndexFailure, TypeOK, graphVars, analyticsVars
<1> QED
  BY <1>1, <1>2, <1>3, <1>4 DEF IndexingStep

LEMMA ConsolidationType ==
  ASSUME TypeOK, NEW d \in Documents, PersistConsolidation(d)
  PROVE  evidence' \subseteq Evidence /\ UNCHANGED review
         /\ entities' \subseteq Entities /\ relations' \subseteq Relations
<1>1. PICK c \in ChunksOf(d), rs \in SUBSET Relations : AddRows({c} \X rs)
  BY DEF PersistConsolidation
<1>2. {c} \X rs \subseteq Evidence
  BY ChunksOfAreChunks, ConsolidatedIsEvidence
<1> QED
  BY <1>1, <1>2, RowsAdd DEF TypeOK

LEMMA AttemptType ==
  ASSUME TypeOK, NEW d \in Documents, EndAttempt(d)
  PROVE  /\ status' \in [Documents -> {"absent", "storage_failed", "queued", "persisting",
                                       "indexed", "failed", "deleting", "delete_failed"}]
         /\ stage' \in [Documents -> {"none", "queued", "extracting", "complete", "failed"}]
         /\ graphJob' \in [Documents -> {"none", "queued", "running", "succeeded", "failed"}]
         /\ extraction' \in [Documents -> {"idle", "chunks", "consolidated", "refreshed"}]
         /\ run' \in [Chunks -> {"none", "running", "succeeded", "failed"}]
BY DEF EndAttempt, TypeOK

LEMMA RefreshType ==
  ASSUME TypeOK, Refresh
  PROVE  snapshots' \subseteq Snapshots /\ latest' \in Snapshots \union {NoSnapshot}
BY DEF TypeOK, Refresh, CurrentSnapshot, SupportedRelations, Snapshots

LEMMA ExtractionType ==
  ASSUME TypeOK, NEW d \in Documents, ExtractionStep(d)
  PROVE  TypeOK'
<1>1. CASE StartExtraction(d)
  <2>1. extractions' \in 0..MaxExtractions
    BY <1>1, BoundsAssumption DEF StartExtraction, TypeOK
  <2> QED
    BY <1>1, <2>1 DEF StartExtraction, TypeOK, graphVars, analyticsVars
<1>2. CASE Consolidate(d)
  BY <1>2, ConsolidationType
  DEF Consolidate, TypeOK, documentVars, boundVars, analyticsVars
<1>3. CASE ConsolidateAgain(d)
  BY <1>3 DEF ConsolidateAgain, TypeOK, documentVars, boundVars, graphVars, analyticsVars
<1>4. CASE ConsolidationFails(d)
  <2>1. consolidation' \in [Documents -> {"none", "failed", "succeeded"}]
    BY <1>4 DEF ConsolidationFails, TypeOK
  <2> QED
    BY <1>4, <2>1, ConsolidationType, AttemptType, FaultType
    DEF ConsolidationFails, TypeOK, analyticsVars
<1>5. CASE ExtractionFails(d)
  BY <1>5, AttemptType, FaultType DEF ExtractionFails, TypeOK, factVars, analyticsVars
<1>6. CASE RefreshAfterExtraction(d)
  BY <1>6, RefreshType
  DEF RefreshAfterExtraction, TypeOK, documentVars, boundVars, graphVars
<1>7. CASE CompleteExtraction(d)
  BY <1>7 DEF CompleteExtraction, TypeOK, boundVars, graphVars, analyticsVars
<1>8. ASSUME NEW c \in ChunksOf(d), StartRun(c)
      PROVE  TypeOK'
  BY <1>8 DEF StartRun, TypeOK, documentVars, jobVars, boundVars, factVars, analyticsVars
<1>9. ASSUME NEW c \in ChunksOf(d), FinishRun(c)
      PROVE  TypeOK'
  <2>1. PICK es \in SUBSET Entities, rs \in SUBSET Relations : AddRows(ExtractedFacts(c, es, rs))
    BY <1>9 DEF FinishRun
  <2>2. ExtractedFacts(c, es, rs) \subseteq Evidence
    BY ChunksOfAreChunks, ExtractedIsEvidence
  <2>3. /\ evidence' \subseteq Evidence /\ UNCHANGED review
        /\ entities' \subseteq Entities /\ relations' \subseteq Relations
    BY <2>1, <2>2, RowsAdd DEF TypeOK
  <2> QED
    BY <1>9, <2>3 DEF FinishRun, TypeOK, documentVars, jobVars, boundVars, analyticsVars
<1> QED
  BY <1>1, <1>2, <1>3, <1>4, <1>5, <1>6, <1>7, <1>8, <1>9 DEF ExtractionStep

LEMMA DeletionType ==
  ASSUME TypeOK, NEW d \in Documents, DeletionStep(d)
  PROVE  TypeOK'
<1>1. CASE MarkDeleting(d)
  BY <1>1, RequestType DEF MarkDeleting, Marked, TypeOK, graphVars, analyticsVars
<1>2. CASE DeleteObject(d)
  BY <1>2 DEF DeleteObject, TypeOK, jobVars, boundVars, graphVars, analyticsVars
<1>3. CASE DeleteObjectFails(d)
  BY <1>3, FaultType DEF DeleteObjectFails, TypeOK, graphVars, analyticsVars
<1>4. CASE DeleteRow(d)
  <2>1. /\ evidence' \subseteq Evidence
        /\ entities' \subseteq Entities /\ relations' \subseteq Relations
        /\ review' \in [Relations -> {"open", "approved", "rejected"}]
    BY <1>4, FactsStay DEF DeleteRow, TypeOK
  <2> QED
    BY <1>4, <2>1 DEF DeleteRow, RowGoes, ForgetRuns, TypeOK, boundVars, analyticsVars
<1>5. CASE DeleteCrashes(d)
  BY <1>5, FaultType DEF DeleteCrashes, TypeOK, graphVars, analyticsVars
<1>6. CASE MarkNext(d)
  BY <1>6 DEF MarkNext, Marked, TypeOK, jobVars, boundVars, graphVars, analyticsVars
<1>7. CASE DeleteNextRow(d)
  BY <1>7 DEF DeleteNextRow, RowGoes, ForgetRuns, Uncascaded, TypeOK, boundVars, analyticsVars
<1> QED
  BY <1>1, <1>2, <1>3, <1>4, <1>5, <1>6, <1>7 DEF DeletionStep

LEMMA NextType ==
  ASSUME TypeOK, [Next]_vars
  PROVE  TypeOK'
<1>1. CASE UNCHANGED vars
  BY <1>1 DEF vars, TypeOK
<1>2. ASSUME NEW r \in Relations, ReviewRelation(r)
      PROVE  TypeOK'
  BY <1>2 DEF ReviewRelation, TypeOK, documentVars, jobVars, boundVars, analyticsVars
<1>3. CASE RefreshRequest
  BY <1>3, RequestType, RefreshType
  DEF RefreshRequest, TypeOK, documentVars, graphVars
<1>4. CASE StartDatasetDeletion
  BY <1>4, RequestType DEF StartDatasetDeletion, TypeOK, graphVars, analyticsVars
<1>5. CASE DeleteDatasetRow
  BY <1>5 DEF DeleteDatasetRow, TypeOK, boundVars
<1>6. CASE DatasetRowStays
  BY <1>6 DEF DatasetRowStays, TypeOK, jobVars, boundVars, graphVars, analyticsVars
<1> QED
  BY <1>1, <1>2, <1>3, <1>4, <1>5, <1>6, UploadType, IndexingType, ExtractionType, DeletionType
  DEF Next

\* Whatever the documents, chunks, entities and relations are, every variable
\* keeps to the states its column or its set can hold.
THEOREM TypeCorrect == Spec => []TypeOK
BY InitType, NextType, PTL DEF Spec
-----------------------------------------------------------------------------
(* The graph *)

LEMMA InitGraph == Init => GraphInv /\ SnapshotsGrow
BY DEF Init, GraphInv, RunsHaveChunks, CitedIsThere, DecidedIsThere, EvidenceOfSucceededRuns,
       CitedEndpoints, SnapshotsGrow

\* Runs may start and fail, as long as those that succeeded stay.
RunsAdvance ==
    /\ chunkRows' = chunkRows
    /\ \A c \in Chunks : /\ run[c] = "succeeded" => run'[c] = "succeeded"
                         /\ run'[c] # "none" => c \in chunkRows

LEMMA AdvancingKeeps ==
  ASSUME TypeOK, GraphInv, RunsAdvance, UNCHANGED factVars
  PROVE  GraphInv'
<1>1. \A e \in evidence : e[1] \in Chunks
  BY DEF TypeOK, Evidence
<1> QED
  BY <1>1 DEF RunsAdvance, factVars, GraphInv, RunsHaveChunks, CitedIsThere, DecidedIsThere,
              EvidenceOfSucceededRuns, CitedEndpoints, EvidenceOf, DocumentOf

\* Evidence may be added to chunks whose runs succeed, the endpoints of its
\* relations cited by the same document.
LEMMA AddingKeeps ==
  ASSUME TypeOK, GraphInv, RunsAdvance,
         NEW new, new \subseteq Evidence, AddRows(new),
         \A e \in new : run'[e[1]] = "succeeded",
         \A e \in new : e[2] \in Relations =>
            \A x \in {e[2][1], e[2][2]} :
                \E f \in evidence \union new : DocumentOf(f) = DocumentOf(e) /\ f[2] = x
  PROVE  GraphInv'
<1>1. \A e \in evidence \union new : e[1] \in Chunks /\ e[2] \in Entities \union Relations
  BY DEF TypeOK, Evidence, Subjects
<1>2. RunsHaveChunks'
  BY DEF RunsAdvance, RunsHaveChunks
<1>3. CitedIsThere'
  <2>1. \A e \in evidence : e[2] \in entities' \union relations'
    BY RowsAdd DEF GraphInv, CitedIsThere
  <2>2. \A e \in new : e[2] \in entities' \union relations'
    BY <1>1 DEF AddRows
  <2> QED
    BY <2>1, <2>2, RowsAdd DEF CitedIsThere
<1>4. DecidedIsThere'
  BY RowsAdd DEF GraphInv, DecidedIsThere
<1>5. EvidenceOfSucceededRuns'
  <2>1. \A e \in new : e[1] \in chunkRows
    BY <1>1 DEF RunsAdvance
  <2> QED
    BY <1>1, <2>1, RowsAdd DEF GraphInv, EvidenceOfSucceededRuns, RunsAdvance
<1>6. CitedEndpoints'
  <2>1. \A e \in evidence : e[2] \in Relations =>
            /\ e[2] \in relations
            /\ \A x \in {e[2][1], e[2][2]} :
                    \E f \in evidence : DocumentOf(f) = DocumentOf(e) /\ f[2] = x
    BY DEF GraphInv, CitedEndpoints, EvidenceOf
  <2>2. \A e \in evidence \union new : e[2] \in Relations =>
            /\ e[2] \in relations'
            /\ \A x \in {e[2][1], e[2][2]} :
                    \E f \in evidence \union new : DocumentOf(f) = DocumentOf(e) /\ f[2] = x
    <3>1. relations \subseteq relations'
      BY RowsAdd
    <3>2. \A e \in new : e[2] \in Relations => e[2] \in relations'
      BY DEF AddRows
    <3> QED
      BY <2>1, <3>1, <3>2
  <2> QED
    BY <2>2, RowsAdd DEF CitedEndpoints, EvidenceOf, DocumentOf
<1> QED
  BY <1>2, <1>3, <1>4, <1>5, <1>6 DEF GraphInv

\* All the evidence of a document may go, with its runs.
LEMMA ForgettingKeeps ==
  ASSUME TypeOK, GraphInv, NEW d \in Documents,
         evidence' = {e \in evidence : DocumentOf(e) # d},
         UNCHANGED <<entities, relations, review>>,
         run' = [c \in Chunks |-> IF c \in ChunksOf(d) THEN "none" ELSE run[c]],
         \A c \in Chunks \ ChunksOf(d) : c \in chunkRows => c \in chunkRows'
  PROVE  GraphInv'
<1>1. \A e \in evidence : e[1] \in Chunks /\ (DocumentOf(e) = d <=> e[1] \in ChunksOf(d))
  BY ChunkOwner DEF TypeOK, Evidence, DocumentOf
<1>2. RunsHaveChunks'
  BY DEF GraphInv, RunsHaveChunks
<1>3. CitedIsThere' /\ DecidedIsThere'
  BY DEF GraphInv, CitedIsThere, DecidedIsThere
<1>4. EvidenceOfSucceededRuns'
  BY <1>1 DEF GraphInv, EvidenceOfSucceededRuns
<1>5. CitedEndpoints'
  BY DEF GraphInv, CitedEndpoints, EvidenceOf, DocumentOf
<1> QED
  BY <1>2, <1>3, <1>4, <1>5 DEF GraphInv

\* Where only rows have decisions, the collection keeps the decisions too.
LEMMA DecisionsKept ==
  ASSUME TypeOK, GraphInv, NEW d \in Documents, FactsBecome(CascadeAndCollect(d))
  PROVE  UNCHANGED <<entities, relations, review>>
<1>1. review' = [r \in Relations |-> IF r \in relations THEN review[r] ELSE "open"]
  BY FactsStay
<1>2. review' = review
  BY <1>1 DEF TypeOK, GraphInv, DecidedIsThere
<1> QED
  BY <1>2, FactsStay

\* The deterministic cascade of one document.
LEMMA UncascadedIs ==
  ASSUME TypeOK, NEW d \in Documents
  PROVE  Uncascaded(ChunksOf(d)) = {e \in evidence : DocumentOf(e) # d}
<1>1. \A e \in evidence : e[1] \in Chunks
  BY DEF TypeOK, Evidence
<1> QED
  BY <1>1, ChunkOwner DEF Uncascaded, DocumentOf

LEMMA FinishRunKeeps ==
  ASSUME TypeOK, GraphInv, NEW c \in Chunks, FinishRun(c)
  PROVE  GraphInv'
<1>1. PICK es \in SUBSET Entities, rs \in SUBSET Relations : AddRows(ExtractedFacts(c, es, rs))
  BY DEF FinishRun
<1> DEFINE new == ExtractedFacts(c, es, rs)
<1>2. new \subseteq Evidence
  BY ExtractedIsEvidence
<1>3. RunsAdvance
  BY DEF FinishRun, RunsAdvance, TypeOK, GraphInv, RunsHaveChunks
<1>4. \A e \in new : run'[e[1]] = "succeeded"
  BY DEF FinishRun, TypeOK, ExtractedFacts
<1>5. \A e \in new : e[2] \in Relations =>
          \A x \in {e[2][1], e[2][2]} :
              \E f \in evidence \union new : DocumentOf(f) = DocumentOf(e) /\ f[2] = x
  <2> SUFFICES ASSUME NEW e \in new, e[2] \in Relations, NEW x \in {e[2][1], e[2][2]}
               PROVE  \E f \in new : DocumentOf(f) = DocumentOf(e) /\ f[2] = x
    OBVIOUS
  <2>1. e[1] = c /\ e[2] \in rs /\ {e[2][1], e[2][2]} \subseteq es
    BY RelationsAssumption DEF ExtractedFacts
  <2>2. <<c, x>> \in new
    BY <2>1 DEF ExtractedFacts
  <2> QED
    BY <2>1, <2>2 DEF DocumentOf
<1> HIDE DEF new
<1> QED
  BY <1>1, <1>2, <1>3, <1>4, <1>5, AddingKeeps DEF new

\* The relations a consolidation writes resolve among the document's entities.
LEMMA ConsolidationKeeps ==
  ASSUME TypeOK, GraphInv, NEW d \in Documents, PersistConsolidation(d), RunsAdvance,
         \A c \in ChunksOf(d) : run'[c] = "succeeded"
  PROVE  GraphInv'
<1>1. PICK c \in ChunksOf(d), rs \in SUBSET Relations :
          (\A r \in rs : Resolves(d, r)) /\ AddRows({c} \X rs)
  BY DEF PersistConsolidation
<1> DEFINE new == {c} \X rs
<1>2. new \subseteq Evidence
  BY ChunksOfAreChunks, ConsolidatedIsEvidence
<1>3. \A e \in new : run'[e[1]] = "succeeded"
  OBVIOUS
<1>4. \A e \in new : e[2] \in Relations =>
          \A x \in {e[2][1], e[2][2]} :
              \E f \in evidence \union new : DocumentOf(f) = DocumentOf(e) /\ f[2] = x
  <2> SUFFICES ASSUME NEW e \in new, NEW x \in {e[2][1], e[2][2]}
               PROVE  \E f \in evidence : DocumentOf(f) = DocumentOf(e) /\ f[2] = x
    OBVIOUS
  <2>1. DocumentOf(e) = d
    BY DEF DocumentOf, ChunksOf
  <2>2. x \in DocumentEntities(d)
    BY <1>1 DEF Resolves
  <2> QED
    BY <2>1, <2>2 DEF DocumentEntities, EvidenceOf
<1> HIDE DEF new
<1> QED
  BY <1>1, <1>2, <1>3, <1>4, AddingKeeps DEF new
-----------------------------------------------------------------------------
(* The steps *)

\* What was learnt stays, and so does what was decided.
FactsAccumulate ==
    entities \subseteq entities' /\ relations \subseteq relations' /\ review' = review

LEMMA UploadGraph ==
  ASSUME TypeOK, GraphInv, NEW d \in Documents, UploadStep(d)
  PROVE  GraphInv' /\ FactsAccumulate
<1>1. UNCHANGED graphVars
  BY DEF UploadStep, StoreObject, StoreFails, CommitUpload, UploadCrashes
<1> QED
  BY <1>1, GraphUntouched DEF graphVars, FactsAccumulate

LEMMA IndexingGraph ==
  ASSUME TypeOK, GraphInv, NEW d \in Documents, IndexingStep(d)
  PROVE  GraphInv' /\ FactsAccumulate
<1>1. CASE PersistChunks(d)
  <2>1. UNCHANGED <<entities, relations, review>>
    BY <1>1, DecisionsKept DEF PersistChunks
  <2>2. evidence' = {e \in evidence : DocumentOf(e) # d}
    BY <1>1, FactsStay DEF PersistChunks
  <2>3. /\ run' = [c \in Chunks |-> IF c \in ChunksOf(d) THEN "none" ELSE run[c]]
        /\ chunkRows \subseteq chunkRows'
    BY <1>1 DEF PersistChunks, ForgetRuns
  <2> QED
    BY <2>1, <2>2, <2>3, ForgettingKeeps DEF FactsAccumulate
<1>2. CASE StartIndexing(d) \/ IndexingFails(d) \/ LateIndexFailure(d)
  <2>1. UNCHANGED graphVars
    BY <1>2 DEF StartIndexing, IndexingFails, LateIndexFailure
  <2> QED
    BY <2>1, GraphUntouched DEF graphVars, FactsAccumulate
<1> QED
  BY <1>1, <1>2 DEF IndexingStep

LEMMA ExtractionGraph ==
  ASSUME TypeOK, GraphInv, NEW d \in Documents, ExtractionStep(d)
  PROVE  GraphInv' /\ FactsAccumulate
<1>1. CASE \/ StartExtraction(d) \/ ConsolidateAgain(d)
           \/ RefreshAfterExtraction(d) \/ CompleteExtraction(d)
  <2>1. UNCHANGED graphVars
    BY <1>1 DEF StartExtraction, ConsolidateAgain, RefreshAfterExtraction, CompleteExtraction
  <2> QED
    BY <2>1, GraphUntouched DEF graphVars, FactsAccumulate
<1>2. CASE Consolidate(d)
  <2>1. RunsAdvance /\ \A c \in ChunksOf(d) : run'[c] = "succeeded"
    BY <1>2 DEF Consolidate, ConsolidationReady, RunsAdvance, GraphInv, RunsHaveChunks
  <2>2. GraphInv'
    BY <1>2, <2>1, ConsolidationKeeps DEF Consolidate
  <2>3. FactsAccumulate
    BY <1>2, RowsAdd DEF Consolidate, PersistConsolidation, FactsAccumulate
  <2> QED
    BY <2>2, <2>3
<1>3. CASE ConsolidationFails(d)
  <2>1. \A c \in ChunksOf(d) : c \in Chunks /\ run[c] = "succeeded"
    BY <1>3, ChunksOfAreChunks DEF ConsolidationFails, ConsolidationReady
  <2>2. RunsAdvance /\ \A c \in ChunksOf(d) : run'[c] = "succeeded"
    BY <1>3, <2>1
    DEF ConsolidationFails, EndAttempt, RunsAdvance, GraphInv, RunsHaveChunks
  <2>3. GraphInv'
    BY <1>3, <2>2, ConsolidationKeeps DEF ConsolidationFails
  <2>4. FactsAccumulate
    BY <1>3, RowsAdd DEF ConsolidationFails, PersistConsolidation, FactsAccumulate
  <2> QED
    BY <2>3, <2>4
<1>4. CASE ExtractionFails(d)
  <2>1. RunsAdvance /\ UNCHANGED factVars
    BY <1>4 DEF ExtractionFails, EndAttempt, RunsAdvance, TypeOK, GraphInv, RunsHaveChunks
  <2> QED
    BY <2>1, AdvancingKeeps DEF factVars, FactsAccumulate
<1>5. ASSUME NEW c \in ChunksOf(d), StartRun(c)
      PROVE  GraphInv' /\ FactsAccumulate
  <2>1. RunsAdvance /\ UNCHANGED factVars
    BY <1>5, ChunksOfAreChunks DEF StartRun, RunsAdvance, TypeOK, GraphInv, RunsHaveChunks
  <2> QED
    BY <2>1, AdvancingKeeps DEF factVars, FactsAccumulate
<1>6. ASSUME NEW c \in ChunksOf(d), FinishRun(c)
      PROVE  GraphInv' /\ FactsAccumulate
  <2>1. GraphInv'
    BY <1>6, ChunksOfAreChunks, FinishRunKeeps
  <2>2. FactsAccumulate
    BY <1>6, RowsAdd DEF FinishRun, FactsAccumulate
  <2> QED
    BY <2>1, <2>2
<1> QED
  BY <1>1, <1>2, <1>3, <1>4, <1>5, <1>6 DEF ExtractionStep

LEMMA DeletionGraph ==
  ASSUME TypeOK, GraphInv, NEW d \in Documents, DeletionStep(d)
  PROVE  GraphInv' /\ FactsAccumulate
<1>1. CASE DeleteRow(d)
  <2>1. UNCHANGED <<entities, relations, review>>
    BY <1>1, DecisionsKept DEF DeleteRow
  <2>2. evidence' = {e \in evidence : DocumentOf(e) # d}
    BY <1>1, FactsStay DEF DeleteRow
  <2>3. /\ run' = [c \in Chunks |-> IF c \in ChunksOf(d) THEN "none" ELSE run[c]]
        /\ chunkRows' = chunkRows \ ChunksOf(d)
    BY <1>1 DEF DeleteRow, RowGoes, ForgetRuns
  <2> QED
    BY <2>1, <2>2, <2>3, ForgettingKeeps DEF FactsAccumulate
<1>2. CASE DeleteNextRow(d)
  <2>1. evidence' = {e \in evidence : DocumentOf(e) # d}
    BY <1>2, UncascadedIs DEF DeleteNextRow
  <2>2. /\ UNCHANGED <<entities, relations, review>>
        /\ run' = [c \in Chunks |-> IF c \in ChunksOf(d) THEN "none" ELSE run[c]]
        /\ chunkRows' = chunkRows \ ChunksOf(d)
    BY <1>2 DEF DeleteNextRow, RowGoes, ForgetRuns
  <2> QED
    BY <2>1, <2>2, ForgettingKeeps DEF FactsAccumulate
<1>3. CASE MarkDeleting(d) \/ DeleteObject(d) \/ DeleteObjectFails(d) \/ DeleteCrashes(d)
           \/ MarkNext(d)
  <2>1. UNCHANGED graphVars
    BY <1>3 DEF MarkDeleting, DeleteObject, DeleteObjectFails, DeleteCrashes, MarkNext
  <2> QED
    BY <2>1, GraphUntouched DEF graphVars, FactsAccumulate
<1> QED
  BY <1>1, <1>2, <1>3 DEF DeletionStep

\* Only a review and the end of the dataset change what is known and decided.
LEMMA StepGraph ==
  ASSUME TypeOK, GraphInv, [Next]_vars
  PROVE  /\ GraphInv'
         /\ \/ FactsAccumulate
            \/ DeleteDatasetRow
            \/ \E r \in Relations : ReviewRelation(r)
<1>1. CASE UNCHANGED vars
  BY <1>1, GraphUntouched DEF vars, FactsAccumulate
<1>2. ASSUME NEW r \in Relations, ReviewRelation(r)
      PROVE  GraphInv'
  BY <1>2 DEF ReviewRelation, TypeOK, GraphInv, RunsHaveChunks, CitedIsThere, DecidedIsThere,
              EvidenceOfSucceededRuns, CitedEndpoints, EvidenceOf, DocumentOf
<1>3. CASE RefreshRequest \/ StartDatasetDeletion \/ DatasetRowStays
  <2>1. UNCHANGED graphVars
    BY <1>3 DEF RefreshRequest, StartDatasetDeletion, DatasetRowStays
  <2> QED
    BY <2>1, GraphUntouched DEF graphVars, FactsAccumulate
<1>4. CASE DeleteDatasetRow
  BY <1>4 DEF DeleteDatasetRow, GraphInv, RunsHaveChunks, CitedIsThere, DecidedIsThere,
              EvidenceOfSucceededRuns, CitedEndpoints
<1> QED
  BY <1>1, <1>2, <1>3, <1>4, UploadGraph, IndexingGraph, ExtractionGraph, DeletionGraph DEF Next
-----------------------------------------------------------------------------
(* The snapshots *)

\* Entities only accumulate, so the snapshot of a refresh contains every earlier
\* one, and the run it returns instead, when there is one, is no smaller.
LEMMA RefreshGrows ==
  ASSUME SnapshotsGrow, Refresh, UNCHANGED entities
  PROVE  /\ SnapshotsGrow'
         /\ latest' # NoSnapshot => entities \subseteq latest'.entities
<1>1. CurrentSnapshot.entities = entities
  BY DEF CurrentSnapshot
<1>2. CASE CurrentSnapshot \in snapshots
  <2>1. snapshots' = snapshots /\ latest' = latest
    BY <1>2 DEF Refresh
  <2> QED
    BY <1>1, <1>2, <2>1 DEF SnapshotsGrow
<1>3. CASE CurrentSnapshot \notin snapshots
  <2>1. snapshots' = snapshots \union {CurrentSnapshot} /\ latest' = CurrentSnapshot
    BY <1>3 DEF Refresh
  <2> HIDE DEF CurrentSnapshot
  <2> QED
    BY <1>1, <2>1 DEF SnapshotsGrow
<1> QED
  BY <1>2, <1>3

LEMMA StepSnapshots ==
  ASSUME Inv, [Next]_vars
  PROVE  SnapshotsGrow'
<1> USE DEF Inv
<1>1. CASE DeleteDatasetRow
  BY <1>1 DEF DeleteDatasetRow, SnapshotsGrow
<1>2. CASE RefreshRequest \/ \E d \in Documents : RefreshAfterExtraction(d)
  <2>1. Refresh /\ UNCHANGED entities
    BY <1>2 DEF RefreshRequest, RefreshAfterExtraction, graphVars
  <2> QED
    BY <2>1, RefreshGrows
<1>3. CASE ~DeleteDatasetRow /\ ~RefreshRequest
           /\ \A d \in Documents : ~RefreshAfterExtraction(d)
  <2>1. UNCHANGED analyticsVars
    <3>1. CASE UNCHANGED vars
      BY <3>1 DEF vars, analyticsVars
    <3>2. ASSUME NEW d \in Documents, UploadStep(d) \/ IndexingStep(d)
          PROVE  UNCHANGED analyticsVars
      BY <3>2 DEF UploadStep, StoreObject, StoreFails, CommitUpload, UploadCrashes, IndexingStep,
                  StartIndexing, PersistChunks, IndexingFails, LateIndexFailure
    <3>3. ASSUME NEW d \in Documents, ExtractionStep(d)
          PROVE  UNCHANGED analyticsVars
      BY <1>3, <3>3 DEF ExtractionStep, StartExtraction, Consolidate, ConsolidateAgain,
           ConsolidationFails, ExtractionFails, CompleteExtraction, StartRun, FinishRun
    <3>4. ASSUME NEW d \in Documents, DeletionStep(d)
          PROVE  UNCHANGED analyticsVars
      BY <3>4 DEF DeletionStep, MarkDeleting, DeleteObject, DeleteObjectFails, DeleteRow,
                  DeleteCrashes, MarkNext, DeleteNextRow
    <3>5. CASE (\E r \in Relations : ReviewRelation(r)) \/ StartDatasetDeletion
               \/ DatasetRowStays
      BY <3>5 DEF ReviewRelation, StartDatasetDeletion, DatasetRowStays
    <3> QED
      BY <1>3, <3>1, <3>2, <3>3, <3>4, <3>5 DEF Next
  <2>2. entities \subseteq entities'
    BY <1>3, StepGraph DEF FactsAccumulate, ReviewRelation
  <2> QED
    BY <2>1, <2>2, SnapshotsUntouched
<1> QED
  BY <1>1, <1>2, <1>3

-----------------------------------------------------------------------------
(* The stage of the graph *)

\* What the stage of document e depends on is left alone.
StageUntouched(e) ==
    /\ stage'[e] = stage[e] /\ graphJob'[e] = graphJob[e] /\ extraction'[e] = extraction[e]
    /\ consolidation'[e] = consolidation[e]
    /\ indexJob[e] = "succeeded" => indexJob'[e] = "succeeded"
    /\ \A c \in ChunksOf(e) : run'[c] = run[c] /\ (c \in chunkRows => c \in chunkRows')

LEMMA UntouchedIsEarned ==
  ASSUME NEW e \in Documents, StageIsEarned(e), StageUntouched(e)
  PROVE  StageIsEarned(e)'
BY DEF StageIsEarned, StageUntouched, GraphIsWhole

LEMMA InitStages == Init => StagesAreEarned
BY DEF Init, StagesAreEarned, StageIsEarned

\* Chunks of different documents are different.
LEMMA OtherChunks ==
  ASSUME NEW d \in Documents, NEW e \in Documents, e # d, NEW c \in ChunksOf(e)
  PROVE  c \notin ChunksOf(d) /\ c \in Chunks /\ c[1] = e
BY DEF ChunksOf, Chunks

LEMMA UploadStages ==
  ASSUME TypeOK, StagesAreEarned, NEW d \in Documents, UploadStep(d)
  PROVE  StagesAreEarned'
<1> SUFFICES ASSUME lateFailures' = 0, NEW e \in Documents
             PROVE  StageIsEarned(e)'
  BY DEF StagesAreEarned
<1>1. CASE StoreObject(d)
  <2>1. StageIsEarned(d) /\ StageIsEarned(e)
    BY <1>1 DEF StoreObject, jobVars, boundVars, graphVars, StagesAreEarned
  <2>2. CASE e # d
    <3>1. StageUntouched(e)
      BY <1>1, <2>2, OtherChunks
      DEF StoreObject, jobVars, boundVars, graphVars, StageUntouched, TypeOK
    <3> QED
      BY <2>1, <3>1, UntouchedIsEarned
  <2>3. CASE e = d
    BY <1>1, <2>1, <2>3, ChunksOfAreChunks
    DEF StoreObject, jobVars, boundVars, graphVars, StageIsEarned, GraphIsWhole, TypeOK
  <2> QED
    BY <2>2, <2>3
<1>2. CASE StoreFails(d)
  <2>1. StageIsEarned(d) /\ StageIsEarned(e)
    BY <1>2 DEF StoreFails, graphVars, StagesAreEarned
  <2>2. CASE e # d
    <3>1. StageUntouched(e)
      BY <1>2, <2>2, OtherChunks
      DEF StoreFails, graphVars, StageUntouched, TypeOK
    <3> QED
      BY <2>1, <3>1, UntouchedIsEarned
  <2>3. CASE e = d
    BY <1>2, <2>1, <2>3, ChunksOfAreChunks
    DEF StoreFails, graphVars, StageIsEarned, GraphIsWhole, TypeOK
  <2> QED
    BY <2>2, <2>3
<1>3. CASE CommitUpload(d)
  <2>1. StageIsEarned(d) /\ StageIsEarned(e)
    BY <1>3 DEF CommitUpload, boundVars, graphVars, StagesAreEarned
  <2>2. CASE e # d
    <3>1. StageUntouched(e)
      BY <1>3, <2>2, OtherChunks
      DEF CommitUpload, boundVars, graphVars, StageUntouched, TypeOK
    <3> QED
      BY <2>1, <3>1, UntouchedIsEarned
  <2>3. CASE e = d
    BY <1>3, <2>1, <2>3, ChunksOfAreChunks
    DEF CommitUpload, boundVars, graphVars, StageIsEarned, GraphIsWhole, TypeOK
  <2> QED
    BY <2>2, <2>3
<1>4. CASE UploadCrashes(d)
  <2>1. StageIsEarned(d) /\ StageIsEarned(e)
    BY <1>4 DEF UploadCrashes, graphVars, StagesAreEarned
  <2>2. CASE e # d
    <3>1. StageUntouched(e)
      BY <1>4, <2>2, OtherChunks
      DEF UploadCrashes, graphVars, StageUntouched, TypeOK
    <3> QED
      BY <2>1, <3>1, UntouchedIsEarned
  <2>3. CASE e = d
    BY <1>4, <2>1, <2>3, ChunksOfAreChunks
    DEF UploadCrashes, graphVars, StageIsEarned, GraphIsWhole, TypeOK
  <2> QED
    BY <2>2, <2>3
<1> QED
  BY <1>1, <1>2, <1>3, <1>4 DEF UploadStep

LEMMA IndexingStages ==
  ASSUME TypeOK, StagesAreEarned, NEW d \in Documents, IndexingStep(d)
  PROVE  StagesAreEarned'
<1> SUFFICES ASSUME lateFailures' = 0, NEW e \in Documents
             PROVE  StageIsEarned(e)'
  BY DEF StagesAreEarned
<1>1. CASE StartIndexing(d)
  <2>1. StageIsEarned(d) /\ StageIsEarned(e)
    BY <1>1 DEF StartIndexing, boundVars, graphVars, StagesAreEarned
  <2>2. CASE e # d
    <3>1. StageUntouched(e)
      BY <1>1, <2>2, OtherChunks
      DEF StartIndexing, boundVars, graphVars, StageUntouched, TypeOK
    <3> QED
      BY <2>1, <3>1, UntouchedIsEarned
  <2>3. CASE e = d
    BY <1>1, <2>1, <2>3, ChunksOfAreChunks
    DEF StartIndexing, boundVars, graphVars, StageIsEarned, GraphIsWhole, TypeOK
  <2> QED
    BY <2>2, <2>3
<1>2. CASE PersistChunks(d)
  <2>1. StageIsEarned(d) /\ StageIsEarned(e)
    BY <1>2 DEF PersistChunks, ForgetRuns, boundVars, StagesAreEarned
  <2>2. CASE e # d
    <3>1. StageUntouched(e)
      BY <1>2, <2>2, OtherChunks
      DEF PersistChunks, ForgetRuns, boundVars, StageUntouched, TypeOK
    <3> QED
      BY <2>1, <3>1, UntouchedIsEarned
  <2>3. CASE e = d
    BY <1>2, <2>1, <2>3, ChunksOfAreChunks
    DEF PersistChunks, ForgetRuns, boundVars, StageIsEarned, GraphIsWhole, TypeOK
  <2> QED
    BY <2>2, <2>3
<1>3. CASE IndexingFails(d)
  <2>1. StageIsEarned(d) /\ StageIsEarned(e)
    BY <1>3 DEF IndexingFails, graphVars, StagesAreEarned
  <2>2. CASE e # d
    <3>1. StageUntouched(e)
      BY <1>3, <2>2, OtherChunks
      DEF IndexingFails, graphVars, StageUntouched, TypeOK
    <3> QED
      BY <2>1, <3>1, UntouchedIsEarned
  <2>3. CASE e = d
    BY <1>3, <2>1, <2>3, ChunksOfAreChunks
    DEF IndexingFails, graphVars, StageIsEarned, GraphIsWhole, TypeOK
  <2> QED
    BY <2>2, <2>3
<1>4. CASE LateIndexFailure(d)
  BY <1>4 DEF LateIndexFailure, TypeOK
<1> QED
  BY <1>1, <1>2, <1>3, <1>4 DEF IndexingStep

LEMMA ExtractionStages ==
  ASSUME TypeOK, StagesAreEarned, NEW d \in Documents, ExtractionStep(d)
  PROVE  StagesAreEarned'
<1> SUFFICES ASSUME lateFailures' = 0, NEW e \in Documents
             PROVE  StageIsEarned(e)'
  BY DEF StagesAreEarned
<1>1. CASE StartExtraction(d)
  <2>1. StageIsEarned(d) /\ StageIsEarned(e)
    BY <1>1 DEF StartExtraction, graphVars, StagesAreEarned
  <2>2. CASE e # d
    <3>1. StageUntouched(e)
      BY <1>1, <2>2, OtherChunks
      DEF StartExtraction, graphVars, StageUntouched, TypeOK
    <3> QED
      BY <2>1, <3>1, UntouchedIsEarned
  <2>3. CASE e = d
    BY <1>1, <2>1, <2>3, ChunksOfAreChunks
    DEF StartExtraction, graphVars, StageIsEarned, GraphIsWhole, TypeOK
  <2> QED
    BY <2>2, <2>3
<1>2. CASE Consolidate(d)
  <2>1. StageIsEarned(d) /\ StageIsEarned(e)
    BY <1>2 DEF Consolidate, documentVars, boundVars, StagesAreEarned
  <2>2. CASE e # d
    <3>1. StageUntouched(e)
      BY <1>2, <2>2, OtherChunks
      DEF Consolidate, documentVars, boundVars, StageUntouched, TypeOK
    <3> QED
      BY <2>1, <3>1, UntouchedIsEarned
  <2>3. CASE e = d
    BY <1>2, <2>1, <2>3, ChunksOfAreChunks
    DEF Consolidate, documentVars, boundVars, ConsolidationReady, StageIsEarned,
        GraphIsWhole, TypeOK
  <2> QED
    BY <2>2, <2>3
<1>3. CASE ConsolidateAgain(d)
  <2>1. StageIsEarned(d) /\ StageIsEarned(e)
    BY <1>3 DEF ConsolidateAgain, documentVars, boundVars, graphVars, StagesAreEarned
  <2>2. CASE e # d
    <3>1. StageUntouched(e)
      BY <1>3, <2>2, OtherChunks
      DEF ConsolidateAgain, documentVars, boundVars, graphVars, StageUntouched, TypeOK
    <3> QED
      BY <2>1, <3>1, UntouchedIsEarned
  <2>3. CASE e = d
    BY <1>3, <2>1, <2>3, ChunksOfAreChunks
    DEF ConsolidateAgain, documentVars, boundVars, graphVars, ConsolidationReady,
        StageIsEarned, GraphIsWhole, TypeOK
  <2> QED
    BY <2>2, <2>3
<1>4. CASE ConsolidationFails(d)
  <2>1. StageIsEarned(d) /\ StageIsEarned(e)
    BY <1>4 DEF ConsolidationFails, EndAttempt, StagesAreEarned
  <2>2. CASE e # d
    <3>1. StageUntouched(e)
      BY <1>4, <2>2, OtherChunks
      DEF ConsolidationFails, EndAttempt, StageUntouched, TypeOK
    <3> QED
      BY <2>1, <3>1, UntouchedIsEarned
  <2>3. CASE e = d
    BY <1>4, <2>1, <2>3, ChunksOfAreChunks
    DEF ConsolidationFails, EndAttempt, ConsolidationReady, StageIsEarned, GraphIsWhole,
        TypeOK
  <2> QED
    BY <2>2, <2>3
<1>5. CASE ExtractionFails(d)
  <2>1. StageIsEarned(d) /\ StageIsEarned(e)
    BY <1>5 DEF ExtractionFails, EndAttempt, StagesAreEarned
  <2>2. CASE e # d
    <3>1. StageUntouched(e)
      BY <1>5, <2>2, OtherChunks
      DEF ExtractionFails, EndAttempt, StageUntouched, TypeOK
    <3> QED
      BY <2>1, <3>1, UntouchedIsEarned
  <2>3. CASE e = d
    BY <1>5, <2>1, <2>3, ChunksOfAreChunks
    DEF ExtractionFails, EndAttempt, StageIsEarned, GraphIsWhole, TypeOK
  <2> QED
    BY <2>2, <2>3
<1>6. CASE RefreshAfterExtraction(d)
  <2>1. StageIsEarned(d) /\ StageIsEarned(e)
    BY <1>6 DEF RefreshAfterExtraction, documentVars, boundVars, graphVars, StagesAreEarned
  <2>2. CASE e # d
    <3>1. StageUntouched(e)
      BY <1>6, <2>2, OtherChunks
      DEF RefreshAfterExtraction, documentVars, boundVars, graphVars, StageUntouched, TypeOK
    <3> QED
      BY <2>1, <3>1, UntouchedIsEarned
  <2>3. CASE e = d
    BY <1>6, <2>1, <2>3, ChunksOfAreChunks
    DEF RefreshAfterExtraction, documentVars, boundVars, graphVars, StageIsEarned,
        GraphIsWhole, TypeOK
  <2> QED
    BY <2>2, <2>3
<1>7. CASE CompleteExtraction(d)
  <2>1. StageIsEarned(d) /\ StageIsEarned(e)
    BY <1>7 DEF CompleteExtraction, boundVars, graphVars, StagesAreEarned
  <2>2. CASE e # d
    <3>1. StageUntouched(e)
      BY <1>7, <2>2, OtherChunks
      DEF CompleteExtraction, boundVars, graphVars, StageUntouched, TypeOK
    <3> QED
      BY <2>1, <3>1, UntouchedIsEarned
  <2>3. CASE e = d
    BY <1>7, <2>1, <2>3, ChunksOfAreChunks
    DEF CompleteExtraction, boundVars, graphVars, StageIsEarned, GraphIsWhole, TypeOK
  <2> QED
    BY <2>2, <2>3
<1>8. ASSUME NEW c \in ChunksOf(d), FinishRun(c)
      PROVE  StageIsEarned(e)'
  <2>1. c \in Chunks /\ c[1] = d
    BY DEF Chunks, ChunksOf
  <2>2. StageIsEarned(d) /\ StageIsEarned(e)
    BY <1>8 DEF FinishRun, documentVars, jobVars, boundVars, StagesAreEarned
  <2>3. CASE e # d
    <3>1. StageUntouched(e)
      BY <1>8, <2>1, <2>3, OtherChunks
      DEF FinishRun, documentVars, jobVars, boundVars, StageUntouched, TypeOK
    <3> QED
      BY <2>2, <3>1, UntouchedIsEarned
  <2>4. CASE e = d
    BY <1>8, <2>1, <2>2, <2>4 DEF FinishRun, documentVars, jobVars, boundVars, StageIsEarned
  <2> QED
    BY <2>3, <2>4
<1>9. ASSUME NEW c \in ChunksOf(d), StartRun(c)
      PROVE  StageIsEarned(e)'
  <2>1. c \in Chunks /\ c[1] = d
    BY DEF Chunks, ChunksOf
  <2>2. StageIsEarned(d) /\ StageIsEarned(e)
    BY <1>9 DEF StartRun, documentVars, jobVars, boundVars, StagesAreEarned
  <2>3. CASE e # d
    <3>1. StageUntouched(e)
      BY <1>9, <2>1, <2>3, OtherChunks
      DEF StartRun, documentVars, jobVars, boundVars, StageUntouched, TypeOK
    <3> QED
      BY <2>2, <3>1, UntouchedIsEarned
  <2>4. CASE e = d
    BY <1>9, <2>1, <2>2, <2>4 DEF StartRun, documentVars, jobVars, boundVars, StageIsEarned
  <2> QED
    BY <2>3, <2>4
<1> QED
  BY <1>1, <1>2, <1>3, <1>4, <1>5, <1>6, <1>7, <1>8, <1>9 DEF ExtractionStep

LEMMA DeletionStages ==
  ASSUME TypeOK, StagesAreEarned, NEW d \in Documents, DeletionStep(d)
  PROVE  StagesAreEarned'
<1> SUFFICES ASSUME lateFailures' = 0, NEW e \in Documents
             PROVE  StageIsEarned(e)'
  BY DEF StagesAreEarned
<1>1. CASE MarkDeleting(d)
  <2>1. StageIsEarned(d) /\ StageIsEarned(e)
    BY <1>1 DEF MarkDeleting, Marked, graphVars, StagesAreEarned
  <2>2. CASE e # d
    <3>1. StageUntouched(e)
      BY <1>1, <2>2, OtherChunks
      DEF MarkDeleting, Marked, graphVars, StageUntouched, TypeOK
    <3> QED
      BY <2>1, <3>1, UntouchedIsEarned
  <2>3. CASE e = d
    BY <1>1, <2>1, <2>3, ChunksOfAreChunks
    DEF MarkDeleting, Marked, graphVars, StageIsEarned, GraphIsWhole, TypeOK
  <2> QED
    BY <2>2, <2>3
<1>2. CASE DeleteObject(d)
  <2>1. StageIsEarned(d) /\ StageIsEarned(e)
    BY <1>2 DEF DeleteObject, jobVars, boundVars, graphVars, StagesAreEarned
  <2>2. CASE e # d
    <3>1. StageUntouched(e)
      BY <1>2, <2>2, OtherChunks
      DEF DeleteObject, jobVars, boundVars, graphVars, StageUntouched, TypeOK
    <3> QED
      BY <2>1, <3>1, UntouchedIsEarned
  <2>3. CASE e = d
    BY <1>2, <2>1, <2>3, ChunksOfAreChunks
    DEF DeleteObject, jobVars, boundVars, graphVars, StageIsEarned, GraphIsWhole, TypeOK
  <2> QED
    BY <2>2, <2>3
<1>3. CASE DeleteObjectFails(d)
  <2>1. StageIsEarned(d) /\ StageIsEarned(e)
    BY <1>3 DEF DeleteObjectFails, graphVars, StagesAreEarned
  <2>2. CASE e # d
    <3>1. StageUntouched(e)
      BY <1>3, <2>2, OtherChunks
      DEF DeleteObjectFails, graphVars, StageUntouched, TypeOK
    <3> QED
      BY <2>1, <3>1, UntouchedIsEarned
  <2>3. CASE e = d
    BY <1>3, <2>1, <2>3, ChunksOfAreChunks
    DEF DeleteObjectFails, graphVars, StageIsEarned, GraphIsWhole, TypeOK
  <2> QED
    BY <2>2, <2>3
<1>4. CASE DeleteRow(d)
  <2>1. StageIsEarned(d) /\ StageIsEarned(e)
    BY <1>4 DEF DeleteRow, RowGoes, ForgetRuns, boundVars, StagesAreEarned
  <2>2. CASE e # d
    <3>1. StageUntouched(e)
      BY <1>4, <2>2, OtherChunks
      DEF DeleteRow, RowGoes, ForgetRuns, boundVars, StageUntouched, TypeOK
    <3> QED
      BY <2>1, <3>1, UntouchedIsEarned
  <2>3. CASE e = d
    BY <1>4, <2>1, <2>3, ChunksOfAreChunks
    DEF DeleteRow, RowGoes, ForgetRuns, boundVars, StageIsEarned, GraphIsWhole, TypeOK
  <2> QED
    BY <2>2, <2>3
<1>5. CASE DeleteCrashes(d)
  <2>1. StageIsEarned(d) /\ StageIsEarned(e)
    BY <1>5 DEF DeleteCrashes, graphVars, StagesAreEarned
  <2>2. CASE e # d
    <3>1. StageUntouched(e)
      BY <1>5, <2>2, OtherChunks
      DEF DeleteCrashes, graphVars, StageUntouched, TypeOK
    <3> QED
      BY <2>1, <3>1, UntouchedIsEarned
  <2>3. CASE e = d
    BY <1>5, <2>1, <2>3, ChunksOfAreChunks
    DEF DeleteCrashes, graphVars, StageIsEarned, GraphIsWhole, TypeOK
  <2> QED
    BY <2>2, <2>3
<1>6. CASE MarkNext(d)
  <2>1. StageIsEarned(d) /\ StageIsEarned(e)
    BY <1>6 DEF MarkNext, Marked, jobVars, boundVars, graphVars, StagesAreEarned
  <2>2. CASE e # d
    <3>1. StageUntouched(e)
      BY <1>6, <2>2, OtherChunks
      DEF MarkNext, Marked, jobVars, boundVars, graphVars, StageUntouched, TypeOK
    <3> QED
      BY <2>1, <3>1, UntouchedIsEarned
  <2>3. CASE e = d
    BY <1>6, <2>1, <2>3, ChunksOfAreChunks
    DEF MarkNext, Marked, jobVars, boundVars, graphVars, StageIsEarned, GraphIsWhole, TypeOK
  <2> QED
    BY <2>2, <2>3
<1>7. CASE DeleteNextRow(d)
  <2>1. StageIsEarned(d) /\ StageIsEarned(e)
    BY <1>7 DEF DeleteNextRow, RowGoes, ForgetRuns, boundVars, StagesAreEarned
  <2>2. CASE e # d
    <3>1. StageUntouched(e)
      BY <1>7, <2>2, OtherChunks
      DEF DeleteNextRow, RowGoes, ForgetRuns, boundVars, StageUntouched, TypeOK
    <3> QED
      BY <2>1, <3>1, UntouchedIsEarned
  <2>3. CASE e = d
    BY <1>7, <2>1, <2>3, ChunksOfAreChunks
    DEF DeleteNextRow, RowGoes, ForgetRuns, boundVars, StageIsEarned, GraphIsWhole, TypeOK
  <2> QED
    BY <2>2, <2>3
<1> QED
  BY <1>1, <1>2, <1>3, <1>4, <1>5, <1>6, <1>7 DEF DeletionStep

LEMMA StepStages ==
  ASSUME TypeOK, StagesAreEarned, [Next]_vars
  PROVE  StagesAreEarned'
<1>1. CASE UNCHANGED vars
  BY <1>1 DEF vars, StagesAreEarned, StageIsEarned, GraphIsWhole
<1>2. CASE DeleteDatasetRow
  BY <1>2 DEF DeleteDatasetRow, StagesAreEarned, StageIsEarned
<1>3. CASE RefreshRequest \/ StartDatasetDeletion \/ DatasetRowStays
           \/ \E r \in Relations : ReviewRelation(r)
  <2>1. UNCHANGED <<stage, indexJob, graphJob, extraction, lateFailures, chunkRows, run,
                    consolidation>>
    BY <1>3 DEF RefreshRequest, StartDatasetDeletion, DatasetRowStays, ReviewRelation,
                documentVars, jobVars, boundVars, graphVars
  <2> QED
    BY <2>1 DEF StagesAreEarned, StageIsEarned, GraphIsWhole
<1> QED
  BY <1>1, <1>2, <1>3, UploadStages, IndexingStages, ExtractionStages, DeletionStages DEF Next

LEMMA StepInv ==
  ASSUME Inv, [Next]_vars
  PROVE  Inv'
BY NextType, StepGraph, StepSnapshots, StepStages DEF Inv

\* The inductive invariant.
THEOREM Invariance == Spec => []Inv
<1>1. Init => Inv
  BY InitType, InitGraph, InitStages DEF Inv
<1>2. Inv /\ [Next]_vars => Inv'
  BY StepInv
<1> QED
  BY <1>1, <1>2, PTL DEF Spec

-----------------------------------------------------------------------------
(* What it means *)

\* No evidence outlives its chunk, and none is there of a chunk whose extraction
\* is under way or failed, whatever retries, re-indexing, deletions and crashes
\* happen (_persist_chunk_result, extract_document, the cascades of chunks).
THEOREM EvidenceSucceeded == Spec => []EvidenceOfSucceededRuns
<1>1. Inv => EvidenceOfSucceededRuns
  BY DEF Inv, GraphInv
<1> QED
  BY <1>1, Invariance, PTL

\* Every relation quoted from a document has both its endpoints quoted from the
\* same document (_persist_chunk_result, _persist_consolidation_output).
THEOREM EndpointsCited == Spec => []CitedEndpoints
<1>1. Inv => CitedEndpoints
  BY DEF Inv, GraphInv
<1> QED
  BY <1>1, Invariance, PTL

\* A document a client is told of as INDEXED with a complete graph has every chunk
\* extracted and is consolidated, whatever is uploaded, deleted and retried
\* beside it (documents.serialize), unless an execution that had lost its job
\* failed late.
THEOREM ReportsAreTrue == Spec => []ReportedCompleteIsComplete
<1>1. Inv => ReportedCompleteIsComplete
  BY DEF Inv, StagesAreEarned, StageIsEarned, GraphIsWhole, ReportedCompleteIsComplete,
         ReportedComplete
<1> QED
  BY <1>1, Invariance, PTL

\* cleanup_document_graph removes no entity and no relation, ever: only the end
\* of the dataset does.
THEOREM NothingCollected == Spec => NothingIsCollected
<1>1. Inv /\ [Next]_vars => [\/ dataset' = "gone"
                             \/ entities \subseteq entities' /\ relations \subseteq relations']_vars
  BY StepGraph DEF Inv, FactsAccumulate, DeleteDatasetRow, ReviewRelation
<1> QED
  BY <1>1, Invariance, PTL DEF Spec, NothingIsCollected

\* A reviewer's decision is changed by a reviewer or ends with the dataset.
THEOREM DecisionsOutlive == Spec => DecisionsStay
<1> DEFINE Stays == \A r \in Relations : review[r] # "open" =>
                        \/ review'[r] = review[r]
                        \/ dataset' = "gone"
                        \/ review'[r] # "open" /\ UNCHANGED <<documentVars, evidence>>
<1>1. Inv /\ [Next]_vars => [Stays]_vars
  <2> SUFFICES ASSUME Inv, [Next]_vars
               PROVE  Stays
    OBVIOUS
  <2>1. CASE FactsAccumulate
    BY <2>1 DEF FactsAccumulate
  <2>2. CASE DeleteDatasetRow
    BY <2>2 DEF DeleteDatasetRow
  <2>3. ASSUME NEW q \in Relations, ReviewRelation(q)
        PROVE  Stays
    <3>1. UNCHANGED <<documentVars, evidence>>
      BY <2>3 DEF ReviewRelation
    <3>2. \A r \in Relations : r # q => review'[r] = review[r]
      BY <2>3 DEF ReviewRelation, Inv, TypeOK
    <3>3. review'[q] # "open"
      BY <2>3 DEF ReviewRelation, Inv, TypeOK
    <3> QED
      BY <3>1, <3>2, <3>3
  <2> QED
    BY <2>1, <2>2, <2>3, StepGraph DEF Inv
<1> QED
  BY <1>1, Invariance, PTL DEF Spec, DecisionsStay

\* After every refresh the explorer can show every supported entity, though the
\* refresh may have returned an older run (refresh_dataset_analytics,
\* build_explorer_view).
THEOREM RefreshShows == Spec => RefreshShowsAll
<1> DEFINE Shows == RefreshRequest \/ (\E d \in Documents : RefreshAfterExtraction(d))
                        => SupportedEntities' \subseteq ExplorerNodes'
<1>1. Inv /\ [Next]_vars => [Shows]_vars
  <2> SUFFICES ASSUME Inv, RefreshRequest \/ \E d \in Documents : RefreshAfterExtraction(d)
               PROVE  SupportedEntities' \subseteq ExplorerNodes'
    OBVIOUS
  <2>1. Refresh /\ UNCHANGED entities
    BY DEF RefreshRequest, RefreshAfterExtraction, graphVars
  <2>2. latest' # NoSnapshot => entities' \subseteq latest'.entities
    BY <2>1, RefreshGrows DEF Inv
  <2>3. SupportedEntities' \subseteq entities'
    BY DEF SupportedEntities
  <2> QED
    BY <2>2, <2>3 DEF ExplorerNodes
<1> QED
  BY <1>1, Invariance, PTL DEF Spec, RefreshShowsAll
=============================================================================

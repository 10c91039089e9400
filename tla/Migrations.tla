----------------------------- MODULE Migrations -----------------------------
(***************************************************************************)
(* The schema migrations of the database, apps/api/migrations: what each   *)
(* revision creates and drops, what it does to the rows that are there,    *)
(* and alembic's upgrade and downgrade commands, which go from revision to *)
(* revision in one transaction (env.py), on databases first installed with *)
(* any release.                                                            *)
(*                                                                         *)
(* A schema is a set of objects: tables <<t, "table">>, their parts <<t, p>>*)
(* that a revision creates, tests or drops by name (columns, constraints,  *)
(* indexes), and types <<"type", t>>.  A part that comes and goes with its *)
(* table is not named.  Revision 0020 does not exist.                      *)
(***************************************************************************)
EXTENDS Integers, Sequences

CONSTANTS Jobs, Installed   \* indexing jobs; releases a database is installed with

VARIABLES
    version,        \* the revision the database is at, alembic_version; 0 when empty
    schema,         \* the objects of the database
    data,           \* its rows
    command,        \* the command that runs: its transaction's schema and rows
    refused         \* the last command failed: "none", "upgrade" or "downgrade"

migVars == <<version, schema, data, command, refused>>

Newest == 28
Revisions == 1..19 \union 21..Newest

ASSUME InstalledAssumption == Installed \subseteq Revisions

-----------------------------------------------------------------------------
(* Statements.  What one revision does with an object it does in the order *)
(* drop, ensure, create, and those on different objects commute, so that a *)
(* script is three sets.  A creation fails if an object is there or a part *)
(* has no table, a drop if one is missing; "ensure" inspects first.  A     *)
(* dropped table takes its parts.                                          *)

Create(objects) == [drop |-> {}, ensure |-> {}, create |-> objects]
Ensure(objects) == [drop |-> {}, ensure |-> objects, create |-> {}]
Drop(objects) == [drop |-> objects, ensure |-> {}, create |-> {}]
Replace(objects) == [drop |-> objects, ensure |-> {}, create |-> objects]
Tables(names) == names \X {"table"}
Parts(table, names) == {table} \X names
Types(names) == Parts("type", names)
TableOf(o) == <<o[1], "table">>

Without(db, objects) == {o \in db : o \notin objects /\ TableOf(o) \notin objects}
After(db, s) == Without(db, s.drop) \union s.ensure \union s.create
Executes(db, s) ==
    /\ s.drop \subseteq db
    /\ s.create \intersect Without(db, s.drop) = {}
    /\ \A o \in s.ensure \union s.create : o[1] = "type" \/ TableOf(o) \in After(db, s)

\* A migration that is a table being added: its downgrade drops it.
Adds(objects) == [up |-> Create(objects), down |-> Drop(objects)]

Foundation == Adds(Tables({"projects", "api_keys"}))
DatasetsDocuments == Adds(Tables({"datasets", "documents"})
                            \union Types({"document_status", "dataset_status"}))
IngestionPipeline ==
    Adds(Tables({"indexing_jobs", "chunks", "indexing_artifacts", "indexing_stage_events"})
           \union Types({"indexing_job_status", "indexing_stage"}))
QueryLogTables == Tables({"query_logs"}) \union Parts("query_logs", {"scope_created"})
QueryLogs == Adds(QueryLogTables)
IndexingOutbox == Adds(Tables({"indexing_outbox"}))

\* 0006 creates its tables from the models as they are in the release that runs
\* it: they have the columns and indexes that 0008, 0018 and 0019 add as soon as
\* the release has these revisions.
GraphTables == {"graph_extraction_runs", "canonical_entities", "entity_aliases",
                "relation_assertions", "graph_evidence", "entity_merge_history"}
UpdatedOnly == {"graph_extraction_runs", "canonical_entities", "entity_merge_history"}
Temporal == {"valid_from", "valid_until", "superseded_by", "ix_temporal"}
TemporalParts == {"canonical_entities", "relation_assertions"} \X Temporal
RawExtraction == Parts("graph_extraction_runs", {"raw_extraction"})
Timestamps == GraphTables \X {"created_at", "updated_at"}
KeptTimestamps == UpdatedOnly \X {"created_at"}
AddedTimestamps == Timestamps \ KeptTimestamps
GraphPersistence(release) ==
    [up |-> Ensure(Tables(GraphTables) \union KeptTimestamps
                     \union (IF release >= 8 THEN AddedTimestamps ELSE {})
                     \union (IF release >= 18 THEN RawExtraction ELSE {})
                     \union (IF release >= 19 THEN TemporalParts ELSE {})),
     down |-> Drop({})]

GraphOutbox == Adds(Tables({"graph_extraction_jobs", "graph_extraction_outbox"})
                      \union Parts("documents", {"graph_stage"}))
\* Only the columns that are missing are added; the downgrade drops them all
\* but the creation times that three tables always had.
ArtifactTimestamps == [up |-> Ensure(Timestamps), down |-> Drop(AddedTimestamps)]
CleanupOutbox == Adds(Tables({"graph_cleanup_outbox"}))
CleanupLeases == Adds(Parts("graph_cleanup_outbox",
    {"lease_expires_at", "execution_lease_expires_at", "next_attempt_at", "dead_lettered_at",
     "ix_lease", "ix_execution_lease", "ix_ready"}))
MemoryTables == Tables({"memory_users", "memory_agents", "memory_sessions", "memory_messages",
                        "memory_facts"})
MemoryIndexes == Parts("memory_facts", {"ix_subject", "ix_scope_status"})
                   \union {<<"memory_messages", "ix_session_created">>,
                           <<"memory_sessions", "ix_scope">>}
MemoryPreview ==
    [up |-> [Create(MemoryTables \union MemoryIndexes) EXCEPT
                !.ensure = Types({"memory_fact_status"})],
     down |-> Drop(MemoryIndexes \union MemoryTables \union Types({"memory_fact_status"}))]
Analytics == Adds(Tables({"graph_analytics_runs", "graph_analytics_memberships",
                          "graph_analytics_entity_metrics", "graph_analytics_communities"})
                    \union Parts("graph_analytics_runs", {"ix_latest"}))
ReportTables == Tables({"community_report_jobs", "community_report_outbox", "community_reports",
                        "community_report_evidence"})
ReportIndexes == Parts("community_report_jobs", {"ix_scope", "ix_dispatch"})
                   \union Parts("community_reports", {"ix_scope"})
ReportInput == Parts("community_report_jobs", {"uq_input"})
CommunityReports ==
    [up |-> [Create(ReportTables \union ReportIndexes \union ReportInput) EXCEPT
                !.ensure = Types({"community_report_status"})],
     down |-> Drop(ReportIndexes \union ReportTables \union Types({"community_report_status"}))]
ReportLevels == {"community_report_jobs", "community_reports"} \X {"level", "ck_level"}
HierarchyParts ==
    Parts("graph_analytics_runs", {"levels", "algorithm_version", "config"})
      \union Parts("graph_analytics_memberships", {"level", "ck_level"})
      \union Parts("graph_analytics_communities",
                   {"level", "parent_community_id", "internal_edges", "external_edges",
                    "density", "importance"})
\* The primary keys and the unique key are replaced: theirs with the level.
Hierarchy == [up |-> [Replace(ReportInput) EXCEPT
                         !.create = @ \union HierarchyParts \union ReportLevels],
              down |-> [Replace(ReportInput) EXCEPT
                         !.drop = @ \union HierarchyParts \union ReportLevels]]

\* The downgrade makes the tables as 0014 left them; the types were kept.
Obsolete == MemoryTables \union ReportTables \union Tables({"query_logs"})
RestoredObsolete == Obsolete \union MemoryIndexes \union ReportIndexes \union ReportInput
                      \union ReportLevels \union Parts("query_logs", {"scope_created"})
\* *Mutant:* the downgrade makes them as 0013 did.
RestoredUnlevelled == RestoredObsolete \ ReportLevels
DropUnlevelled == [up |-> Drop(Obsolete), down |-> Create(RestoredUnlevelled)]

DropObsolete == [up |-> Drop(Obsolete), down |-> Create(RestoredObsolete)]

\* The types are renamed, made anew and the old ones dropped; what it does to
\* the rows is RowsUp, below.  0017 does nothing.
ReplacedEnums == Types({"document_status", "indexing_stage"})
ReplaceEnums == [up |-> Replace(ReplacedEnums), down |-> Replace(ReplacedEnums)]
ExplorerIndexes == Adds({})
Consolidated == Tables({"graph_consolidation_runs", "entity_alias_evidence"})
                  \union Parts("graph_consolidation_runs", {"ix_scope"})
Consolidation == [up |-> Ensure(RawExtraction \union Consolidated),
                  down |-> Drop(Consolidated \union RawExtraction)]
\* *Mutant:* the columns are in the models, so nothing is left to add or drop.
TemporalFromModels == Adds({})
TemporalTracking == [up |-> Ensure(TemporalParts), down |-> Drop(TemporalParts)]

StatusCheck == Parts("agent_memory_episodes", {"ck_status"})
AgentMemory == Adds(Tables(
    {"agent_memory_episodes", "agent_memory_attempts", "agent_memory_outcomes",
     "agent_memory_verifiers", "agent_memory_evidence", "agent_memory_patterns",
     "agent_memory_pattern_members", "agent_memory_retrieval_audit"}) \union StatusCheck)
MemoryTimestamps == Adds({"agent_memory_attempts", "agent_memory_outcomes"} \X {"created_at"})
SupersessionIntegrity == Adds(Parts("agent_memory_patterns",
    {"superseded_by_key", "ck_confidence_bounds", "ck_not_self_superseded"}))
LegalHold == Adds(Tables({"legal_holds"}))
RetentionPolicy == Adds(Tables({"retention_policies", "audit_logs", "idempotency_keys"}))
MemoryTypes == Adds(Parts("agent_memory_episodes",
    {"type", "content", "confidence", "version", "root_id", "ck_type", "ix_type",
     "ix_confidence"}) \union Tables({"agent_memory_versions"}))
ArchivedStatus == [up |-> Replace(StatusCheck), down |-> Replace(StatusCheck)]
Embeddings == {"chunks", "agent_memory_episodes"} \X {"embedding"}
PgVector == [up |-> [Create(Embeddings) EXCEPT !.ensure = Types({"vector"})],
             down |-> Drop(Embeddings)]

\* The revisions in order, 0020 a step that does nothing.
Script(r, release) ==
    <<Foundation, DatasetsDocuments, IngestionPipeline, QueryLogs, IndexingOutbox,
      GraphPersistence(release), GraphOutbox, ArtifactTimestamps, CleanupOutbox, CleanupLeases,
      MemoryPreview, Analytics, CommunityReports, Hierarchy, DropObsolete, ReplaceEnums,
      ExplorerIndexes, Consolidation, TemporalTracking, Adds({}),
      AgentMemory, MemoryTimestamps, SupersessionIntegrity, LegalHold, RetentionPolicy,
      MemoryTypes, ArchivedStatus, PgVector>>[r]

-----------------------------------------------------------------------------
(* Rows: the stage of each job, a document has the same as its status; the *)
(* events <<job, stage>> of one attempt; the jobs with a row in            *)
(* indexing_outbox; the levels of the memberships of an analytics run, {}  *)
(* without one; whether there is an archived episode.                      *)

Stages == <<"QUEUED", "READING", "PARSING", "CHUNKING", "EMBEDDING", "PERSISTING", "COMPLETE">>
StageNames == {Stages[i] : i \in 1..7}
NoRows == [stages |-> [j \in Jobs |-> "NONE"], events |-> {}, outbox |-> {}, levels |-> {},
           archived |-> FALSE]

\* 0016 deletes an EMBEDDING event whose job and attempt have a PERSISTING one.
\* *Mutant:* it deletes none.
EveryEvent(es) == es
Deduplicated(es) == {e \in es : e[2] = "EMBEDDING" => <<e[1], "PERSISTING">> \notin es}
Remapped(stage) == IF stage = "EMBEDDING" THEN "PERSISTING" ELSE stage

\* 0005 makes outbox rows of the queued jobs.
Backfilled(d) == {j \in Jobs : d.stages[j] = "QUEUED"}
\* 0014 gives the memberships the level 0, and its downgrade leaves no other.
Levelled(d) == IF d.levels = {} THEN {} ELSE {0}

\* What an upgrade to revision r does to the rows; the statuses and events that
\* are left are remapped.
RowsUp(r, d) ==
    CASE r = 5 -> [d EXCEPT !.outbox = Backfilled(d)]
      [] r = 14 -> [d EXCEPT !.levels = Levelled(d)]
      [] r = 16 -> [d EXCEPT !.stages = [j \in Jobs |-> Remapped(d.stages[j])],
                             !.events = {<<e[1], Remapped(e[2])>> : e \in Deduplicated(d.events)}]
      [] OTHER -> d

\* uq_job_attempt_stage: the remapped events are still distinct.
FitsUp(r, d) ==
    r = 16 => \A e, f \in Deduplicated(d.events) :
                 e[1] = f[1] /\ Remapped(e[2]) = Remapped(f[2]) => e = f

\* A downgrade of r loses what is in the tables and columns it drops, and
\* fails if the rows break a key or a check it puts back.
RowsDown(r, d) ==
    CASE r = 12 -> [d EXCEPT !.levels = {}]
      [] r = 14 -> [d EXCEPT !.levels = Levelled(d)]
      [] r = 21 -> [d EXCEPT !.archived = FALSE]
      [] OTHER -> d
SeveralLevels(d) == \E k, l \in d.levels : k # l
FitsDown(r, d) == /\ r = 14 => ~SeveralLevels(d)
                  /\ r = 27 => ~d.archived

-----------------------------------------------------------------------------
(* The commands.  They run while no release does: no other action meets    *)
(* one that runs.                                                          *)

NoCommand == [kind |-> "none"]
Quiet == command.kind = "none"

\* A command works in its transaction, from here to there.
Start(kind, to, release) ==
    /\ Quiet
    /\ command' = [kind |-> kind, to |-> to, release |-> release,
                   at |-> version, schema |-> schema, data |-> data]
    /\ UNCHANGED <<version, schema, data, refused>>

\* A release installs on an empty database with its own models.
Install(release) == version = 0 /\ Start("upgrade", release, release)
StartUpgrade(to) == 0 < version /\ version < to /\ Start("upgrade", to, Newest)
\* Below 0007 the shared types of the graph's tables decide; left out.
StartDowngrade(to) == 7 <= to /\ to < version /\ Start("downgrade", to, Newest)

\* One revision.  A failing statement ends the transaction and the command,
\* and leaves everything as it was.
Revise(script, fits, at, rows) ==
    /\ IF Executes(command.schema, script) /\ fits
       THEN /\ command' = [command EXCEPT !.at = at, !.schema = After(command.schema, script),
                                          !.data = rows]
            /\ UNCHANGED refused
       ELSE command' = NoCommand /\ refused' = command.kind
    /\ UNCHANGED <<version, schema, data>>
UpgradeRevision ==
    /\ command.kind = "upgrade" /\ command.at < command.to
    /\ LET r == command.at + 1
       IN  Revise(Script(r, command.release).up, FitsUp(r, command.data), r,
                  RowsUp(r, command.data))
DowngradeRevision ==
    /\ command.kind = "downgrade" /\ command.to < command.at
    /\ LET r == command.at
       IN  Revise(Script(r, Newest).down, FitsDown(r, command.data), r - 1,
                  RowsDown(r, command.data))

Commit ==
    /\ ~Quiet /\ command.at = command.to
    /\ version' = command.to /\ schema' = command.schema /\ data' = command.data
    /\ command' = NoCommand /\ refused' = "none"

\* The process that runs it dies: the transaction is rolled back.
Interrupt == ~Quiet /\ command' = NoCommand /\ UNCHANGED <<version, schema, data, refused>>

(* What the release that fits the revision writes *)

Writes(d) == Quiet /\ data' = d /\ UNCHANGED <<version, schema, command, refused>>

QueueJob(j) ==
    /\ version >= 3 /\ data.stages[j] = "NONE"
    /\ Writes([data EXCEPT !.stages[j] = "QUEUED",
                           !.outbox = IF version >= 5 THEN @ \union {j} ELSE @])

\* Every stage of a run has an event; the types have EMBEDDING before 0016.
\* From 0005 on a job is run once its outbox row was dispatched.
AdvanceJob(j) ==
    /\ version >= 3
    /\ version >= 5 /\ data.stages[j] = "QUEUED" => j \in data.outbox
    /\ \E i \in 1..6 :
        /\ data.stages[j] = Stages[i]
        /\ LET next == IF version >= 16 /\ Stages[i + 1] = "EMBEDDING" THEN Stages[i + 2]
                       ELSE Stages[i + 1]
           IN  Writes([data EXCEPT !.stages[j] = next, !.events = @ \union {<<j, next>>}])

\* refresh_dataset_analytics writes levels 0 to 2 where there is a level.
Analyze == /\ version >= 12 /\ data.levels = {}
           /\ Writes([data EXCEPT !.levels = IF version >= 14 THEN 0..2 ELSE {0}])

Archive == version >= 27 /\ Writes([data EXCEPT !.archived = TRUE])

MigInit == /\ version = 0 /\ schema = {} /\ data = NoRows
           /\ command = NoCommand /\ refused = "none"

MigNext ==
    \/ \E r \in Installed : Install(r)
    \/ \E r \in Revisions : StartUpgrade(r) \/ StartDowngrade(r)
    \/ UpgradeRevision \/ DowngradeRevision \/ Commit \/ Interrupt
    \/ \E j \in Jobs : QueueJob(j) \/ AdvanceJob(j)
    \/ Analyze \/ Archive

MigSpec == MigInit /\ [][MigNext]_migVars

-----------------------------------------------------------------------------
(* What today's models read and write: their tables, and of the parts above *)
(* those they name.                                                         *)

CoreModels ==
    Tables({"projects", "api_keys", "datasets", "documents", "chunks", "indexing_jobs",
            "indexing_outbox", "indexing_artifacts", "indexing_stage_events"})
      \union {<<"chunks", "embedding">>, <<"documents", "graph_stage">>}
AnalyticsModels ==
    Tables({"graph_analytics_runs", "graph_analytics_memberships",
            "graph_analytics_entity_metrics", "graph_analytics_communities"})
      \union Parts("graph_analytics_runs",
                   {"levels", "algorithm_version", "config", "ix_latest"})
      \union Parts("graph_analytics_memberships", {"level"})
      \union Parts("graph_analytics_communities",
                   {"level", "parent_community_id", "internal_edges", "external_edges",
                    "density", "importance"})
MemoryModels ==
    Tables({"agent_memory_episodes", "agent_memory_attempts", "agent_memory_outcomes",
            "agent_memory_patterns", "agent_memory_verifiers", "agent_memory_evidence",
            "agent_memory_pattern_members", "agent_memory_retrieval_audit",
            "agent_memory_versions"})
      \union Parts("agent_memory_episodes",
                   {"type", "content", "confidence", "version", "root_id", "embedding",
                    "ck_status", "ck_type", "ix_type", "ix_confidence"})
      \union {<<"agent_memory_attempts", "created_at">>, <<"agent_memory_outcomes", "created_at">>,
              <<"agent_memory_patterns", "superseded_by_key">>}
GovernanceModels == Tables({"legal_holds", "retention_policies", "audit_logs",
                            "idempotency_keys"})
GraphJobModels == Tables({"graph_extraction_jobs", "graph_extraction_outbox",
                          "graph_cleanup_outbox"})
                    \union Parts("graph_cleanup_outbox",
                        {"lease_expires_at", "execution_lease_expires_at", "next_attempt_at",
                         "dead_lettered_at", "ix_lease", "ix_execution_lease", "ix_ready"})
\* The page indexes are declared too, see ModelsFitNewest.
GraphModels ==
    Tables(GraphTables \union {"entity_alias_evidence", "graph_consolidation_runs"})
      \union GraphTables \X {"created_at", "updated_at"}
      \union {"canonical_entities", "relation_assertions"} \X Temporal
      \union {<<"graph_extraction_runs", "raw_extraction">>,
              <<"graph_consolidation_runs", "ix_scope">>}
Models == CoreModels \union AnalyticsModels \union MemoryModels \union GovernanceModels
            \union GraphJobModels \union GraphModels

-----------------------------------------------------------------------------
(* Properties *)

\* Wherever a database was installed and whatever commands it has seen, at the
\* newest revision it has everything the models use: no conditional migration
\* leaves out what a downgrade had dropped or an older installation never had
\* (0008, 0018, 0019).  The page indexes are the exception: 0017 is empty, so a
\* database older than the models that declare them never gets them.
ModelsFitNewest == version = Newest => Models \subseteq schema

\* No upgrade ever fails: rows written under any earlier revision fit every
\* later key and type, and no downgrade left an object behind that an upgrade
\* creates (0015's restored tables, 0016's remapped events under
\* uq_job_attempt_stage).
UpgradesSucceed == refused # "upgrade"

\* A downgrade is refused only for rows an older schema has no place for: the
\* levels of an analysis (0014), an archived episode (0027); never because a
\* statement finds its object missing.
RefusedForRowsOnly == refused = "downgrade" => SeveralLevels(data) \/ data.archived
=============================================================================

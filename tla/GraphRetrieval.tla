--------------------------- MODULE GraphRetrieval ---------------------------
(***************************************************************************)
(* Reads of the knowledge graph that take several statements, while other  *)
(* transactions change it: the bounded walk behind paths, subgraphs and    *)
(* graph search, the traversal of the graph store, the pages of the        *)
(* explorer; and the fusion of two rankings.                               *)
(*                                                                         *)
(*   apps/api/app/graph/service.py   bounded_walk, path_ids, the pages     *)
(*   apps/api/app/graph/store.py     traverse                              *)
(*   apps/api/app/retrieval.py       graph search, fallback, fusion        *)
(*                                                                         *)
(* Identifiers are numbers, ordered as the database orders them.  A node   *)
(* or an edge is there when the filters of a read let it pass: it is       *)
(* current, supported by evidence or approved, and in the scope.           *)
(***************************************************************************)
EXTENDS Integers, Sequences, SequencesExt, FiniteSetsExt

CONSTANTS
    Nodes, Edges,       \* ids of entities and relations
    Ends,               \* relation -> <<source, target>>
    Confidence,         \* relation -> its confidence
    Evidence,           \* graph_evidence: [id, chunk, entity, relation, score], one of them 0
    Chunks,             \* ids of ranked chunks
    Depths, NodeLimits, EdgeLimits, Fanouts, PageLimits, Weights,
    MaxChanges,         \* changes by others during one read
    MaxRank,            \* the length of a ranking
    Common              \* a multiple of every K + rank: scores are whole numbers

NoNode == 0

ASSUME GraphAssumption ==
    /\ Nodes \subseteq Nat \ {NoNode} /\ IsFiniteSet(Nodes)
    /\ Edges \subseteq Nat /\ IsFiniteSet(Edges)
    /\ Ends \in [Edges -> Nodes \X Nodes]

\* The bounds that the parameters of the routes have; weights of 0 are allowed.
ASSUME LimitsAssumption ==
    /\ Depths \subseteq Nat /\ NodeLimits \subseteq Nat /\ EdgeLimits \subseteq Nat
    /\ PageLimits \subseteq Nat \ {0}
    /\ Weights \subseteq Nat \X Nat
    /\ Chunks \subseteq Nat

VARIABLES nodes, edges, changes, task

retVars == <<nodes, edges, changes, task>>

Idle0 == [kind |-> "none"]

RetInit == /\ nodes = Nodes /\ edges = Edges /\ changes = 0 /\ task = Idle0

IsWalk == task.kind = "walk"
IsTraversal == task.kind = "traverse"
IsPaging == task.kind = "page"
InPhase(p) == task.kind # "none" /\ task.phase = p

EndsOf(e) == {Ends[e][1], Ends[e][2]}
EndsIn(es) == UNION {EndsOf(e) : e \in es}
Touching(es, ns) == {e \in es : EndsOf(e) \intersect ns # {}}

\* ORDER BY and LIMIT: the rows of S with fewer than n rows before them.
FirstRows(S, n, Before(_, _)) == {x \in S : Cardinality({y \in S : Before(y, x)}) < n}
ById(x, y) == x < y
BySurest(e, f) == Confidence[e] > Confidence[f] \/ (Confidence[e] = Confidence[f] /\ e < f)

\* The end of a relation that the frontier reached, and its other end.
\* *Mutant:* any node of the frontier is taken for the parent.
AnyParent(frontier, e) == Min(frontier)
Parent(frontier, e) == IF Ends[e][1] \in frontier THEN Ends[e][1] ELSE Ends[e][2]
\* *Mutant:* relations are followed in their direction only.
TargetOf(frontier, e) == Ends[e][2]
Other(frontier, e) == IF Ends[e][1] \in frontier THEN Ends[e][2] ELSE Ends[e][1]

\* A path: its nodes, and the relations between them.
PathTo(n) == [nodes |-> <<n>>, relations |-> <<>>]
Longer(path, e, n) == [nodes |-> Append(path.nodes, n), relations |-> Append(path.relations, e)]

-----------------------------------------------------------------------------
(* Other transactions *)

\* Extraction, review, supersession and garbage collection; what a paging
\* client can rely on is what is there all the time.
Change ==
    /\ task.kind # "none" /\ task.phase # "done" /\ changes < MaxChanges
    /\ changes' = changes + 1
    /\ \/ \E n \in Nodes :
            /\ nodes' = (nodes \ {n}) \union ({n} \ nodes)
            /\ task' = IF IsPaging THEN [task EXCEPT !.always = @ \ {n}] ELSE task
            /\ UNCHANGED edges
       \/ \E e \in Edges : edges' = (edges \ {e}) \union ({e} \ edges)
                           /\ UNCHANGED <<nodes, task>>

\* The answer is sent; the next request finds any graph.
Answered ==
    /\ InPhase("done")
    /\ task' = Idle0 /\ changes' = 0 /\ UNCHANGED <<nodes, edges>>

-----------------------------------------------------------------------------
(* bounded_walk *)

NoPath == [nodes |-> <<>>, relations |-> <<>>]

\* The root is found by its scope and support only: it may have expired.
StartWalk ==
    /\ task.kind = "none"
    /\ \E root \in Nodes, target \in Nodes \union {NoNode}, depth \in Depths,
          nmax \in NodeLimits, rmax \in EdgeLimits :
        /\ target # root
        /\ task' = [kind |-> "walk", phase |-> "relations", root |-> root, target |-> target,
                    asked |-> depth, depth |-> depth, nmax |-> nmax, rmax |-> rmax,
                    entities |-> {root}, relations |-> {}, parents |-> <<>>,
                    frontier |-> {root}, next |-> {}, rows |-> {}, candidates |-> {},
                    path |-> NoPath]
    /\ UNCHANGED <<nodes, edges, changes>>

Full(w) == Cardinality(w.entities) >= w.nmax

\* The caller that named a target goes on with path_ids.
Return(w) ==
    LET found == w.target \in DOMAIN w.parents
    IN  [w EXCEPT !.phase = IF found THEN "path" ELSE "done",
                  !.path = IF found THEN PathTo(w.target) ELSE NoPath,
                  !.frontier = {}, !.next = {}, !.rows = {}, !.candidates = {}]

\* Each round reads the relations of the frontier, in the order of their ids.
WalkRelations ==
    /\ IsWalk /\ InPhase("relations")
    /\ task' = IF \/ task.depth = 0 \/ task.frontier = {} \/ Full(task)
                  \/ Cardinality(task.relations) >= task.rmax
               THEN Return(task)
               ELSE [task EXCEPT !.phase = "entities",
                                 !.rows = FirstRows(Touching(edges \ task.relations, task.frontier),
                                               task.rmax - Cardinality(task.relations), ById)]
    /\ UNCHANGED <<nodes, edges, changes>>

\* Then it reads the ends that are new; candidates are those that pass the filters.
WalkEntities ==
    /\ IsWalk /\ InPhase("entities")
    /\ task' = [task EXCEPT !.phase = "visit", !.next = {},
                            !.candidates = nodes \intersect (EndsIn(task.rows) \ task.entities)]
    /\ UNCHANGED <<nodes, edges, changes>>

\* One turn of the loop over the rows: a relation between nodes that were found or
\* pass the filters is kept, unless it leads to one node too many.
Visited(w, e) ==
    LET prev == Parent(w.frontier, e)
        new == Other(w.frontier, e)
        kept == [w EXCEPT !.rows = @ \ {e}, !.relations = @ \union {e}]
    IN  IF \/ ~(EndsOf(e) \subseteq w.entities \union w.candidates)
           \/ new \notin w.entities /\ Full(w)
        THEN [w EXCEPT !.rows = @ \ {e}]
        ELSE IF new \in w.entities THEN kept
        ELSE [kept EXCEPT !.entities = @ \union {new}, !.next = @ \union {new},
                          !.parents = [n \in DOMAIN @ \union {new} |->
                                         IF n = new THEN <<prev, e>> ELSE @[n]]]

VisitRelation ==
    /\ IsWalk /\ InPhase("visit")
    /\ \E e \in task.rows :
        /\ \A f \in task.rows \ {e} : ById(e, f)
        /\ LET after == Visited(task, e)
               reached == e \in after.relations /\ Other(task.frontier, e) = task.target
           IN  task' = IF reached THEN Return(after) ELSE after
    /\ UNCHANGED <<nodes, edges, changes>>

NextRound ==
    /\ IsWalk /\ InPhase("visit") /\ task.rows = {}
    /\ task' = [task EXCEPT !.phase = "relations", !.frontier = task.next, !.next = {},
                            !.candidates = {}, !.depth = @ - 1]
    /\ UNCHANGED <<nodes, edges, changes>>

\* path_ids: back from the target, then turned round.
TraceBack ==
    /\ IsWalk /\ InPhase("path")
    /\ LET current == Last(task.path.nodes)
       IN  task' = IF current = task.root
                   THEN [task EXCEPT !.phase = "done",
                                     !.path = [nodes |-> Reverse(@.nodes),
                                               relations |-> Reverse(@.relations)]]
                   ELSE [task EXCEPT !.path = Longer(@, task.parents[current][2],
                                                        task.parents[current][1])]
    /\ UNCHANGED <<nodes, edges, changes>>

-----------------------------------------------------------------------------
(* GraphStore.traverse, behind bounded_graph_search *)

\* The names and chunks that were asked for lead, by evidence that is read before,
\* to some entities that are there; the evidence of the chunks is found anyway.
StartTraversal ==
    /\ task.kind = "none"
    /\ \E seeds \in SUBSET nodes, chunks \in SUBSET {ev.chunk : ev \in Evidence},
          depth \in Depths \intersect {1, 2}, fanout \in Fanouts :
        task' = [kind |-> "traverse", phase |-> "relations", depth |-> depth, chunks |-> chunks,
                 fanout |-> fanout, paths |-> [n \in seeds |-> PathTo(n)], frontier |-> seeds,
                 seeds |-> seeds, relations |-> {}, next |-> {}, rows |-> {}, supported |-> {},
                 results |-> {}]
    /\ UNCHANGED <<nodes, edges, changes>>

TraverseRelations ==
    /\ IsTraversal /\ InPhase("relations")
    /\ task' = IF task.depth = 0 \/ task.frontier = {}
               THEN [task EXCEPT !.phase = "evidence"]
               ELSE [task EXCEPT !.phase = "entities",
                                 !.rows = FirstRows(Touching(edges, task.frontier),
                                               Cardinality(task.frontier) * task.fanout,
                                               BySurest)]
    /\ UNCHANGED <<nodes, edges, changes>>

TraverseEntities ==
    /\ IsTraversal /\ InPhase("entities")
    /\ task' = [task EXCEPT !.phase = "follow",
                            !.supported = nodes \intersect EndsIn(task.rows)]
    /\ UNCHANGED <<nodes, edges, changes>>

\* One turn of the loop over the rows: the first path to an entity is kept.
Followed(t, e) ==
    LET matched == Parent(t.frontier, e)
        new == Other(t.frontier, e)
        kept == [t EXCEPT !.rows = @ \ {e}, !.relations = @ \union {e}]
    IN  IF new \notin t.supported THEN [t EXCEPT !.rows = @ \ {e}]
        ELSE IF new \in DOMAIN t.paths THEN kept
        ELSE [kept EXCEPT !.next = @ \union {new},
                          !.paths = [n \in DOMAIN @ \union {new} |->
                                       IF n = new THEN Longer(@[matched], e, new) ELSE @[n]]]

FollowRelation ==
    /\ IsTraversal /\ InPhase("follow")
    /\ \E e \in task.rows :
        /\ \A f \in task.rows \ {e} : BySurest(e, f)
        /\ task' = Followed(task, e)
    /\ UNCHANGED <<nodes, edges, changes>>

NextDepth ==
    /\ IsTraversal /\ InPhase("follow") /\ task.rows = {}
    /\ task' = [task EXCEPT !.phase = "relations", !.frontier = task.next, !.next = {},
                            !.supported = {}, !.depth = @ - 1]
    /\ UNCHANGED <<nodes, edges, changes>>

\* The evidence of what was asked for or reached, of subjects that are current by
\* now (current_evidence_subject), the surest up to a limit; each with the path
\* to its entity, or its chunk only.
Current(ev) == ev.entity \in nodes \/ ev.relation \in edges
Reached(t, ev) == \/ ev.chunk \in t.chunks \/ ev.entity \in DOMAIN t.paths
                  \/ ev.relation \in t.relations
Found(t, limit) ==
    {[chunk |-> ev.chunk, score |-> ev.score,
      path |-> IF ev.entity \in DOMAIN t.paths THEN t.paths[ev.entity] ELSE PathTo(ev.chunk)] :
        ev \in FirstRows({ev \in Evidence : Current(ev) /\ Reached(t, ev)}, limit,
                   LAMBDA x, y : x.score > y.score \/ (x.score = y.score /\ x.id < y.id))}

\* One item per chunk: the last of those sorted by falling score.
PerChunk(found) ==
    {x \in found : \A y \in found : y.chunk = x.chunk => x.score <= y.score}

ReadEvidence ==
    /\ IsTraversal /\ InPhase("evidence")
    /\ \E limit \in PageLimits :
        task' = [task EXCEPT !.phase = "done", !.results = PerChunk(Found(task, limit))]
    /\ UNCHANGED <<nodes, edges, changes>>

\* After the timeout, or an error, the caller goes on without the graph.
GiveUpTraversal ==
    /\ IsTraversal /\ task.phase # "done"
    /\ task' = [task EXCEPT !.phase = "done", !.results = {}]
    /\ UNCHANGED <<nodes, edges, changes>>

-----------------------------------------------------------------------------
(* The explorer's pages of nodes; those of relations are the same *)

StartPaging ==
    /\ task.kind = "none"
    /\ \E limit \in PageLimits :
        task' = [kind |-> "page", phase |-> "page", cursor |-> 0, limit |-> limit,
                 pages |-> <<>>, always |-> nodes]
    /\ UNCHANGED <<nodes, edges, changes>>

\* One row more than the limit is read, to know whether there are more.
\* *Mutant:* the cursor is the row that was read but not returned.
CursorAfter(rows, page) == Max(rows)
NextCursor(rows, page) == Max(page)

ReadPage ==
    /\ IsPaging /\ InPhase("page")
    /\ LET rows == FirstRows({n \in nodes : n > task.cursor}, task.limit + 1, ById)
           page == FirstRows(rows, task.limit, ById)
           returned == [task EXCEPT !.pages = Append(@, page)]
       IN  task' = IF Cardinality(rows) > task.limit
                   THEN [returned EXCEPT !.cursor = NextCursor(rows, page)]
                   ELSE [returned EXCEPT !.phase = "done"]
    /\ UNCHANGED <<nodes, edges, changes>>

-----------------------------------------------------------------------------
(* reciprocal_rank_fusion *)

FirstOf(seq, n) == SubSeq(seq, 1, IF n < Len(seq) THEN n ELSE Len(seq))
Rankings == {s \in SeqOf(Chunks, MaxRank) : IsInjective(s)}
K == 60
RankIn(ranking, c) == CHOOSE i \in DOMAIN ranking : ranking[i] = c
ASSUME RanksAssumption ==
    /\ MaxRank \in Nat /\ Common \in Nat \ {0}
    /\ \A rank \in 1..MaxRank : Common % (K + rank) = 0

\* *Mutant:* a chunk that is not in a ranking is taken for its first.
ComponentOfAbsent(weight, ranking, c) ==
    weight * (Common \div (K + IF c \in Range(ranking) THEN RankIn(ranking, c) ELSE 1))
Component(weight, ranking, c) ==
    IF c \in Range(ranking) THEN weight * (Common \div (K + RankIn(ranking, c))) ELSE 0

Score(t, c) == Component(t.weights[1], t.vector, c) + Component(t.weights[2], t.graph, c)
Ahead(t, c, d) == Score(t, c) > Score(t, d) \/ (Score(t, c) = Score(t, d) /\ c < d)

\* The chunks of the answer, each with its place in it.
Fused(t) ==
    LET all == Range(t.vector) \union Range(t.graph)
        place == [c \in all |-> 1 + Cardinality({d \in all : Ahead(t, d, c)})]
    IN  [c \in {c \in all : place[c] <= t.limit} |-> place[c]]

\* vector_search, then graph_search, of at most twice top_k chunks each.
Fuse ==
    /\ task.kind = "none"
    /\ \E vector \in Rankings, graph \in Rankings, weights \in Weights, top_k \in PageLimits :
        LET t == [kind |-> "fuse", phase |-> "done", vector |-> FirstOf(vector, 2 * top_k),
                  graph |-> FirstOf(graph, 2 * top_k), weights |-> weights, limit |-> top_k,
                  fused |-> <<>>]
        IN  task' = [t EXCEPT !.fused = Fused(t)]
    /\ UNCHANGED <<nodes, edges, changes>>

RetNext ==
    \/ Change \/ Answered
    \/ StartWalk \/ WalkRelations \/ WalkEntities \/ VisitRelation \/ NextRound \/ TraceBack
    \/ StartTraversal \/ TraverseRelations \/ TraverseEntities \/ FollowRelation \/ NextDepth
    \/ ReadEvidence \/ GiveUpTraversal
    \/ StartPaging \/ ReadPage
    \/ Fuse

RetSpec == RetInit /\ [][RetNext]_retVars

-----------------------------------------------------------------------------
(* Properties *)

\* Each relation of a path is one of those returned and joins the nodes before and
\* after it, and no node comes twice.
Explains(path, relations) ==
    /\ Len(path.nodes) = Len(path.relations) + 1 /\ IsInjective(path.nodes)
    /\ \A i \in DOMAIN path.relations :
        /\ path.relations[i] \in relations
        /\ EndsOf(path.relations[i]) = {path.nodes[i], path.nodes[i + 1]}

\* A returned path explains how its target follows from its start: it leads from
\* the root or a seed to the target by relations that are returned, too; a walk
\* has one as soon as it found the target (path_ids; traverse's "Preserve the
\* actual matched endpoint").
PathsExplain ==
    /\ IsWalk /\ InPhase("done") =>
        IF task.target \notin task.entities THEN task.path = NoPath
        ELSE /\ Explains(task.path, task.relations)
             /\ Head(task.path.nodes) = task.root /\ Last(task.path.nodes) = task.target
    /\ IsTraversal => \A n \in DOMAIN task.paths :
        /\ Explains(task.paths[n], task.relations)
        /\ Head(task.paths[n].nodes) \in task.seeds /\ Last(task.paths[n].nodes) = n

\* The nodes within d steps of the root, by relations and nodes that are there.
Trails(root, d) ==
    {p \in [0..d -> Nodes] :
        /\ p[0] = root
        /\ \A i \in 1..d : \/ p[i] = p[i - 1]
                           \/ p[i] \in nodes /\ \E e \in edges : EndsOf(e) = {p[i - 1], p[i]}}
Within(root, d) == {p[d] : p \in Trails(root, d)}

\* Without changes and with limits that do not bite, a walk misses nothing: it
\* finds every node within its depth, and a shortest path to its target if there
\* is one.
WalkIsComplete ==
    IsWalk /\ InPhase("done") /\ changes = 0
      /\ task.rmax >= Cardinality(Edges) /\ task.nmax > Cardinality(Nodes) =>
        IF task.target \in task.entities
        THEN \A d \in 0..(Len(task.path.relations) - 1) : task.target \notin Within(task.root, d)
        ELSE Within(task.root, task.asked) \subseteq task.entities

\* A client that follows the cursors gets every node that is there all the time
\* exactly once, whatever is added and removed meanwhile.
PagesAreWhole ==
    IsPaging =>
        /\ \A i, j \in DOMAIN task.pages : i # j => task.pages[i] \intersect task.pages[j] = {}
        /\ InPhase("done") => task.always \subseteq UNION Range(task.pages)

\* A chunk of the answer is never below, nor in place of, one that both rankings
\* put below it (reciprocal_rank_fusion; a ranking of weight 0 does not count).
Above(ranking, c, d) ==
    /\ c \in Range(ranking)
    /\ d \in Range(ranking) => RankIn(ranking, c) < RankIn(ranking, d)
FusionRespectsRanks ==
    task.kind = "fuse" =>
        \A c, d \in Chunks :
            /\ d \in DOMAIN task.fused
            /\ task.weights[1] > 0 /\ task.weights[2] > 0
            /\ Above(task.vector, c, d) \/ Above(task.graph, c, d)
            /\ ~Above(task.vector, d, c) /\ ~Above(task.graph, d, c)
            => c \in DOMAIN task.fused /\ task.fused[c] < task.fused[d]
=============================================================================

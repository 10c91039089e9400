--------------------------- MODULE CodebaseIngest ---------------------------
(***************************************************************************)
(* The code graph of one dataset: what CodeExtractor finds in a file, and  *)
(* the transactions in which ingest_codebase, sync_codebase_file and       *)
(* index_directory store it.                                               *)
(*                                                                         *)
(*   apps/api/app/codebase.py                        the requests          *)
(*   packages/core/.../code_extractor.py             the extraction        *)
(*                                                                         *)
(* A file's content is the sequence of the syntax nodes the extractor      *)
(* visits, in the order it visits them.  A node has its type, its name     *)
(* (the text of an import, the called expression of a call), the bases of  *)
(* a class, its line, and the index of the named node it lies in, 0 for    *)
(* the file.  Identifiers are the tuples they are hashes of.  The rows of  *)
(* one dataset are never removed by these requests.                        *)
(*                                                                         *)
(* The extractor has a branch for each language, and they do the same with *)
(* the nodes they visit: the languages differ in which nodes there are     *)
(* (Rust, C and C++ have no imports and calls, only Python has bases), and *)
(* in what is said of them below.                                          *)
(***************************************************************************)
EXTENDS Integers, Sequences, SequencesExt

CONSTANTS
    Files,          \* paths
    Language,       \* path -> language, what detect_language says
    Contents,       \* path -> the contents the file may have
    Names,          \* names, called expressions and import texts
    Lower,          \* name or path -> its lower case form
    Words,          \* name -> the names its parts between other characters spell
    Requests,       \* slots for concurrent requests
    NoName          \* a relation without a quote

\* The nodes that can have others in them, and all that are visited.
Declarations == {"def", "method", "class", "interface", "struct", "enum", "type_alias"}
SyntaxNode == [type : Declarations \union {"import", "call", "unnamed_struct"},
               name : Names \union {NoName}, parent : Nat, line : Nat, bases : SUBSET Names]

\* A node lies in a declaration or in the file; only classes have bases.
ASSUME ContentsAssumption ==
    \A f \in Files : \A content \in Contents[f] :
        /\ content \in Seq(SyntaxNode)
        /\ \A i \in DOMAIN content :
            LET node == content[i]
            IN  /\ node.parent # 0 => /\ node.parent \in DOMAIN content
                                      /\ content[node.parent].type \in Declarations
                /\ node.bases # {} => node.type = "class"

ASSUME NamesAssumption ==
    /\ DOMAIN Lower = Names \union Files
    /\ \A n \in Names : Lower[n] \in Names /\ Lower[Lower[n]] = Lower[n]
    /\ Words \in [Names -> Seq(Names)]
    /\ NoName \notin Names

VARIABLES
    present,        \* the dataset's row exists
    rows,           \* canonical_entities: id -> [name, key, type]
    assertions,     \* relation_assertions
    request,        \* what each request does: its phase and its batch of files
    done            \* <<path, content>> of the requests that were answered with success

codeVars == <<present, rows, assertions, request, done>>

NoRequest == [phase |-> "idle", batch |-> <<>>]

CodeInit ==
    /\ present = FALSE
    /\ rows = <<>>
    /\ assertions = {}
    /\ request = [r \in Requests |-> NoRequest]
    /\ done = {}

-----------------------------------------------------------------------------
(* Extraction *)

\* A Python function inside anything is a method; elsewhere the syntax says.
KindOf(path, node) ==
    IF node.type # "def" THEN node.type
    ELSE IF Language[path] = "python" /\ node.parent # 0 THEN "method" ELSE "function"

\* canonical_symbol_id: the class a method lies in is not part of it.
SymbolId(path, kind, name) == <<path, kind, name>>
FileId(path) == SymbolId(path, "file", path)

\* Imports are told apart by their position, the others by their name.
NodeId(path, node) ==
    IF node.type = "import" THEN SymbolId(path, "import", node.line)
                            ELSE SymbolId(path, KindOf(path, node), node.name)

ParentId(path, content, node) ==
    IF node.parent = 0 THEN FileId(path) ELSE NodeId(path, content[node.parent])

\* An unnamed C struct is visited with no id of its own: the traversal raises,
\* and the whole file is extracted line by line instead.
FallsBack(path, content) ==
    \/ Language[path] = "generic"
    \/ \E i \in DOMAIN content : content[i].type = "unnamed_struct"

EntityOf(path, node) ==
    [id |-> NodeId(path, node), name |-> node.name, line |-> node.line,
     kind |-> IF node.type = "import" THEN "import" ELSE KindOf(path, node)]

FileEntity(path) == [id |-> FileId(path), name |-> path, line |-> 1, kind |-> "file"]

\* The fallback sees the lines that start with a keyword, as functions and
\* classes at the top of the file; a C function starts with none.
Flat(path, content) ==
    LET functions == IF Language[path] \in {"c", "cpp"} THEN {} ELSE {"def"}
        lines == {i \in DOMAIN content :
                    content[i].type \in functions \union
                                        {"class", "interface", "struct", "type_alias"}}
    IN  [i \in lines |->
            [content[i] EXCEPT !.type = IF @ = "def" THEN "def" ELSE "class", !.parent = 0]]

SyntaxNodes(path, content) == IF FallsBack(path, content) THEN Flat(path, content) ELSE content

\* What is found at which node; the file itself comes first, at 0.
ExtractedEntities(path, content) ==
    LET nodes == SyntaxNodes(path, content)
        symbols == {i \in DOMAIN nodes : nodes[i].type \in Declarations \union {"import"}}
    IN  [i \in {0} \union symbols |->
            IF i = 0 THEN FileEntity(path) ELSE EntityOf(path, nodes[i])]

\* The quote "class C(B):" up to its parenthesis ends in the class itself.
InheritanceQuote(node, base) == node.name

Relation(source, kind, target, quote) ==
    [source |-> source, kind |-> kind, target |-> target, quote |-> quote]

\* A symbol is contained in the one it lies in.
Containment(path, content, node) ==
    IF node.type \notin Declarations THEN {}
    ELSE {Relation(ParentId(path, content, node), "contains", NodeId(path, node), NoName)}

\* Only Python's bases are read; each is taken for a class of the same file.
Inheritance(path, node) ==
    {Relation(NodeId(path, node), "inherits", SymbolId(path, "class", b),
              InheritanceQuote(node, b)) :
        b \in IF Language[path] = "python" THEN node.bases ELSE {}}

Imported(path, node) ==
    IF node.type # "import" THEN {}
    ELSE {Relation(FileId(path), "imports", NodeId(path, node), node.name)}

\* A call, or a component of JSX, is taken for a function of the same file; one
\* at the top of a file is not recorded.
Called(path, content, node) ==
    IF node.type # "call" \/ node.parent = 0 THEN {}
    ELSE {Relation(ParentId(path, content, node), "calls",
                   SymbolId(path, "function", node.name), node.name)}

\* The relations of one node, in any language.
RelationsOf(path, content, node) ==
    UNION {Containment(path, content, node), Inheritance(path, node),
           Imported(path, node), Called(path, content, node)}

ExtractedRelations(path, content) ==
    LET nodes == SyntaxNodes(path, content)
    IN  UNION {RelationsOf(path, nodes, nodes[i]) : i \in DOMAIN nodes}

-----------------------------------------------------------------------------
(* One request's view of its batch *)

\* The places of a batch, in the order its entities are collected in: a file's
\* number in the batch, a node's in the file.
Places(batch) ==
    UNION {{i} \X DOMAIN ExtractedEntities(batch[i][1], batch[i][2]) : i \in DOMAIN batch}
EntityAt(batch, p) == ExtractedEntities(batch[p[1]][1], batch[p[1]][2])[p[2]]
Earlier(p, q) == p[1] < q[1] \/ (p[1] = q[1] /\ p[2] < q[2])
Earliest(places) == CHOOSE p \in places : \A q \in places \ {p} : Earlier(p, q)
Latest(places) == CHOOSE p \in places : \A q \in places \ {p} : Earlier(q, p)

BatchRelations(batch) == UNION {ExtractedRelations(f[1], f[2]) : f \in Range(batch)}
RawIds(batch) == {EntityAt(batch, p).id : p \in Places(batch)}

\* symbol_table: the last symbol of a name, as it is or in lower case, wins.
Named(batch, n) ==
    {p \in Places(batch) :
        LET e == EntityAt(batch, p)
        IN  /\ e.kind \in {"class", "function", "method", "interface", "struct"}
            /\ n = e.name \/ n = Lower[e.name]}
InTable(batch, n) == Named(batch, n) # {}
InTableAs(batch, n) == EntityAt(batch, Latest(Named(batch, n))).id

\* A symbol not extracted here is looked up by the quote, then by the first
\* part of its id that names a symbol, and is else what the id says.
LookUp(batch, rel) ==
    LET parts == IF rel.target[3] \in Names THEN Words[rel.target[3]] ELSE <<>>
        found == SelectSeq(parts, LAMBDA p : InTable(batch, p))
    IN  IF rel.quote # NoName /\ InTable(batch, rel.quote) THEN InTableAs(batch, rel.quote)
        ELSE IF found # <<>> THEN InTableAs(batch, Head(found))
        ELSE rel.target

Resolve(batch, rel) ==
    IF rel.target \in RawIds(batch) THEN rel.target ELSE LookUp(batch, rel)

\* The assertions a batch leads to in a dataset that holds the entities ids.
Resolved(batch, ids) ==
    {[source |-> rel.source, kind |-> rel.kind, target |-> Resolve(batch, rel)] :
        rel \in BatchRelations(batch)}
      \intersect {a \in [source : ids, kind : {"contains", "inherits", "imports", "calls"},
                         target : ids] : a.source # a.target}

-----------------------------------------------------------------------------
(* The requests *)

Proceed(r, phase) == request' = [request EXCEPT ![r].phase = phase]
Leave(r) == request' = [request EXCEPT ![r] = NoRequest]

\* A sync brings one file, an ingestion several, index_directory those it finds.
Receive(r) ==
    /\ request[r].phase = "idle"
    /\ \E fs \in SUBSET Files \ {{}} : \E content \in [fs -> UNION {Contents[f] : f \in fs}] :
        \E order \in [1..Cardinality(fs) -> fs] :
            /\ \A f \in fs : content[f] \in Contents[f]
            /\ Range(order) = fs
            /\ request' = [request EXCEPT ![r] =
                  [phase |-> IF present THEN "entities" ELSE "create",
                   batch |-> [i \in DOMAIN order |-> <<order[i], content[order[i]]>>]]]
    /\ UNCHANGED <<present, rows, assertions, done>>

\* Of two requests that found no dataset the second cannot insert it.
CreateDataset(r) ==
    /\ request[r].phase = "create"
    /\ present' = TRUE
    /\ IF present THEN Leave(r) ELSE Proceed(r, "entities")
    /\ UNCHANGED <<rows, assertions, done>>

\* normalized_name and entity_type, unique in the dataset.
KeyOf(e) == <<Lower[e.id[1]], Lower[e.name], e.line>>
TypeOf(e) == e.kind

\* INSERT ... ON CONFLICT (id), of the entities at these places in their order: a
\* row keeps the key it was inserted with and takes the name of the last of its id.
AfterUpserts(batch, places) ==
    LET ids == {EntityAt(batch, p).id : p \in places}
        of(id) == {p \in places : EntityAt(batch, p).id = id}
        row(e) == [name |-> e.name, key |-> KeyOf(e), type |-> TypeOf(e)]
        inserted == [id \in ids \ DOMAIN rows |-> row(EntityAt(batch, Earliest(of(id))))]
        table == [id \in DOMAIN rows \union ids |->
                    IF id \in DOMAIN rows THEN rows[id] ELSE inserted[id]]
    IN  [id \in DOMAIN table |->
            IF id \in ids THEN [table[id] EXCEPT !.name = EntityAt(batch, Latest(of(id))).name]
                          ELSE table[id]]

\* A key that some row with another id has is an error.
Clashes(table, e) ==
    /\ e.id \notin DOMAIN table
    /\ \E id \in DOMAIN table : table[id].key = KeyOf(e) /\ table[id].type = TypeOf(e)
Refused(batch) ==
    \E p \in Places(batch) :
        Clashes(AfterUpserts(batch, {q \in Places(batch) : Earlier(q, p)}), EntityAt(batch, p))

\* All the batch's entities in one transaction, or none.
InsertEntities(r) ==
    LET batch == request[r].batch
    IN  /\ request[r].phase = "entities"
        /\ IF Refused(batch)
           THEN Leave(r) /\ UNCHANGED rows
           ELSE Proceed(r, "relations") /\ rows' = AfterUpserts(batch, Places(batch))
        /\ UNCHANGED <<present, assertions, done>>

\* *Mutant:* the relations are resolved among the entities that were there
\* before the request.
AssertKnown(r) ==
    /\ request[r].phase = "relations"
    /\ assertions' = assertions \union
            Resolved(request[r].batch, DOMAIN rows \ RawIds(request[r].batch))
    /\ Proceed(r, "analytics")
    /\ UNCHANGED <<present, rows, done>>

\* The transaction after it: the entities are read again, an assertion found by
\* its id is left as it is.
AssertRelations(r) ==
    /\ request[r].phase = "relations"
    /\ assertions' = assertions \union Resolved(request[r].batch, DOMAIN rows)
    /\ Proceed(r, "analytics")
    /\ UNCHANGED <<present, rows, done>>

\* refresh_dataset_analytics, its commit and the answer.
Answer(r) ==
    /\ request[r].phase = "analytics"
    /\ done' = done \union Range(request[r].batch)
    /\ Leave(r)
    /\ UNCHANGED <<present, rows, assertions>>

\* The process dies or the analytics refuse: what is committed stays.
Abort(r) ==
    /\ request[r].phase # "idle"
    /\ Leave(r)
    /\ UNCHANGED <<present, rows, assertions, done>>

CodeNext == \E r \in Requests :
            \/ Receive(r) \/ CreateDataset(r) \/ InsertEntities(r) \/ AssertRelations(r)
            \/ Answer(r) \/ Abort(r)

CodeSpec == CodeInit /\ [][CodeNext]_codeVars

-----------------------------------------------------------------------------
(* Properties *)

\* What a client was told is ingested is there, whatever other requests did or
\* left half done: the file's symbols, and every relation between two symbols
\* of the file, calls included (ingest_codebase resolves by the symbols it
\* extracted before it looks a name up).
AnsweredIsStored ==
    \A f \in done :
        LET ids == {e.id : e \in Range(ExtractedEntities(f[1], f[2]))}
        IN  /\ ids \subseteq DOMAIN rows
            /\ \A rel \in ExtractedRelations(f[1], f[2]) :
                    rel.target \in ids /\ rel.source # rel.target =>
                        [source |-> rel.source, kind |-> rel.kind, target |-> rel.target]
                            \in assertions
=============================================================================

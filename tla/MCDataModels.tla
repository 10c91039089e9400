---------------------------- MODULE MCDataModels ----------------------------
(* CodebaseIngest, Migrations and GraphRetrieval for TLC.  They share no      *)
(* state: a behaviour starts one of them, and the others keep still.         *)
EXTENDS CodebaseIngest, Migrations, GraphRetrieval

CONSTANTS a, b, Sub, sub, Base, m, h    \* two files, and the names they use

VARIABLE part    \* the module that runs

mcVars == <<part, codeVars, migVars, retVars>>

\* A Python file and a C++ file, of two contents each: a class with a base in
\* the other file and a method that calls a function of the other file, and
\* one with the same names in another case and a function of its own; a class
\* and a function, and the same with an unnamed struct.
Node(type, name, parent, line, bases) ==
  [type |-> type, name |-> name, parent |-> parent, line |-> line, bases |-> bases]

MCFiles == {a, b}
MCLanguage == (a :> "python") @@ (b :> "cpp")
MCContents ==
  (a :> {<<Node("class", Sub, 0, 1, {Base}), Node("def", m, 1, 2, {}),
           Node("call", h, 2, 2, {})>>,
         <<Node("class", sub, 0, 1, {Base}), Node("def", h, 0, 2, {}),
           Node("def", m, 0, 3, {}), Node("call", h, 3, 3, {})>>})
  @@
  (b :> {<<Node("class", Base, 0, 1, {}), Node("def", h, 0, 2, {})>>,
         <<Node("unnamed_struct", NoName, 0, 1, {}), Node("struct", Base, 0, 1, {}),
           Node("def", h, 0, 2, {})>>})
MCNames == {Sub, sub, Base, m, h}
MCLower == (Sub :> sub) @@ [n \in {sub, Base, m, h, a, b} |-> n]
MCWords == [n \in MCNames |-> <<n>>]

\* A square of entities, its relations in both directions around it.
MCEnds == (1 :> <<1, 2>>) @@ (2 :> <<3, 2>>) @@ (3 :> <<1, 4>>) @@ (4 :> <<4, 3>>)
MCConfidence == (1 :> 1) @@ (2 :> 2) @@ (3 :> 1) @@ (4 :> 1)
MCEvidence == {[id |-> 1, chunk |-> "c", entity |-> 2, relation |-> 0, score |-> 1],
               [id |-> 2, chunk |-> "c", entity |-> 0, relation |-> 3, score |-> 2]}
MCWeights == {<<1, 1>>, <<1, 2>>, <<1, 0>>}

MCInit ==
  /\ part \in {"codebase", "migrations", "retrieval"}
  /\ CodeInit
  /\ MigInit
  /\ RetInit

MCNext ==
  \/ part = "codebase" /\ CodeNext /\ UNCHANGED <<part, migVars, retVars>>
  \/ part = "migrations" /\ MigNext /\ UNCHANGED <<part, codeVars, retVars>>
  \/ part = "retrieval" /\ RetNext /\ UNCHANGED <<part, codeVars, migVars>>

MCSpec == MCInit /\ [][MCNext]_mcVars

MCSymmetry == Permutations(Requests)
=============================================================================

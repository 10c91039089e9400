---------------------------- MODULE Supersession ----------------------------
(***************************************************************************)
(* What the supersession of memories promises, as one atomic step each:    *)
(* an item that is current is replaced by another that is current, and     *)
(* following the replacements never comes back to where it started.        *)
(* EpisodeChains implements it with row locks.                              *)
(***************************************************************************)
EXTENDS TLAPS

CONSTANTS
  Items,    \* memories
  NoItem    \* the replacement of an item that has none, which is no item

VARIABLES
  next,     \* the replacement of each item
  retired   \* the items that are superseded and not current again

vars == <<next, retired>>

(* No item replaces itself through a chain of replacements: every set of    *)
(* items has a member whose replacement is outside of it.                   *)
Acyclic(f) == \A S \in SUBSET Items : S # {} => \E i \in S : f[i] \notin S

\* The replacements of the members of S that have one are members of S.
Closed(S) == \A i \in S : next[i] \in S \cup {NoItem}

Init ==
  /\ next = [i \in Items |-> NoItem]
  /\ retired = {}

\* The chain that starts with the replacement does not lead to the item.
Supersede(i, j) ==
  /\ i \notin retired
  /\ j \notin retired
  /\ \E S \in SUBSET Items : j \in S /\ i \notin S /\ Closed(S)
  /\ next' = [next EXCEPT ![i] = j]
  /\ retired' = retired \cup {i}

\* Feedback may make a superseded item current again; it keeps its link.
Revive(i) ==
  /\ retired' = retired \ {i}
  /\ UNCHANGED next

\* An item is deleted, and with it the links to it.
Forget(i) ==
  /\ next' = [j \in Items |-> IF j = i \/ next[j] = i THEN NoItem ELSE next[j]]
  /\ retired' = retired \ {i}

Next == \E i \in Items : Revive(i) \/ Forget(i) \/ \E j \in Items : Supersede(i, j)

Spec == Init /\ [][Next]_vars

-----------------------------------------------------------------------------
TypeOK ==
  /\ next \in [Items -> Items \cup {NoItem}]
  /\ retired \subseteq Items

NeverCyclic == Acyclic(next)

\* Taking links away closes no cycle.
LEMMA Unlinking ==
  ASSUME NoItem \notin Items,
         NEW f, Acyclic(f),
         NEW g, \A i \in Items : g[i] = f[i] \/ g[i] = NoItem
  PROVE  Acyclic(g)
  BY DEF Acyclic

\* A link out of a set whose members link to members only closes no cycle
\* when it comes from outside of the set and leads into it.
LEMMA Linking ==
  ASSUME NoItem \notin Items,
         NEW f, Acyclic(f),
         NEW i \in Items, NEW j \in Items,
         NEW S \in SUBSET Items, j \in S, i \notin S,
         \A k \in S : f[k] \in S \cup {NoItem},
         NEW g, g[i] = j, \A k \in Items \ {i} : g[k] = f[k]
  PROVE  Acyclic(g)
<1> SUFFICES ASSUME NEW T \in SUBSET Items, T # {}
             PROVE  \E k \in T : g[k] \notin T
  BY DEF Acyclic
<1>1. CASE i \notin T
  BY <1>1 DEF Acyclic
<1>2. CASE i \in T /\ j \notin T
  BY <1>2
<1>3. CASE i \in T /\ j \in T
  <2>1. PICK k \in S \cap T : f[k] \notin S \cap T
    BY <1>3 DEF Acyclic
  <2>2. f[k] \notin T
    BY <2>1
  <2> QED
    BY <2>1, <2>2
<1> QED
  BY <1>1, <1>2, <1>3

\* The promise of supersession: following the replacements of an item never
\* leads back to it (supersede_episode refuses the cycle).
THEOREM AcyclicAlways == ASSUME NoItem \notin Items PROVE Spec => []NeverCyclic
<1> DEFINE Inv == TypeOK /\ NeverCyclic
<1>1. Init => Inv
  BY DEF Init, TypeOK, NeverCyclic, Acyclic
<1>2. Inv /\ [Next]_vars => Inv'
  <2> SUFFICES ASSUME Inv, [Next]_vars PROVE Inv'
    OBVIOUS
  <2>1. ASSUME NEW i \in Items, NEW j \in Items, Supersede(i, j) PROVE Inv'
    <3>1. PICK S \in SUBSET Items : j \in S /\ i \notin S /\ Closed(S)
      BY <2>1 DEF Supersede
    <3>2. TypeOK'
      BY <2>1 DEF Supersede, TypeOK
    <3>3. next'[i] = j /\ \A k \in Items \ {i} : next'[k] = next[k]
      BY <2>1 DEF Supersede, TypeOK
    <3>4. \A k \in S : next[k] \in S \cup {NoItem}
      BY <3>1 DEF Closed
    <3>5. Acyclic(next')
      BY <3>1, <3>3, <3>4, Linking DEF NeverCyclic
    <3> QED
      BY <3>2, <3>5 DEF NeverCyclic
  <2>2. ASSUME NEW i \in Items, Revive(i) PROVE Inv'
    BY <2>2 DEF Revive, TypeOK, NeverCyclic, Acyclic
  <2>3. ASSUME NEW i \in Items, Forget(i) PROVE Inv'
    <3>1. TypeOK'
      BY <2>3 DEF Forget, TypeOK
    <3>2. \A k \in Items : next'[k] = next[k] \/ next'[k] = NoItem
      BY <2>3 DEF Forget
    <3>3. Acyclic(next')
      BY <3>2, Unlinking DEF NeverCyclic
    <3> QED
      BY <3>1, <3>3 DEF NeverCyclic
  <2>4. CASE UNCHANGED vars
    BY <2>4 DEF vars, TypeOK, NeverCyclic, Acyclic
  <2> QED
    BY <2>1, <2>2, <2>3, <2>4 DEF Next
<1> QED
  BY <1>1, <1>2, PTL DEF Spec
=============================================================================

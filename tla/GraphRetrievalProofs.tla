------------------------ MODULE GraphRetrievalProofs ------------------------
(***************************************************************************)
(* What the reads of GraphRetrieval return is right: the pages of the      *)
(* explorer, the paths of walks and traversals, the completeness of the    *)
(* bounded walk and the order of fused rankings.                           *)
(*                                                                         *)
(*   apps/api/app/graph/service.py   bounded_walk, path_ids, the pages     *)
(*   apps/api/app/graph/store.py     traverse                              *)
(*   apps/api/app/retrieval.py       reciprocal_rank_fusion                *)
(***************************************************************************)
EXTENDS GraphRetrieval, FiniteSetTheorems, TLAPS

(* Numbers and finite sets: least and greatest elements, and induction.      *)

(* A set of ids has a least one.                                             *)
LEMMA Least ==
  ASSUME NEW S \in SUBSET Nat, S # {}
  PROVE  \E m \in S : \A k \in S : m <= k
<1> DEFINE R == OpToRel(<, Nat)
<1>1. IsWellFoundedOn(R, Nat)
  BY NatLessThanWellFounded
<1>2. PICK m \in S : \A k \in S : ~(<<k, m>> \in R)
  <2> HIDE DEF R
  <2> QED
    BY <1>1, WFMin
<1>3. ASSUME NEW k \in S PROVE m <= k
  <2>1. k \in Nat /\ m \in Nat /\ ~(k < m)
    BY <1>2 DEF OpToRel
  <2> QED
    BY <2>1
<1> QED
  BY <1>3

(* The counting of a loop: what holds at 0 and is carried on holds for all.  *)
LEMMA Counting ==
  ASSUME NEW S \in SUBSET Nat, 0 \in S, \A n \in S : n + 1 \in S
  PROVE  S = Nat
<1> SUFFICES ASSUME Nat \ S # {} PROVE FALSE
  OBVIOUS
<1>1. PICK m \in Nat \ S : \A k \in Nat \ S : m <= k
  <2>1. Nat \ S \in SUBSET Nat
    OBVIOUS
  <2> QED
    BY <2>1, Least
<1>2. m # 0
  OBVIOUS
<1>3. m - 1 \in S
  BY <1>1, <1>2
<1>4. m - 1 + 1 \in S
  BY <1>3
<1> QED
  BY <1>4

(* A finite set of ids has a greatest one: the one with the fewest after it. *)
LEMMA Greatest ==
  ASSUME NEW S \in SUBSET Nat, S # {}, IsFiniteSet(S)
  PROVE  Max(S) \in S /\ \A k \in S : k <= Max(S)
<1> DEFINE after(x) == {y \in S : y > x}
           counts == {Cardinality(after(x)) : x \in S}
<1>1. \A x \in S : IsFiniteSet(after(x)) /\ Cardinality(after(x)) \in Nat
  BY FS_Subset, FS_CardinalityType
<1>2. PICK c \in counts : \A k \in counts : c <= k
  <2>1. counts \in SUBSET Nat /\ counts # {}
    BY <1>1
  <2> QED
    BY <2>1, Least
<1>3. PICK m \in S : c = Cardinality(after(m))
  BY <1>2
<1>4. ASSUME NEW k \in S, k > m PROVE FALSE
  <2>1. after(k) \subseteq after(m)
    <3> SUFFICES ASSUME NEW y \in S, y > k PROVE y > m
      OBVIOUS
    <3>1. y \in Nat /\ k \in Nat /\ m \in Nat
      OBVIOUS
    <3> QED
      BY <1>4, <3>1
  <2>4. k \in after(m) /\ k \notin after(k)
    BY <1>4
  <2>2. /\ Cardinality(after(k)) <= Cardinality(after(m))
        /\ Cardinality(after(k)) # Cardinality(after(m))
    BY <1>1, <2>1, <2>4, FS_Subset
  <2>3. Cardinality(after(m)) <= Cardinality(after(k))
    BY <1>2, <1>3
  <2> QED
    BY <1>1, <2>2, <2>3
<1>5. \A k \in S : m >= k
  BY <1>4
<1> QED
  BY <1>5 DEF Max

LEMMA FewerInside ==
  ASSUME NEW T, IsFiniteSet(T), NEW S, S \subseteq T, NEW x \in T, x \notin S
  PROVE  Cardinality(S) < Cardinality(T)
<1>1. Cardinality(S) <= Cardinality(T) /\ (Cardinality(T) = Cardinality(S) => T = S)
      /\ IsFiniteSet(S)
  BY FS_Subset
<1>2. Cardinality(S) \in Nat /\ Cardinality(T) \in Nat /\ S # T
  BY <1>1, FS_CardinalityType
<1> QED
  BY <1>1, <1>2

-----------------------------------------------------------------------------
(* ORDER BY id LIMIT n                                                       *)
FirstById(S, n) == FirstRows(S, n, ById)

(* A limit that is not reached leaves nothing out.                           *)
LEMMA LimitNotReached ==
  ASSUME NEW S \in SUBSET Nat, IsFiniteSet(S), NEW n \in Int,
         \/ Cardinality(S) <= n
         \/ Cardinality(FirstById(S, n)) < n
  PROVE  FirstById(S, n) = S
<1> DEFINE before(x) == {y \in S : y < x}
           first == {x \in S : Cardinality(before(x)) < n}
<1>1. FirstById(S, n) = first
  BY DEF FirstById, FirstRows, ById
<1>2. IsFiniteSet(first) /\ Cardinality(first) \in Nat /\ Cardinality(S) \in Nat
  BY FS_Subset, FS_CardinalityType
<1> SUFFICES ASSUME S \ first # {} PROVE FALSE
  BY <1>1
<1>3. PICK x \in S \ first : \A y \in S \ first : x <= y
  BY Least
<1>4. IsFiniteSet(before(x)) /\ Cardinality(before(x)) \in Nat /\ Cardinality(before(x)) >= n
  BY FS_Subset, FS_CardinalityType
<1>5. before(x) \subseteq first
  <2> SUFFICES ASSUME NEW y \in S, y < x PROVE y \in first
    OBVIOUS
  <2>1. x \in Nat /\ y \in Nat /\ ~(x <= y)
    OBVIOUS
  <2> QED
    BY <1>3, <2>1
<1>6. CASE Cardinality(S) <= n
  <2>1. before(x) \in SUBSET S /\ before(x) # S
    OBVIOUS
  <2>2. Cardinality(before(x)) < Cardinality(S)
    BY <1>2, <1>4, <2>1, FS_Subset
  <2> QED
    BY <1>2, <1>4, <1>6, <2>2
<1>7. CASE Cardinality(FirstById(S, n)) < n
  <2>1. Cardinality(before(x)) <= Cardinality(first)
    BY <1>2, <1>5, FS_Subset
  <2> QED
    BY <1>1, <1>2, <1>4, <1>7, <2>1
<1> QED
  BY <1>6, <1>7

(* What comes before a row of the answer is in the answer.                   *)
LEMMA NoGaps ==
  ASSUME NEW S \in SUBSET Nat, IsFiniteSet(S), NEW n \in Int,
         NEW x \in S, NEW y \in FirstById(S, n), x <= y
  PROVE  x \in FirstById(S, n)
<1> DEFINE before(z) == {w \in S : w < z}
<1>1. y \in S /\ Cardinality(before(y)) < n
  BY DEF FirstById, FirstRows, ById
<1>2. IsFiniteSet(before(y)) /\ before(x) \in SUBSET before(y)
  <2>1. ASSUME NEW w \in S, w < x PROVE w < y
    <3>1. w \in Nat /\ x \in Nat /\ y \in Nat
      BY <1>1
    <3> QED
      BY <2>1, <3>1
  <2>2. before(x) \in SUBSET before(y) /\ before(y) \in SUBSET S
    BY <2>1
  <2> QED
    BY <2>2, FS_Subset
<1>3. Cardinality(before(x)) <= Cardinality(before(y))
  BY <1>2, FS_Subset
<1>4. Cardinality(before(x)) \in Nat /\ Cardinality(before(y)) \in Nat
  BY <1>2, FS_Subset, FS_CardinalityType
<1>5. Cardinality(before(x)) < n
  BY <1>1, <1>3, <1>4
<1> QED
  BY <1>5 DEF FirstById, FirstRows, ById

-----------------------------------------------------------------------------
(* Pages *)

Pagings == [kind : {"page"}, phase : {"page", "done"}, cursor : Nat, limit : PageLimits,
            pages : Seq(SUBSET Nodes), always : SUBSET Nodes]

(* The pages do not overlap, and what is there all the time and not beyond   *)
(* the cursor is on one of them.                                             *)
PagingOK ==
  /\ task \in Pagings
  /\ task.always \subseteq nodes
  /\ \A i, j \in DOMAIN task.pages : i # j => task.pages[i] \intersect task.pages[j] = {}
  /\ task.phase = "page" =>
      /\ \A i \in DOMAIN task.pages : \A n \in task.pages[i] : n <= task.cursor
      /\ \A n \in task.always : n <= task.cursor => \E i \in DOMAIN task.pages : n \in task.pages[i]
  /\ task.phase = "done" =>
      \A n \in task.always : \E i \in DOMAIN task.pages : n \in task.pages[i]

(* A page and its cursor: all the rows up to the cursor and no others.       *)
LEMMA PageUpToCursor ==
  ASSUME NEW S \in SUBSET Nodes, NEW n \in Nat \ {0},
         Cardinality(FirstById(S, n + 1)) > n
  PROVE  LET rows == FirstById(S, n + 1)
             page == FirstById(rows, n)
         IN  /\ NextCursor(rows, page) \in page
             /\ page = {x \in S : x <= NextCursor(rows, page)}
<1> DEFINE rows == FirstById(S, n + 1)
           page == FirstById(rows, n)
<1>1. /\ S \in SUBSET Nat /\ IsFiniteSet(S) /\ rows \in SUBSET S /\ IsFiniteSet(rows)
      /\ page \in SUBSET rows /\ IsFiniteSet(page)
  BY GraphAssumption, FS_Subset DEF FirstById, FirstRows
<1> HIDE DEF rows
<1>2. page # {}
  <2>1. rows # {} /\ rows \in SUBSET Nat
    <3>1. Cardinality(rows) > n
      BY DEF rows
    <3>2. rows = {} => Cardinality(rows) = 0
      BY FS_EmptySet
    <3>3. rows # {}
      BY <3>1, <3>2
    <3> QED
      BY <1>1, <3>3
  <2>2. PICK x \in rows : \A y \in rows : x <= y
    BY <2>1, Least
  <2>3. {y \in rows : y < x} = {}
    <3> SUFFICES ASSUME NEW y \in rows PROVE ~(y < x)
      OBVIOUS
    <3>1. y \in Nat /\ x \in Nat /\ x <= y
      BY <2>1, <2>2
    <3> QED
      BY <3>1
  <2>4. Cardinality({y \in rows : y < x}) < n
    BY <2>3, FS_EmptySet
  <2> QED
    BY <2>4 DEF FirstById, FirstRows, ById
<1> HIDE DEF page
<1>3. Max(page) \in page /\ \A y \in page : y <= Max(page)
  <2>1. page \in SUBSET Nat
    BY <1>1
  <2> QED
    BY <1>1, <1>2, <2>1, Greatest
<1>4. ASSUME NEW x \in S, x <= Max(page) PROVE x \in page
  <2>1. Max(page) \in rows /\ rows \in SUBSET Nat
    BY <1>1, <1>3
  <2>2. x \in rows
    BY <1>1, <1>4, <2>1, NoGaps DEF rows
  <2> QED
    BY <1>1, <1>3, <1>4, <2>1, <2>2, NoGaps DEF page
<1> QED
  BY <1>1, <1>3, <1>4 DEF NextCursor, rows, page

(* The last page: all that is left.                                          *)
LEMMA LastPage ==
  ASSUME NEW S \in SUBSET Nodes, NEW n \in Nat,
         ~(Cardinality(FirstById(S, n + 1)) > n)
  PROVE  FirstById(FirstById(S, n + 1), n) = S
<1>1. S \in SUBSET Nat /\ IsFiniteSet(S) /\ Cardinality(S) \in Nat
  BY GraphAssumption, FS_Subset, FS_CardinalityType
<1>2. /\ IsFiniteSet(FirstById(S, n + 1))
      /\ Cardinality(FirstById(S, n + 1)) \in Nat
  BY <1>1, FS_Subset, FS_CardinalityType DEF FirstById, FirstRows
<1>3. FirstById(S, n + 1) = S
  BY <1>1, <1>2, LimitNotReached
<1>4. Cardinality(S) <= n
  BY <1>1, <1>3
<1> QED
  BY <1>1, <1>3, <1>4, LimitNotReached

LEMMA ReadPageKeeps ==
  ASSUME nodes \in SUBSET Nodes, PagingOK, ReadPage
  PROVE  PagingOK' /\ task'.kind = "page"
<1> DEFINE S == {n \in nodes : n > task.cursor}
           rows == FirstById(S, task.limit + 1)
           page == FirstById(rows, task.limit)
           cursor == NextCursor(rows, page)
<1>1. /\ S \in SUBSET Nodes /\ task.limit \in Nat \ {0} /\ task.cursor \in Nat
      /\ task.phase = "page" /\ nodes' = nodes
      /\ rows \in SUBSET S /\ page \in SUBSET rows
  BY LimitsAssumption DEF PagingOK, Pagings, ReadPage, InPhase, FirstById, FirstRows
<1>2. /\ Cardinality(rows) > task.limit =>
          task' = [task EXCEPT !.pages = Append(task.pages, page), !.cursor = cursor]
      /\ ~(Cardinality(rows) > task.limit) =>
          task' = [task EXCEPT !.pages = Append(task.pages, page), !.phase = "done"]
  BY DEF ReadPage, FirstById, PagingOK, Pagings
<1>3. Cardinality(rows) > task.limit =>
        cursor \in page /\ page = {x \in S : x <= cursor}
  BY <1>1, PageUpToCursor
<1>4. ~(Cardinality(rows) > task.limit) => page = S
  BY <1>1, LastPage
<1> DEFINE pages == Append(task.pages, page)
<1> HIDE DEF rows, page, cursor
<1>5. /\ pages \in Seq(SUBSET Nodes) /\ DOMAIN pages = 1..(Len(task.pages) + 1)
      /\ DOMAIN task.pages = 1..Len(task.pages) /\ Len(task.pages) \in Nat
      /\ pages[Len(task.pages) + 1] = page
      /\ \A i \in DOMAIN task.pages : pages[i] = task.pages[i]
  BY <1>1 DEF PagingOK, Pagings
<1> HIDE DEF pages
<1>6. \A i \in DOMAIN task.pages : task.pages[i] \intersect page = {}
  <2> SUFFICES ASSUME NEW i \in DOMAIN task.pages, NEW n \in task.pages[i], n \in page
               PROVE  FALSE
    OBVIOUS
  <2>1. n \in Nat /\ n > task.cursor /\ n <= task.cursor
    BY <1>1, GraphAssumption DEF PagingOK
  <2> QED
    BY <1>1, <2>1
<1>7. \A i, j \in DOMAIN pages : i # j => pages[i] \intersect pages[j] = {}
  BY <1>5, <1>6 DEF PagingOK
<1>8. \A n \in task.always : n \in S \/ \E i \in DOMAIN task.pages : n \in task.pages[i]
  <2> SUFFICES ASSUME NEW n \in task.always, n \notin S
               PROVE  \E i \in DOMAIN task.pages : n \in task.pages[i]
    OBVIOUS
  <2>1. n \in nodes /\ n \in Nat /\ task.cursor \in Nat
    BY <1>1, GraphAssumption DEF PagingOK
  <2>2. n <= task.cursor
    BY <2>1
  <2> QED
    BY <1>1, <2>2 DEF PagingOK
<1>9. task.always \subseteq nodes /\ task \in Pagings
  BY DEF PagingOK
<1>10. CASE Cardinality(rows) > task.limit
  <2>1. /\ task'.pages = pages /\ task'.cursor = cursor /\ task'.phase = "page"
        /\ task'.always = task.always
    BY <1>1, <1>2, <1>9, <1>10 DEF pages, Pagings
  <2>2. cursor \in nodes /\ cursor \in Nat /\ cursor > task.cursor
    BY <1>1, <1>3, <1>10, GraphAssumption
  <2>3. task' \in Pagings
    BY <1>2, <1>5, <1>9, <1>10, <2>2 DEF pages, Pagings
  <2>4. \A i \in DOMAIN pages : \A n \in pages[i] : n <= cursor
    <3>1. \A n \in page : n <= cursor
      BY <1>3, <1>10
    <3>2. ASSUME NEW i \in DOMAIN task.pages, NEW n \in task.pages[i] PROVE n <= cursor
      <4>1. n <= task.cursor
        BY <1>1 DEF PagingOK
      <4>2. task.pages \in Seq(SUBSET Nodes)
        BY <1>9 DEF Pagings
      <4>3. task.pages[i] \in SUBSET Nodes
        BY <1>5, <4>2
      <4>4. n \in Nat
        BY <4>3, GraphAssumption
      <4> QED
        BY <1>1, <2>2, <4>1, <4>4
    <3> QED
      BY <1>5, <3>1, <3>2
  <2>5. \A n \in task.always : n <= cursor => \E i \in DOMAIN pages : n \in pages[i]
    BY <1>3, <1>5, <1>8, <1>10
  <2> QED
    BY <1>1, <1>7, <1>9, <2>1, <2>3, <2>4, <2>5 DEF PagingOK, Pagings
<1>11. CASE ~(Cardinality(rows) > task.limit)
  <2>1. /\ task'.pages = pages /\ task'.phase = "done" /\ task'.always = task.always
        /\ task' \in Pagings
    BY <1>2, <1>5, <1>9, <1>11 DEF pages, Pagings
  <2>2. \A n \in task.always : \E i \in DOMAIN pages : n \in pages[i]
    BY <1>4, <1>5, <1>8, <1>11
  <2> QED
    BY <1>1, <1>7, <1>9, <2>1, <2>2 DEF PagingOK, Pagings
<1> QED
  BY <1>10, <1>11

-----------------------------------------------------------------------------
(* Fusion *)

IsRanking(ranking) == DOMAIN ranking \subseteq 1..MaxRank

LEMMA RankingsAreShort == \A ranking \in Rankings : \A n \in Nat \ {0} :
  IsRanking(FirstOf(ranking, 2 * n)) /\ IsFiniteSet(Range(FirstOf(ranking, 2 * n)))
<1> SUFFICES ASSUME NEW ranking \in Rankings, NEW n \in Nat \ {0}
             PROVE  /\ IsRanking(FirstOf(ranking, 2 * n))
                    /\ IsFiniteSet(Range(FirstOf(ranking, 2 * n)))
  OBVIOUS
<1>1. PICK m \in 0..MaxRank : ranking \in [1..m -> Chunks]
  BY DEF Rankings, SeqOf
<1>2. ranking \in Seq(Chunks) /\ Len(ranking) = m /\ m \in Nat /\ m <= MaxRank
  BY <1>1, RanksAssumption
<1> DEFINE first == FirstOf(ranking, 2 * n)
           short == IF 2 * n < m THEN 2 * n ELSE m
<1>3. first = SubSeq(ranking, 1, short) /\ short \in 0..m
  <2>1. 2 * n \in Nat /\ first = SubSeq(ranking, 1, short)
    BY <1>2 DEF FirstOf
  <2> HIDE DEF first
  <2> QED
    BY <1>2, <2>1
<1>4. first \in Seq(Chunks) /\ Len(first) = short
  BY <1>2, <1>3
<1> HIDE DEF first
<1>5. DOMAIN first = 1..short /\ short \in Nat /\ short <= MaxRank
  <2>1. short \in Nat /\ short <= m
    BY <1>2, <1>3
  <2> HIDE DEF short
  <2>2. DOMAIN first = 1..short
    BY <1>4, <2>1
  <2> QED
    BY <1>2, <2>1, <2>2, RanksAssumption
<1>6. IsRanking(first)
  BY <1>5, RanksAssumption DEF IsRanking
<1>7. first \in Surjection(DOMAIN first, Range(first))
  BY <1>4, <1>5 DEF Range, Surjection
<1>8. IsFiniteSet(DOMAIN first)
  BY <1>5, FS_Interval
<1>9. IsFiniteSet(Range(first))
  BY <1>7, <1>8, FS_Surjection
<1> QED
  BY <1>6, <1>9 DEF first

LEMMA RankIsPosition ==
  ASSUME NEW ranking, IsRanking(ranking), NEW c \in Range(ranking)
  PROVE  RankIn(ranking, c) \in 1..MaxRank /\ ranking[RankIn(ranking, c)] = c
<1>1. \E i \in DOMAIN ranking : ranking[i] = c
  BY DEF Range
<1>2. RankIn(ranking, c) \in DOMAIN ranking /\ ranking[RankIn(ranking, c)] = c
  BY <1>1 DEF RankIn
<1> QED
  BY <1>2 DEF IsRanking

(* Products and quotients of whole numbers.                                  *)
LEMMA Divides ==
  ASSUME NEW a \in Nat, NEW b \in Nat \ {0}, a % b = 0
  PROVE  a \div b \in Nat /\ a = (a \div b) * b
OBVIOUS

LEMMA LargerDivisor ==
  ASSUME NEW a \in Nat \ {0}, NEW b \in Nat \ {0}, NEW c \in Nat \ {0}, b < c,
         NEW p \in Nat, NEW q \in Nat, a = p * b, a = q * c
  PROVE  p > q
<1>1. p # 0 /\ q # 0
  OBVIOUS
<1> SUFFICES ASSUME p <= q PROVE FALSE
  OBVIOUS
<1>2. p * b <= q * b
  OBVIOUS
<1>3. q * b < q * c
  BY <1>1
<1> QED
  BY <1>2, <1>3

LEMMA Weighted ==
  ASSUME NEW weight \in Nat, NEW p \in Nat, NEW q \in Nat, p > q
  PROVE  /\ weight * p \in Nat /\ weight * q \in Nat /\ weight * p >= weight * q
         /\ weight > 0 => weight * p > weight * q
OBVIOUS

(* What a rank adds to a score is a whole number, and falls with the rank.   *)
Part(rank) == Common \div (K + rank)

LEMMA PartIsNat == \A rank \in 1..MaxRank :
  Part(rank) \in Nat /\ Part(rank) > 0 /\ Common = Part(rank) * (K + rank)
<1> SUFFICES ASSUME NEW rank \in 1..MaxRank
             PROVE  Part(rank) \in Nat /\ Part(rank) > 0 /\ Common = Part(rank) * (K + rank)
  OBVIOUS
<1>1. K + rank \in Nat \ {0} /\ Common \in Nat \ {0} /\ Common % (K + rank) = 0
  BY RanksAssumption DEF K
<1>2. Part(rank) \in Nat /\ Common = Part(rank) * (K + rank)
  BY <1>1, Divides DEF Part
<1>3. Part(rank) # 0
  BY <1>1, <1>2
<1> QED
  BY <1>2, <1>3

LEMMA PartFalls ==
  ASSUME NEW i \in 1..MaxRank, NEW j \in 1..MaxRank, i < j
  PROVE  Part(i) > Part(j)
<1>1. K + i \in Nat \ {0} /\ K + j \in Nat \ {0} /\ K + i < K + j
  BY RanksAssumption DEF K
<1> QED
  BY <1>1, PartIsNat, LargerDivisor, RanksAssumption

LEMMA ComponentIsNat ==
  ASSUME NEW ranking, IsRanking(ranking), NEW weight \in Nat, NEW c
  PROVE  Component(weight, ranking, c) \in Nat
<1>1. CASE c \in Range(ranking)
  <2>1. Part(RankIn(ranking, c)) \in Nat
    BY <1>1, RankIsPosition, PartIsNat
  <2>2. Component(weight, ranking, c) = weight * Part(RankIn(ranking, c))
    BY <1>1 DEF Component, Part
  <2> QED
    BY <2>1, <2>2
<1>2. CASE c \notin Range(ranking)
  BY <1>2 DEF Component
<1> QED
  BY <1>1, <1>2

(* What one ranking adds to the score of a chunk falls with its rank.        *)
LEMMA ComponentFalls ==
  ASSUME NEW ranking, IsRanking(ranking), NEW weight \in Nat, NEW c, NEW d,
         ~Above(ranking, d, c)
  PROVE  /\ Component(weight, ranking, c) \in Nat /\ Component(weight, ranking, d) \in Nat
         /\ Component(weight, ranking, c) >= Component(weight, ranking, d)
         /\ weight > 0 /\ Above(ranking, c, d) =>
              Component(weight, ranking, c) > Component(weight, ranking, d)
<1>1. Component(weight, ranking, c) \in Nat /\ Component(weight, ranking, d) \in Nat
  BY ComponentIsNat
<1>2. CASE d \notin Range(ranking)
  <2>1. Component(weight, ranking, d) = 0
    BY <1>2 DEF Component
  <2>2. weight > 0 /\ Above(ranking, c, d) => Component(weight, ranking, c) > 0
    <3> SUFFICES ASSUME weight > 0, c \in Range(ranking)
                 PROVE  Component(weight, ranking, c) > 0
      BY DEF Above
    <3>1. Part(RankIn(ranking, c)) \in Nat /\ Part(RankIn(ranking, c)) > 0
      BY RankIsPosition, PartIsNat
    <3>2. Component(weight, ranking, c) = weight * Part(RankIn(ranking, c))
      BY DEF Component, Part
    <3> QED
      BY <3>1, <3>2
  <2> QED
    BY <1>1, <2>1, <2>2
<1>3. CASE d \in Range(ranking)
  <2> DEFINE i == RankIn(ranking, c)
             j == RankIn(ranking, d)
  <2>1. c \in Range(ranking)
    BY <1>3 DEF Above
  <2>2. /\ i \in 1..MaxRank /\ j \in 1..MaxRank /\ i <= j
        /\ Above(ranking, c, d) => i < j
    <3>1. i \in 1..MaxRank /\ j \in 1..MaxRank
      BY <1>3, <2>1, RankIsPosition
    <3>2. ~(j < i) /\ (Above(ranking, c, d) => i < j)
      BY <1>3, <2>1 DEF Above
    <3> QED
      BY <3>1, <3>2, RanksAssumption
  <2>3. /\ Component(weight, ranking, c) = weight * Part(i)
        /\ Component(weight, ranking, d) = weight * Part(j)
    BY <1>3, <2>1 DEF Component, Part
  <2> HIDE DEF i, j
  <2>4. CASE i < j
    <3>1. Part(i) \in Nat /\ Part(j) \in Nat /\ Part(i) > Part(j)
      BY <2>2, <2>4, PartIsNat, PartFalls
    <3> QED
      BY <1>1, <2>3, <3>1, Weighted
  <2>5. CASE i = j
    BY <1>1, <2>2, <2>3, <2>5
  <2> QED
    BY <2>2, <2>4, <2>5, RanksAssumption
<1> QED
  BY <1>2, <1>3

(* The place of a chunk is below that of every chunk it is ahead of.         *)
LEMMA FuseKeeps ==
  ASSUME Fuse
  PROVE  task'.kind = "fuse" /\ task'.phase = "done" /\ FusionRespectsRanks'
<1>1. PICK vector \in Rankings, graph \in Rankings, weights \in Weights, top_k \in PageLimits :
        LET t == [kind |-> "fuse", phase |-> "done", vector |-> FirstOf(vector, 2 * top_k),
                  graph |-> FirstOf(graph, 2 * top_k), weights |-> weights, limit |-> top_k,
                  fused |-> <<>>]
        IN  task' = [t EXCEPT !.fused = Fused(t)]
  BY DEF Fuse
<1> DEFINE t == [kind |-> "fuse", phase |-> "done", vector |-> FirstOf(vector, 2 * top_k),
                 graph |-> FirstOf(graph, 2 * top_k), weights |-> weights, limit |-> top_k,
                 fused |-> <<>>]
           all == Range(t.vector) \union Range(t.graph)
           ahead(c) == {d \in all : Ahead(t, d, c)}
           place == [c \in all |-> 1 + Cardinality(ahead(c))]
<1>2. /\ task'.kind = "fuse" /\ task'.phase = "done" /\ task'.weights = t.weights
      /\ task'.vector = t.vector /\ task'.graph = t.graph /\ task'.fused = Fused(t)
  BY <1>1
<1>3. /\ IsRanking(t.vector) /\ IsRanking(t.graph) /\ IsFiniteSet(all)
      /\ t.weights[1] \in Nat /\ t.weights[2] \in Nat /\ t.limit \in Nat
  <2>1. weights[1] \in Nat /\ weights[2] \in Nat /\ top_k \in Nat \ {0}
    BY LimitsAssumption
  <2>2. /\ IsFiniteSet(Range(t.vector)) /\ IsFiniteSet(Range(t.graph))
        /\ IsRanking(t.vector) /\ IsRanking(t.graph)
    BY <2>1, RankingsAreShort
  <2> QED
    BY <2>1, <2>2, FS_Union
<1>4. Fused(t) = [c \in {c \in all : place[c] <= t.limit} |-> place[c]]
  BY DEF Fused
<1> HIDE DEF t
<1>5. \A c \in all : IsFiniteSet(ahead(c)) /\ Cardinality(ahead(c)) \in Nat
  BY <1>3, FS_Subset, FS_CardinalityType
<1>6. ASSUME NEW c \in Chunks, NEW d \in DOMAIN Fused(t), d \in Chunks,
             t.weights[1] > 0, t.weights[2] > 0,
             Above(t.vector, c, d) \/ Above(t.graph, c, d),
             ~Above(t.vector, d, c), ~Above(t.graph, d, c)
      PROVE  c \in DOMAIN Fused(t) /\ Fused(t)[c] < Fused(t)[d]
  <2>1. c \in all /\ d \in all /\ place[d] <= t.limit
    BY <1>4, <1>6 DEF Above
  <2>2. /\ Score(t, c) \in Nat /\ Score(t, d) \in Nat
        /\ Score(t, c) > Score(t, d)
    BY <1>3, <1>6, ComponentFalls DEF Score
  <2>3. \A x \in all : Score(t, x) \in Nat
    BY <1>3, ComponentIsNat DEF Score
  <2>4. ahead(c) \subseteq ahead(d)
    <3> SUFFICES ASSUME NEW x \in all, Ahead(t, x, c) PROVE Ahead(t, x, d)
      OBVIOUS
    <3>1. Score(t, x) >= Score(t, c) /\ Score(t, x) \in Nat
      BY <2>2, <2>3 DEF Ahead
    <3> QED
      BY <2>2, <3>1 DEF Ahead
  <2>8. c \in ahead(d) /\ c \notin ahead(c)
    <3>1. Ahead(t, c, d)
      BY <2>2 DEF Ahead
    <3>2. ~Ahead(t, c, c)
      <4>1. c \in Nat
        BY LimitsAssumption
      <4> QED
        BY <2>2, <4>1 DEF Ahead
    <3> QED
      BY <2>1, <3>1, <3>2
  <2>9. place[c] = 1 + Cardinality(ahead(c)) /\ place[d] = 1 + Cardinality(ahead(d))
    BY <2>1
  <2> HIDE DEF ahead, place
  <2>5. Cardinality(ahead(c)) < Cardinality(ahead(d))
    BY <1>5, <2>1, <2>4, <2>8, FewerInside
  <2>6. place[c] < place[d] /\ place[c] \in Nat /\ place[d] \in Nat
    BY <1>5, <2>1, <2>5, <2>9
  <2>7. place[c] <= t.limit
    BY <1>3, <2>1, <2>6
  <2> HIDE DEF all
  <2> QED
    BY <1>4, <2>1, <2>6, <2>7
<1> HIDE DEF place, all
<1> QED
  BY <1>2, <1>6 DEF FusionRespectsRanks

-----------------------------------------------------------------------------
(* Paths and relations *)

Paths == [nodes : Seq(Nodes), relations : Seq(Edges)]

LEMMA EndsAreNodes == \A e \in Edges : EndsOf(e) \subseteq Nodes
BY GraphAssumption DEF EndsOf

(* A relation that touches the frontier joins its matched and its new end.   *)
LEMMA MatchedEnd ==
  ASSUME NEW e \in Edges, NEW frontier, EndsOf(e) \intersect frontier # {}
  PROVE  /\ Parent(frontier, e) \in frontier
         /\ EndsOf(e) = {Parent(frontier, e), Other(frontier, e)}
         /\ Parent(frontier, e) \in Nodes /\ Other(frontier, e) \in Nodes
BY GraphAssumption DEF EndsOf, Parent, Other

(* One more step to a node that the path does not visit.                     *)
LEMMA LongerExplains ==
  ASSUME NEW path \in Paths, NEW kept, NEW e \in Edges, NEW n \in Nodes,
         NEW more, kept \subseteq more, e \in more,
         Explains(path, kept), path.nodes # <<>>,
         EndsOf(e) = {Last(path.nodes), n}, n \notin Range(path.nodes)
  PROVE  /\ Longer(path, e, n) \in Paths /\ Explains(Longer(path, e, n), more)
         /\ Head(Longer(path, e, n).nodes) = Head(path.nodes)
         /\ Last(Longer(path, e, n).nodes) = n
         /\ Longer(path, e, n).nodes # <<>>
         /\ Range(Longer(path, e, n).nodes) = Range(path.nodes) \union {n}
<1> DEFINE k == Len(path.relations)
           ns == Append(path.nodes, n)
           es == Append(path.relations, e)
<1>1. /\ path.nodes \in Seq(Nodes) /\ path.relations \in Seq(Edges)
      /\ k \in Nat /\ Len(path.nodes) = k + 1
  BY DEF Paths, Explains
<1>2. /\ ns \in Seq(Nodes) /\ es \in Seq(Edges) /\ Len(ns) = k + 2 /\ Len(es) = k + 1
      /\ \A i \in 1..(k + 1) : ns[i] = path.nodes[i]
      /\ ns[k + 2] = n
      /\ \A i \in 1..k : es[i] = path.relations[i]
      /\ es[k + 1] = e
  BY <1>1
<1>3. Longer(path, e, n) = [nodes |-> ns, relations |-> es]
  BY DEF Longer
<1> HIDE DEF ns, es, k
<1>4. /\ DOMAIN ns = 1..(k + 2) /\ DOMAIN es = 1..(k + 1)
      /\ DOMAIN path.nodes = 1..(k + 1) /\ DOMAIN path.relations = 1..k
  BY <1>1, <1>2 DEF k
<1>5. Range(ns) = Range(path.nodes) \union {n}
  BY <1>1, <1>2, <1>4 DEF Range
<1>6. IsInjective(ns)
  <2>1. \A i \in 1..(k + 1) : path.nodes[i] # n
    BY <1>4 DEF Range
  <2>2. \A i, j \in 1..(k + 1) : path.nodes[i] = path.nodes[j] => i = j
    BY <1>4 DEF Explains, IsInjective
  <2>3. \A i \in DOMAIN ns : i = k + 2 \/ i \in 1..(k + 1)
    BY <1>1, <1>4
  <2> QED
    BY <1>2, <1>4, <2>1, <2>2, <2>3 DEF IsInjective
<1>7. \A i \in DOMAIN es : es[i] \in more /\ EndsOf(es[i]) = {ns[i], ns[i + 1]}
  <2>1. ASSUME NEW i \in 1..k
        PROVE  es[i] \in more /\ EndsOf(es[i]) = {ns[i], ns[i + 1]}
    <3>1. i \in 1..(k + 1) /\ i + 1 \in 1..(k + 1) /\ i \in DOMAIN path.relations
      BY <1>1, <1>4
    <3> QED
      BY <1>2, <3>1 DEF Explains
  <2>2. es[k + 1] \in more /\ EndsOf(es[k + 1]) = {ns[k + 1], ns[k + 1 + 1]}
    <3>1. ns[k + 1] = Last(path.nodes) /\ k + 1 + 1 = k + 2
      BY <1>1, <1>2 DEF Last
    <3> QED
      BY <1>2, <3>1
  <2>3. \A i \in DOMAIN es : i = k + 1 \/ i \in 1..k
    BY <1>1, <1>4
  <2> QED
    BY <2>1, <2>2, <2>3
<1>8. Explains(Longer(path, e, n), more)
  <2>1. Len(ns) = Len(es) + 1
    BY <1>1, <1>2
  <2> QED
    BY <1>3, <1>6, <1>7, <2>1 DEF Explains
<1>9. Head(ns) = Head(path.nodes) /\ Last(ns) = n /\ ns # <<>>
  <2>1. Head(ns) = ns[1] /\ Head(path.nodes) = path.nodes[1] /\ 1 \in 1..(k + 1)
    BY <1>1, <1>2
  <2> QED
    BY <1>1, <1>2, <2>1 DEF Last
<1> QED
  BY <1>2, <1>3, <1>5, <1>8, <1>9 DEF Paths

LEMMA PathToExplains ==
  ASSUME NEW n \in Nodes, NEW kept
  PROVE  /\ PathTo(n) \in Paths /\ Explains(PathTo(n), kept)
         /\ PathTo(n).nodes # <<>> /\ Head(PathTo(n).nodes) = n /\ Last(PathTo(n).nodes) = n
         /\ Range(PathTo(n).nodes) = {n}
BY DEF PathTo, Paths, Explains, IsInjective, Last, Range

-----------------------------------------------------------------------------
(* The traversal *)

(* Nothing is said of the chunks and the results of a traversal.             *)
Traversals(chunks, results) ==
  [kind : {"traverse"}, phase : {"relations", "entities", "follow", "evidence", "done"},
   depth : Int, chunks : chunks, fanout : Fanouts,
   paths : UNION {[D -> Paths] : D \in SUBSET Nodes}, frontier : SUBSET Nodes,
   seeds : SUBSET Nodes, relations : SUBSET Edges, next : SUBSET Nodes, rows : SUBSET Edges,
   supported : SUBSET Nodes, results : results]

(* The path to n explains it, by nodes that have paths themselves.           *)
Leads(t, n) ==
  /\ Explains(t.paths[n], t.relations) /\ t.paths[n].nodes # <<>>
  /\ Head(t.paths[n].nodes) \in t.seeds /\ Last(t.paths[n].nodes) = n
  /\ Range(t.paths[n].nodes) \subseteq DOMAIN t.paths

TraversalOK ==
  /\ task \in Traversals({task.chunks}, {task.results})
  /\ task.frontier \union task.next \subseteq DOMAIN task.paths
  /\ task.phase \in {"entities", "follow"} =>
      \A e \in task.rows : EndsOf(e) \intersect task.frontier # {}
  /\ \A n \in DOMAIN task.paths : Leads(task, n)

LEMMA StartTraversalKeeps ==
  ASSUME nodes \in SUBSET Nodes, StartTraversal
  PROVE  TraversalOK' /\ task'.kind = "traverse"
<1>1. PICK seeds \in SUBSET nodes, chunks \in SUBSET {ev.chunk : ev \in Evidence},
           depth \in Depths \intersect {1, 2}, fanout \in Fanouts :
        task' = [kind |-> "traverse", phase |-> "relations", depth |-> depth, chunks |-> chunks,
                 fanout |-> fanout, paths |-> [n \in seeds |-> PathTo(n)], frontier |-> seeds,
                 seeds |-> seeds, relations |-> {}, next |-> {}, rows |-> {}, supported |-> {},
                 results |-> {}]
  BY DEF StartTraversal
<1>2. seeds \in SUBSET Nodes /\ depth \in Int
  OBVIOUS
<1>3. [n \in seeds |-> PathTo(n)] \in UNION {[D -> Paths] : D \in SUBSET Nodes}
  <2>1. [n \in seeds |-> PathTo(n)] \in [seeds -> Paths]
    BY <1>2, PathToExplains
  <2> QED
    BY <1>2, <2>1
<1>4. task' \in Traversals({task'.chunks}, {task'.results})
  BY <1>1, <1>2, <1>3 DEF Traversals
<1>5. \A n \in seeds : Leads(task', n)
  BY <1>1, <1>2, PathToExplains DEF Leads
<1> QED
  BY <1>1, <1>4, <1>5 DEF TraversalOK

LEMMA TraverseRelationsKeeps ==
  ASSUME edges \in SUBSET Edges, TraversalOK, TraverseRelations
  PROVE  TraversalOK' /\ task'.kind = "traverse"
<1> DEFINE rows == FirstRows(Touching(edges, task.frontier),
                             Cardinality(task.frontier) * task.fanout, BySurest)
<1>1. rows \in SUBSET Edges /\ \A e \in rows : EndsOf(e) \intersect task.frontier # {}
  BY DEF FirstRows, Touching
<1>2. \/ task' = [task EXCEPT !.phase = "evidence"]
      \/ task' = [task EXCEPT !.phase = "entities", !.rows = rows]
  BY DEF TraverseRelations
<1> HIDE DEF rows
<1>3. /\ task \in Traversals({task.chunks}, {task.results})
      /\ task.frontier \union task.next \subseteq DOMAIN task.paths
      /\ \A n \in DOMAIN task.paths : Leads(task, n)
  BY DEF TraversalOK
<1>4. /\ task' \in Traversals({task'.chunks}, {task'.results}) /\ task'.kind = "traverse"
      /\ task'.frontier = task.frontier /\ task'.next = task.next /\ task'.paths = task.paths
      /\ task'.seeds = task.seeds /\ task'.relations = task.relations
  BY <1>1, <1>2, <1>3 DEF Traversals
<1>5. task'.phase = "evidence" \/ task'.rows = rows
  BY <1>2, <1>3 DEF Traversals
<1>6. \A n \in DOMAIN task'.paths : Leads(task', n)
  BY <1>3, <1>4 DEF Leads
<1> QED
  BY <1>1, <1>3, <1>4, <1>5, <1>6 DEF TraversalOK

LEMMA TraverseEntitiesKeeps ==
  ASSUME nodes \in SUBSET Nodes, TraversalOK, TraverseEntities
  PROVE  TraversalOK' /\ task'.kind = "traverse"
<1> DEFINE supported == nodes \intersect EndsIn(task.rows)
<1>1. supported \in SUBSET Nodes /\ task.phase = "entities"
      /\ task' = [task EXCEPT !.phase = "follow", !.supported = supported]
  BY DEF TraverseEntities, InPhase
<1> HIDE DEF supported
<1> QED
  BY <1>1 DEF TraversalOK, Traversals, Leads

(* The first path to an entity is that of its matched end, one step longer.  *)
LEMMA FollowRelationKeeps ==
  ASSUME TraversalOK, FollowRelation
  PROVE  TraversalOK' /\ task'.kind = "traverse"
<1>1. PICK e \in task.rows : task' = Followed(task, e)
  BY DEF FollowRelation
<1>2. /\ task \in Traversals({task.chunks}, {task.results}) /\ task.phase = "follow"
      /\ \A n \in DOMAIN task.paths : Leads(task, n)
      /\ \A f \in task.rows : EndsOf(f) \intersect task.frontier # {}
      /\ task.frontier \union task.next \subseteq DOMAIN task.paths
  BY DEF TraversalOK, FollowRelation, InPhase
<1> DEFINE matched == Parent(task.frontier, e)
           new == Other(task.frontier, e)
<1>3. e \in Edges /\ matched \in task.frontier /\ EndsOf(e) = {matched, new} /\ new \in Nodes
  BY <1>2, MatchedEnd DEF Traversals
<1> DEFINE rest == task.rows \ {e}
           kept == task.relations \union {e}
           domain == DOMAIN task.paths \union {new}
           paths == [n \in domain |->
                       IF n = new THEN Longer(task.paths[matched], e, new) ELSE task.paths[n]]
<1>4. \/ task' = [task EXCEPT !.rows = rest]
      \/ task' = [task EXCEPT !.rows = rest, !.relations = kept]
      \/ /\ new \notin DOMAIN task.paths
         /\ task' = [task EXCEPT !.rows = rest, !.relations = kept,
                                 !.next = task.next \union {new}, !.paths = paths]
  BY <1>1, <1>2 DEF Followed, Traversals
<1>5. rest \in SUBSET Edges /\ rest \subseteq task.rows /\ kept \in SUBSET Edges
      /\ task.relations \subseteq kept /\ e \in kept
  BY <1>2, <1>3 DEF Traversals
<1> HIDE DEF matched, new, rest, kept, paths
<1>6. CASE task' = [task EXCEPT !.rows = rest]
  BY <1>2, <1>5, <1>6 DEF TraversalOK, Traversals, Leads
<1>7. CASE task' = [task EXCEPT !.rows = rest, !.relations = kept]
  <2>1. \A n \in DOMAIN task.paths : Explains(task.paths[n], kept)
    BY <1>2, <1>5 DEF Leads, Explains
  <2> QED
    BY <1>2, <1>5, <1>7, <2>1 DEF TraversalOK, Traversals, Leads
<1>8. CASE /\ new \notin DOMAIN task.paths
           /\ task' = [task EXCEPT !.rows = rest, !.relations = kept,
                                   !.next = task.next \union {new}, !.paths = paths]
  <2> DEFINE path == task.paths[matched]
             longer == Longer(path, e, new)
  <2>1. path \in Paths /\ Leads(task, matched) /\ matched \in DOMAIN task.paths
    BY <1>2, <1>3 DEF Traversals
  <2>2. /\ longer \in Paths /\ Explains(longer, kept) /\ longer.nodes # <<>>
        /\ Head(longer.nodes) \in task.seeds /\ Last(longer.nodes) = new
        /\ Range(longer.nodes) \subseteq domain
    <3>1. /\ Explains(path, task.relations) /\ path.nodes # <<>>
          /\ Head(path.nodes) \in task.seeds /\ EndsOf(e) = {Last(path.nodes), new}
          /\ Range(path.nodes) \subseteq DOMAIN task.paths
      BY <1>3, <2>1 DEF Leads
    <3>2. new \notin Range(path.nodes)
      BY <1>8, <3>1
    <3> HIDE DEF path
    <3> QED
      BY <1>3, <1>5, <2>1, <3>1, <3>2, LongerExplains
  <2>3. \A n \in DOMAIN task.paths : Explains(task.paths[n], kept) /\ paths[n] = task.paths[n]
    BY <1>2, <1>5, <1>8 DEF Leads, Explains, paths
  <2>4. DOMAIN paths = domain /\ paths[new] = Longer(task.paths[matched], e, new)
    BY DEF paths
  <2>5. paths \in UNION {[D -> Paths] : D \in SUBSET Nodes}
    <3>1. domain \in SUBSET Nodes /\ \A n \in DOMAIN task.paths : task.paths[n] \in Paths
      BY <1>2, <1>3 DEF Traversals
    <3>2. paths \in [domain -> Paths]
      BY <2>2, <3>1 DEF paths
    <3> QED
      BY <3>1, <3>2
  <2>6. /\ task'.paths = paths /\ task'.relations = kept /\ task'.rows = rest
        /\ task'.next = task.next \union {new} /\ task'.frontier = task.frontier
        /\ task'.seeds = task.seeds /\ task'.phase = "follow" /\ task'.kind = "traverse"
    BY <1>2, <1>8 DEF Traversals
  <2>7. task' \in Traversals({task'.chunks}, {task'.results})
    BY <1>2, <1>3, <1>5, <1>8, <2>5 DEF Traversals
  <2>8. \A n \in DOMAIN task.paths : Leads(task', n)
    BY <1>2, <2>3, <2>4, <2>6 DEF Leads
  <2>9. Leads(task', new)
    BY <2>2, <2>4, <2>6 DEF Leads
  <2>10. \A f \in rest : EndsOf(f) \intersect task.frontier # {}
    BY <1>2, <1>5
  <2> QED
    BY <1>2, <2>4, <2>6, <2>7, <2>8, <2>9, <2>10 DEF TraversalOK
<1> QED
  BY <1>4, <1>6, <1>7, <1>8

LEMMA NextDepthKeeps ==
  ASSUME TraversalOK, NextDepth
  PROVE  TraversalOK' /\ task'.kind = "traverse"
<1>1. task' = [task EXCEPT !.phase = "relations", !.frontier = task.next, !.next = {},
                           !.supported = {}, !.depth = task.depth - 1]
  BY DEF NextDepth, TraversalOK, Traversals
<1>2. /\ task \in Traversals({task.chunks}, {task.results})
      /\ task.frontier \union task.next \subseteq DOMAIN task.paths
      /\ \A n \in DOMAIN task.paths : Leads(task, n)
  BY DEF TraversalOK
<1>3. task' \in Traversals({task'.chunks}, {task'.results})
  <2>1. task.depth - 1 \in Int /\ task.next \in SUBSET Nodes /\ {} \in SUBSET Nodes
    BY <1>2 DEF Traversals
  <2>2. task'.chunks = task.chunks /\ task'.results = task.results
    BY <1>1, <1>2 DEF Traversals
  <2>3. task' \in Traversals({task.chunks}, {task.results})
    BY <1>1, <1>2, <2>1 DEF Traversals
  <2> QED
    BY <2>2, <2>3
<1>4. /\ task'.paths = task.paths /\ task'.relations = task.relations
      /\ task'.seeds = task.seeds /\ task'.frontier = task.next /\ task'.next = {}
      /\ task'.phase = "relations" /\ task'.kind = "traverse"
  BY <1>1, <1>2 DEF Traversals
<1> QED
  BY <1>2, <1>3, <1>4 DEF TraversalOK, Leads

(* The answer, or that there is none in time, changes no path.               *)
LEMMA AnswerKeeps ==
  ASSUME TraversalOK, ReadEvidence \/ GiveUpTraversal
  PROVE  TraversalOK' /\ task'.kind = "traverse"
<1>1. \E results : task' = [task EXCEPT !.phase = "done", !.results = results]
  BY DEF ReadEvidence, GiveUpTraversal
<1> QED
  BY <1>1 DEF TraversalOK, Traversals, Leads

-----------------------------------------------------------------------------
(* The bounded walk *)

Rounds == {"relations", "entities", "visit"}

Walks ==
  [kind : {"walk"}, phase : Rounds \union {"path", "done"}, root : Nodes,
   target : Nodes \union {NoNode}, asked : Nat, depth : Nat, nmax : Nat, rmax : Nat,
   entities : SUBSET Nodes, relations : SUBSET Edges,
   parents : UNION {[D -> Nodes \X Edges] : D \in SUBSET Nodes}, frontier : SUBSET Nodes,
   next : SUBSET Nodes, rows : SUBSET Edges, candidates : SUBSET Nodes, path : Paths]

(* What a walk found is a tree around its root; Level is the depth of each   *)
(* node in it.                                                               *)
Tree(w, Level) ==
  /\ w.root \in w.entities /\ DOMAIN w.parents = w.entities \ {w.root}
  /\ Level \in [w.entities -> Nat] /\ Level[w.root] = 0
  /\ \A e \in w.relations : EndsOf(e) \subseteq w.entities
  /\ \A n \in w.entities \ {w.root} :
      /\ w.parents[n][1] \in w.entities /\ w.parents[n][2] \in w.relations
      /\ EndsOf(w.parents[n][2]) = {w.parents[n][1], n}
      /\ Level[n] = Level[w.parents[n][1]] + 1

(* A walk in its rounds has not found its target.                            *)
Underway(w) ==
  w.phase \in Rounds =>
    /\ w.target \notin w.entities /\ w.frontier \union w.next \subseteq w.entities
    /\ w.phase # "relations" =>
        w.depth > 0 /\ \A e \in w.rows : EndsOf(e) \intersect w.frontier # {}

(* The path goes up the tree, one level at each step.                        *)
Climbs(w, Level, path) ==
  /\ Len(path.nodes) = Len(path.relations) + 1 /\ path.nodes[1] = w.target
  /\ \A i \in DOMAIN path.nodes :
      path.nodes[i] \in w.entities /\ Level[path.nodes[i]] + i = Level[w.target] + 1
  /\ \A i \in DOMAIN path.relations :
      /\ path.relations[i] \in w.relations
      /\ EndsOf(path.relations[i]) = {path.nodes[i], path.nodes[i + 1]}

PathOf(w, Level) ==
  /\ w.phase = "path" => w.target \in w.entities /\ Climbs(w, Level, w.path)
  /\ w.phase = "done" =>
      IF w.target \notin w.entities THEN w.path = NoPath
      ELSE /\ Explains(w.path, w.relations)
           /\ Head(w.path.nodes) = w.root /\ Last(w.path.nodes) = w.target
           /\ Len(w.path.relations) = Level[w.target]

(* The graph keeps still, and the limits do not bite.                        *)
Undisturbed(w) == changes = 0 /\ w.rmax >= Cardinality(Edges) /\ w.nmax > Cardinality(Nodes)

(* From the nodes of S of a level below k, a step along a relation leads to  *)
(* a node of S at most one level further.                                    *)
Closed(S, Level, k) ==
  \A x \in S : \A y \in nodes : \A e \in edges :
    Level[x] < k /\ EndsOf(e) = {x, y} => y \in S /\ Level[y] <= Level[x] + 1

(* After k rounds the nodes of the levels up to k are found, the last of     *)
(* them are the frontier, and the relations of those before are all          *)
(* followed; in a round, so are the relations of the frontier that are not   *)
(* among its rows.                                                           *)
Searched(w, Level) ==
  LET k == w.asked - w.depth
  IN  /\ w.depth <= w.asked
      /\ \A n \in w.entities : Level[n] <= k \/ (w.phase = "visit" /\ Level[n] = k + 1)
      /\ \A n \in w.entities : n \in w.frontier <=> Level[n] = k
      /\ w.phase = "visit" => \A n \in w.entities : n \in w.next <=> Level[n] = k + 1
      /\ Closed(w.entities, Level, k)
      /\ w.phase # "relations" =>
          \A x \in w.frontier : \A y \in nodes : \A e \in edges \ w.rows :
            EndsOf(e) = {x, y} => y \in w.entities
      /\ w.phase = "visit" =>
          \A e \in w.rows : EndsOf(e) \intersect nodes \subseteq w.entities \union w.candidates

Complete(w, Level) ==
  Undisturbed(w) =>
    /\ w.phase \in Rounds => Searched(w, Level)
    /\ w.phase \notin Rounds =>
        IF w.target \in w.entities
        THEN \A d \in 0..(Level[w.target] - 1) : w.target \notin Within(w.root, d)
        ELSE Within(w.root, w.asked) \subseteq w.entities

WalkOK ==
  /\ task \in Walks /\ Underway(task)
  /\ \E Level \in [task.entities -> Nat] :
      Tree(task, Level) /\ PathOf(task, Level) /\ Complete(task, Level)

(* A trail of d steps stays inside what is closed for d levels.              *)
LEMMA TrailsStayInside ==
  ASSUME NEW root \in Nodes, NEW d \in Nat, NEW S, NEW Level \in [S -> Nat], NEW k \in Nat,
         root \in S, Level[root] = 0, Closed(S, Level, k), d <= k
  PROVE  Within(root, d) \subseteq S
<1> SUFFICES ASSUME NEW p \in Trails(root, d) PROVE p[d] \in S
  BY DEF Within
<1>1. /\ p \in [0..d -> Nodes] /\ p[0] = root
      /\ \A i \in 1..d : \/ p[i] = p[i - 1]
                         \/ p[i] \in nodes /\ \E e \in edges : EndsOf(e) = {p[i - 1], p[i]}
  BY DEF Trails
<1> DEFINE reached == {i \in Nat : i <= d => p[i] \in S /\ Level[p[i]] <= i}
<1>2. 0 \in reached
  BY <1>1
<1>3. ASSUME NEW i \in reached PROVE i + 1 \in reached
  <2> SUFFICES ASSUME i + 1 <= d PROVE p[i + 1] \in S /\ Level[p[i + 1]] <= i + 1
    OBVIOUS
  <2>1. i \in Nat /\ p[i] \in S /\ Level[p[i]] \in Nat /\ Level[p[i]] <= i
    OBVIOUS
  <2>2. i + 1 \in 1..d /\ (i + 1) - 1 = i
    BY <2>1
  <2>3. CASE p[i + 1] = p[i]
    BY <2>1, <2>3
  <2>4. CASE p[i + 1] \in nodes /\ \E e \in edges : EndsOf(e) = {p[i], p[i + 1]}
    <3>1. Level[p[i]] < k
      BY <2>1
    <3>2. p[i + 1] \in S /\ Level[p[i + 1]] <= Level[p[i]] + 1
      BY <2>1, <2>4, <3>1 DEF Closed
    <3>3. Level[p[i + 1]] \in Nat
      BY <3>2
    <3> QED
      BY <2>1, <3>2, <3>3
  <2>5. \/ p[i + 1] = p[i]
        \/ p[i + 1] \in nodes /\ \E e \in edges : EndsOf(e) = {p[i], p[i + 1]}
    <3>1. ASSUME NEW j \in 1..d, j = i + 1
          PROVE  \/ p[j] = p[i]
                 \/ p[j] \in nodes /\ \E e \in edges : EndsOf(e) = {p[i], p[j]}
      <4>1. j - 1 = i
        BY <2>1, <3>1
      <4> QED
        BY <1>1, <4>1
    <3> QED
      BY <2>2, <3>1
  <2> QED
    BY <2>3, <2>4, <2>5
<1>4. reached = Nat
  <2> HIDE DEF reached
  <2> QED
    BY <1>2, <1>3, Counting DEF reached
<1> QED
  BY <1>4

(* What no relation leaves, no trail leaves.                                 *)
LEMMA TrailsStayClosed ==
  ASSUME NEW root \in Nodes, NEW d \in Nat, NEW S, root \in S,
         \A x \in S : \A y \in nodes : \A e \in edges : EndsOf(e) = {x, y} => y \in S
  PROVE  Within(root, d) \subseteq S
<1> DEFINE Level == [n \in S |-> 0]
<1>1. Level \in [S -> Nat] /\ Level[root] = 0 /\ Closed(S, Level, d + 1)
  BY DEF Closed
<1> HIDE DEF Level
<1> QED
  BY <1>1, TrailsStayInside

LEMMA NoPathIsPath ==
  /\ NoPath \in Paths
  /\ <<>> \in UNION {[D -> Nodes \X Edges] : D \in SUBSET Nodes}
<1>1. <<>> \in [{} -> Nodes \X Edges]
  OBVIOUS
<1>2. {} \in SUBSET Nodes
  OBVIOUS
<1> QED
  BY <1>1, <1>2 DEF NoPath, Paths

LEMMA StartWalkKeeps ==
  ASSUME StartWalk
  PROVE  WalkOK' /\ task'.kind = "walk"
<1>1. PICK root \in Nodes, target \in Nodes \union {NoNode}, depth \in Depths,
           nmax \in NodeLimits, rmax \in EdgeLimits :
        /\ target # root
        /\ task' = [kind |-> "walk", phase |-> "relations", root |-> root, target |-> target,
                    asked |-> depth, depth |-> depth, nmax |-> nmax, rmax |-> rmax,
                    entities |-> {root}, relations |-> {}, parents |-> <<>>,
                    frontier |-> {root}, next |-> {}, rows |-> {}, candidates |-> {},
                    path |-> NoPath]
  BY DEF StartWalk
<1> DEFINE Level == [n \in {root} |-> 0]
<1>2. depth \in Nat /\ nmax \in Nat /\ rmax \in Nat
  BY LimitsAssumption
<1>3. task' \in Walks
  BY <1>1, <1>2, NoPathIsPath DEF Walks, Rounds
<1>4. Underway(task')
  BY <1>1 DEF Underway
<1>5. Level \in [{root} -> Nat] /\ Tree(task', Level)
  BY <1>1 DEF Tree
<1>6. PathOf(task', Level)
  BY <1>1 DEF PathOf
<1>7. Complete(task, Level)'
  BY <1>1, <1>2 DEF Complete, Searched, Closed, Rounds
<1> HIDE DEF Level
<1>8. task'.kind = "walk" /\ task'.entities = {root}
  BY <1>1
<1> QED
  BY <1>3, <1>4, <1>5, <1>6, <1>7, <1>8 DEF WalkOK

(* A walk whose limits do not bite is never full.                            *)
LEMMA NeverFull ==
  ASSUME NEW w \in Walks, w.nmax > Cardinality(Nodes)
  PROVE  ~Full(w)
<1>1. w.entities \in SUBSET Nodes /\ IsFiniteSet(Nodes) /\ w.nmax \in Nat
  BY GraphAssumption DEF Walks
<1>2. /\ Cardinality(w.entities) <= Cardinality(Nodes) /\ Cardinality(Nodes) \in Nat
      /\ Cardinality(w.entities) \in Nat
  BY <1>1, FS_Subset, FS_CardinalityType
<1> QED
  BY <1>1, <1>2 DEF Full

(* It reads all the relations of the frontier that it does not have.         *)
LEMMA ReadsAllRelations ==
  ASSUME NEW kept \in SUBSET Edges, NEW S, S \subseteq Edges \ kept,
         NEW rmax \in Nat, rmax >= Cardinality(Edges)
  PROVE  FirstById(S, rmax - Cardinality(kept)) = S
<1>1. /\ IsFiniteSet(Edges) /\ IsFiniteSet(kept) /\ IsFiniteSet(S)
      /\ S \in SUBSET Nat
  BY GraphAssumption, FS_Subset
<1>2. Cardinality(S \union kept) = Cardinality(S) + Cardinality(kept)
  <2>1. S \intersect kept = {}
    OBVIOUS
  <2>2. Cardinality(S \intersect kept) = 0
    BY <2>1, FS_EmptySet
  <2>3. Cardinality(S) \in Nat /\ Cardinality(kept) \in Nat
    BY <1>1, FS_CardinalityType
  <2>4. Cardinality(S \union kept) =
          Cardinality(S) + Cardinality(kept) - Cardinality(S \intersect kept)
    BY <1>1, FS_Union
  <2> QED
    BY <2>2, <2>3, <2>4
<1>3. S \union kept \in SUBSET Edges
  OBVIOUS
<1>4. /\ Cardinality(S) \in Nat /\ Cardinality(kept) \in Nat /\ Cardinality(Edges) \in Nat
      /\ Cardinality(S \union kept) <= Cardinality(Edges)
  BY <1>1, <1>3, FS_Subset, FS_CardinalityType
<1>5. rmax - Cardinality(kept) \in Int /\ Cardinality(S) <= rmax - Cardinality(kept)
  BY <1>2, <1>4
<1> QED
  BY <1>1, <1>5, LimitNotReached

(* A walk stops after the last round, or when nothing is left to follow, or  *)
(* at a limit.                                                               *)
LEMMA StopIsComplete ==
  ASSUME edges \in SUBSET Edges, task \in Walks, task.phase = "relations",
         NEW Level, Tree(task, Level), Searched(task, Level), Undisturbed(task),
         \/ task.depth = 0 \/ task.frontier = {} \/ Full(task)
         \/ Cardinality(task.relations) >= task.rmax
  PROVE  Within(task.root, task.asked) \subseteq task.entities
<1> DEFINE k == task.asked - task.depth
<1>1. /\ task.root \in Nodes /\ task.asked \in Nat /\ task.depth \in Nat /\ task.rmax \in Nat
      /\ task.root \in task.entities /\ task.relations \in SUBSET Edges
      /\ Level \in [task.entities -> Nat] /\ Level[task.root] = 0
  BY DEF Walks, Tree
<1>2. /\ k \in Nat /\ Closed(task.entities, Level, k)
      /\ \A n \in task.entities : Level[n] <= k /\ (n \in task.frontier <=> Level[n] = k)
  BY <1>1 DEF Searched
<1>3. CASE task.depth = 0
  BY <1>1, <1>2, <1>3, TrailsStayInside
<1>4. CASE task.frontier = {}
  <2>1. \A x \in task.entities : Level[x] < k
    BY <1>1, <1>2, <1>4
  <2>2. \A x \in task.entities : \A y \in nodes : \A e \in edges :
          EndsOf(e) = {x, y} => y \in task.entities
    BY <1>2, <2>1 DEF Closed
  <2> QED
    BY <1>1, <2>2, TrailsStayClosed
<1>5. CASE Full(task)
  BY <1>5, NeverFull DEF Undisturbed
<1>6. CASE Cardinality(task.relations) >= task.rmax
  <2>1. IsFiniteSet(Edges) /\ IsFiniteSet(task.relations)
    BY <1>1, GraphAssumption, FS_Subset
  <2>2. Cardinality(task.relations) <= Cardinality(Edges)
    BY <1>1, <2>1, FS_Subset
  <2>3. Cardinality(task.relations) \in Nat /\ Cardinality(Edges) \in Nat
    BY <2>1, FS_CardinalityType
  <2>4. Cardinality(Edges) = Cardinality(task.relations)
    BY <1>1, <1>6, <2>2, <2>3 DEF Undisturbed
  <2>5. task.relations = Edges
    BY <1>1, <2>1, <2>4, FS_Subset
  <2>6. \A x \in task.entities : \A y \in nodes : \A e \in edges :
          EndsOf(e) = {x, y} => y \in task.entities
    BY <2>5 DEF Tree
  <2> QED
    BY <1>1, <2>6, TrailsStayClosed
<1> QED
  BY <1>3, <1>4, <1>5, <1>6

LEMMA WalkRelationsKeeps ==
  ASSUME edges \in SUBSET Edges, WalkOK, WalkRelations
  PROVE  WalkOK' /\ task'.kind = "walk"
<1>1. /\ task \in Walks /\ task.phase = "relations" /\ task.target \notin task.entities
      /\ task.frontier \union task.next \subseteq task.entities
      /\ UNCHANGED <<nodes, edges, changes>>
  BY DEF WalkOK, WalkRelations, InPhase, Underway, Rounds
<1>2. PICK Level \in [task.entities -> Nat] :
        Tree(task, Level) /\ PathOf(task, Level) /\ Complete(task, Level)
  BY DEF WalkOK
<1> DEFINE stops == \/ task.depth = 0 \/ task.frontier = {} \/ Full(task)
                    \/ Cardinality(task.relations) >= task.rmax
<1>3. CASE stops
  <2>1. task.target \notin DOMAIN task.parents
    BY <1>1, <1>2 DEF Tree
  <2>2. task' = [task EXCEPT !.phase = "done", !.path = NoPath, !.frontier = {}, !.next = {},
                             !.rows = {}, !.candidates = {}]
    BY <1>1, <1>3, <2>1 DEF WalkRelations, Return, Walks
  <2>3. /\ task' \in Walks /\ task'.phase = "done" /\ task'.path = NoPath
        /\ task'.entities = task.entities /\ task'.relations = task.relations
        /\ task'.parents = task.parents /\ task'.root = task.root /\ task'.target = task.target
        /\ task'.asked = task.asked /\ task'.rmax = task.rmax /\ task'.nmax = task.nmax
        /\ task'.kind = "walk"
    BY <1>1, <2>2, NoPathIsPath DEF Walks, Rounds
  <2>4. Undisturbed(task) => Within(task.root, task.asked) \subseteq task.entities
    BY <1>1, <1>2, <1>3, StopIsComplete DEF Complete, Rounds
  <2>5. Within(task.root, task.asked)' = Within(task.root, task.asked)
    BY <1>1, <2>3 DEF Within, Trails
  <2>6. Underway(task)' /\ Tree(task, Level)' /\ PathOf(task, Level)'
    <3>1. Underway(task)'
      BY <2>3 DEF Underway, Rounds
    <3>2. Tree(task, Level)'
      BY <1>2, <2>3 DEF Tree
    <3>3. PathOf(task, Level)'
      BY <1>1, <1>2, <2>3 DEF PathOf, Underway, Rounds
    <3> QED
      BY <3>1, <3>2, <3>3
  <2>7. Complete(task, Level)'
    BY <1>1, <2>3, <2>4, <2>5 DEF Complete, Undisturbed, Rounds
  <2> QED
    BY <1>2, <2>3, <2>6, <2>7 DEF WalkOK
<1>4. CASE ~stops
  <2> DEFINE S == Touching(edges \ task.relations, task.frontier)
             rows == FirstById(S, task.rmax - Cardinality(task.relations))
  <2>1. rows \in SUBSET Edges /\ \A e \in rows : EndsOf(e) \intersect task.frontier # {}
    BY DEF FirstById, FirstRows, Touching
  <2>2. task' = [task EXCEPT !.phase = "entities", !.rows = rows]
    BY <1>4 DEF WalkRelations, FirstById
  <2>3. task.rmax >= Cardinality(Edges) => rows = S
    BY <1>1, ReadsAllRelations DEF Walks, Touching
  <2>4. task.depth > 0
    BY <1>1, <1>4 DEF Walks
  <2> HIDE DEF rows
  <2>5. /\ task' \in Walks /\ task'.phase = "entities" /\ task'.rows = rows
        /\ task'.entities = task.entities /\ task'.relations = task.relations
        /\ task'.parents = task.parents /\ task'.root = task.root /\ task'.target = task.target
        /\ task'.asked = task.asked /\ task'.rmax = task.rmax /\ task'.nmax = task.nmax
        /\ task'.depth = task.depth /\ task'.frontier = task.frontier /\ task'.next = task.next
        /\ task'.kind = "walk"
    BY <1>1, <2>1, <2>2 DEF Walks, Rounds
  <2>6. Underway(task)' /\ Tree(task, Level)' /\ PathOf(task, Level)'
    BY <1>1, <1>2, <2>1, <2>4, <2>5 DEF Underway, Tree, PathOf, Rounds
  <2>7. ASSUME Undisturbed(task) PROVE Searched(task, Level)'
    <3>1. Searched(task, Level)
      BY <1>1, <1>2, <2>7 DEF Complete, Rounds
    <3>2. \A x \in task.frontier : \A y \in nodes : \A e \in edges \ rows :
            EndsOf(e) = {x, y} => y \in task.entities
      BY <1>1, <1>2, <2>3, <2>7 DEF Undisturbed, Touching, Tree
    <3> QED
      BY <1>1, <2>5, <3>1, <3>2 DEF Searched, Closed
  <2>8. Complete(task, Level)'
    BY <1>1, <2>5, <2>7 DEF Complete, Undisturbed, Rounds
  <2> QED
    BY <1>2, <2>5, <2>6, <2>8 DEF WalkOK
<1> QED
  BY <1>3, <1>4

LEMMA WalkEntitiesKeeps ==
  ASSUME nodes \in SUBSET Nodes, WalkOK, WalkEntities
  PROVE  WalkOK' /\ task'.kind = "walk"
<1>1. /\ task \in Walks /\ task.phase = "entities" /\ Underway(task)
      /\ UNCHANGED <<nodes, edges, changes>>
  BY DEF WalkOK, WalkEntities, InPhase
<1>2. PICK Level \in [task.entities -> Nat] :
        Tree(task, Level) /\ PathOf(task, Level) /\ Complete(task, Level)
  BY DEF WalkOK
<1> DEFINE candidates == nodes \intersect (EndsIn(task.rows) \ task.entities)
<1>3. task' = [task EXCEPT !.phase = "visit", !.next = {}, !.candidates = candidates]
  BY DEF WalkEntities
<1>4. candidates \in SUBSET Nodes
  OBVIOUS
<1>5. \A e \in task.rows : EndsOf(e) \intersect nodes \subseteq task.entities \union candidates
  BY DEF EndsIn
<1> HIDE DEF candidates
<1>6. /\ task' \in Walks /\ task'.phase = "visit" /\ task'.rows = task.rows
      /\ task'.entities = task.entities /\ task'.relations = task.relations
      /\ task'.parents = task.parents /\ task'.root = task.root /\ task'.target = task.target
      /\ task'.asked = task.asked /\ task'.rmax = task.rmax /\ task'.nmax = task.nmax
      /\ task'.depth = task.depth /\ task'.frontier = task.frontier /\ task'.next = {}
      /\ task'.candidates = candidates /\ task'.kind = "walk"
  BY <1>1, <1>3, <1>4 DEF Walks, Rounds
<1>7. Underway(task)' /\ Tree(task, Level)' /\ PathOf(task, Level)'
  <2>1. Underway(task)'
    BY <1>1, <1>6 DEF Underway, Rounds
  <2>2. Tree(task, Level)'
    BY <1>2, <1>6 DEF Tree
  <2>3. PathOf(task, Level)'
    BY <1>6 DEF PathOf
  <2> QED
    BY <2>1, <2>2, <2>3
<1>8. ASSUME Undisturbed(task) PROVE Searched(task, Level)'
  <2>1. Searched(task, Level) /\ task.asked \in Nat /\ task.depth \in Nat
    BY <1>1, <1>2, <1>8 DEF Complete, Rounds, Walks
  <2>2. \A n \in task.entities : Level[n] <= task.asked - task.depth
    BY <1>1, <2>1 DEF Searched
  <2>3. \A n \in task.entities : Level[n] # (task.asked - task.depth) + 1
    BY <1>2, <2>1, <2>2
  <2> QED
    BY <1>1, <1>5, <1>6, <2>1, <2>2, <2>3 DEF Searched, Closed
<1>9. Complete(task, Level)'
  BY <1>1, <1>6, <1>8 DEF Complete, Undisturbed, Rounds
<1> QED
  BY <1>2, <1>6, <1>7, <1>9 DEF WalkOK

LEMMA NextRoundKeeps ==
  ASSUME WalkOK, NextRound
  PROVE  WalkOK' /\ task'.kind = "walk"
<1>1. /\ task \in Walks /\ task.phase = "visit" /\ Underway(task) /\ task.rows = {}
      /\ UNCHANGED <<nodes, edges, changes>>
  BY DEF WalkOK, NextRound, InPhase
<1>2. PICK Level \in [task.entities -> Nat] :
        Tree(task, Level) /\ PathOf(task, Level) /\ Complete(task, Level)
  BY DEF WalkOK
<1>3. task.depth \in Nat /\ task.depth > 0 /\ task.asked \in Nat
  BY <1>1 DEF Underway, Walks, Rounds
<1>4. task' = [task EXCEPT !.phase = "relations", !.frontier = task.next, !.next = {},
                           !.candidates = {}, !.depth = task.depth - 1]
  BY <1>1 DEF NextRound, Walks
<1>5. /\ task' \in Walks /\ task'.phase = "relations" /\ task'.rows = task.rows
      /\ task'.entities = task.entities /\ task'.relations = task.relations
      /\ task'.parents = task.parents /\ task'.root = task.root /\ task'.target = task.target
      /\ task'.asked = task.asked /\ task'.rmax = task.rmax /\ task'.nmax = task.nmax
      /\ task'.depth = task.depth - 1 /\ task'.frontier = task.next /\ task'.next = {}
      /\ task'.kind = "walk"
  <2>1. task.depth - 1 \in Nat /\ task.next \in SUBSET Nodes /\ {} \in SUBSET Nodes
    BY <1>1, <1>3 DEF Walks
  <2>2. "relations" \in Rounds \union {"path", "done"}
    BY DEF Rounds
  <2>3. task' \in Walks
    BY <1>1, <1>4, <2>1, <2>2 DEF Walks
  <2>4. /\ task'.phase = "relations" /\ task'.frontier = task.next /\ task'.next = {}
        /\ task'.depth = task.depth - 1
    BY <1>1, <1>4 DEF Walks
  <2>5. /\ task'.rows = task.rows
        /\ task'.entities = task.entities /\ task'.relations = task.relations
        /\ task'.parents = task.parents /\ task'.root = task.root /\ task'.target = task.target
        /\ task'.asked = task.asked /\ task'.rmax = task.rmax /\ task'.nmax = task.nmax
    BY <1>4
  <2> QED
    BY <2>3, <2>4, <2>5 DEF Walks
<1>6. Underway(task)' /\ Tree(task, Level)' /\ PathOf(task, Level)'
  <2>1. Underway(task)'
    BY <1>1, <1>5 DEF Underway, Rounds
  <2>2. Tree(task, Level)'
    BY <1>2, <1>5 DEF Tree
  <2>3. PathOf(task, Level)'
    BY <1>5 DEF PathOf
  <2> QED
    BY <2>1, <2>2, <2>3
<1>7. ASSUME Undisturbed(task) PROVE Searched(task, Level)'
  <2> DEFINE k == task.asked - task.depth
  <2>1. Searched(task, Level) /\ k \in Nat /\ task.asked - (task.depth - 1) = k + 1
    BY <1>1, <1>2, <1>3, <1>7 DEF Complete, Rounds, Searched
  <2>2. /\ task.depth - 1 <= task.asked
        /\ \A n \in task.entities : Level[n] <= k + 1 /\ (n \in task.next <=> Level[n] = k + 1)
    BY <1>1, <1>2, <1>3, <2>1 DEF Searched
  <2>3. Closed(task.entities, Level, k + 1)
    <3> SUFFICES ASSUME NEW x \in task.entities, NEW y \in nodes, NEW e \in edges,
                        Level[x] < k + 1, EndsOf(e) = {x, y}
                 PROVE  y \in task.entities /\ Level[y] <= Level[x] + 1
      BY DEF Closed
    <3>1. CASE Level[x] < k
      BY <2>1, <3>1 DEF Searched, Closed
    <3>2. CASE Level[x] = k
      <4>1. x \in task.frontier
        BY <2>1, <3>2 DEF Searched
      <4>2. y \in task.entities
        BY <1>1, <2>1, <4>1 DEF Searched
      <4> QED
        BY <2>2, <3>2, <4>2
    <3>3. Level[x] \in Nat
      BY <1>2
    <3> QED
      BY <2>1, <3>1, <3>2, <3>3
  <2> HIDE DEF k
  <2> QED
    BY <1>1, <1>5, <2>1, <2>2, <2>3 DEF Searched, Closed
<1>8. Complete(task, Level)'
  BY <1>1, <1>5, <1>7 DEF Complete, Undisturbed, Rounds
<1> QED
  BY <1>2, <1>5, <1>6, <1>8 DEF WalkOK

(* One turn of the loop of path_ids: to the parent, one level up.            *)
LEMMA ClimbsOn ==
  ASSUME NEW w \in Walks, NEW Level, Tree(w, Level), w.target \in w.entities,
         NEW path \in Paths, Climbs(w, Level, path), Last(path.nodes) # w.root
  PROVE  LET current == Last(path.nodes)
             longer == Longer(path, w.parents[current][2], w.parents[current][1])
         IN  longer \in Paths /\ Climbs(w, Level, longer)
<1> DEFINE k == Len(path.relations)
           current == Last(path.nodes)
           n == w.parents[current][1]
           e == w.parents[current][2]
           ns == Append(path.nodes, n)
           es == Append(path.relations, e)
<1>1. /\ path.nodes \in Seq(Nodes) /\ path.relations \in Seq(Edges)
      /\ k \in Nat /\ Len(path.nodes) = k + 1
  BY DEF Paths, Climbs
<1>2. current = path.nodes[k + 1] /\ k + 1 \in DOMAIN path.nodes
  BY <1>1 DEF Last
<1>3. current \in w.entities \ {w.root} /\ Level[current] + (k + 1) = Level[w.target] + 1
  BY <1>2 DEF Climbs
<1>4. /\ n \in w.entities /\ e \in w.relations /\ EndsOf(e) = {n, current}
      /\ Level[current] = Level[n] + 1 /\ Level[n] \in Nat /\ Level[w.target] \in Nat
  BY <1>3 DEF Tree
<1>5. n \in Nodes /\ e \in Edges
  BY <1>4 DEF Walks
<1> HIDE DEF current, n, e
<1>6. /\ ns \in Seq(Nodes) /\ es \in Seq(Edges) /\ Len(ns) = k + 2 /\ Len(es) = k + 1
      /\ \A i \in 1..(k + 1) : ns[i] = path.nodes[i]
      /\ ns[k + 2] = n
      /\ \A i \in 1..k : es[i] = path.relations[i]
      /\ es[k + 1] = e
  BY <1>1, <1>5
<1>7. Longer(path, e, n) = [nodes |-> ns, relations |-> es]
  BY DEF Longer
<1> HIDE DEF ns, es, k
<1>8. /\ DOMAIN ns = 1..(k + 2) /\ DOMAIN es = 1..(k + 1)
      /\ DOMAIN path.nodes = 1..(k + 1) /\ DOMAIN path.relations = 1..k
  BY <1>1, <1>6 DEF k
<1>9. \A i \in DOMAIN ns : ns[i] \in w.entities /\ Level[ns[i]] + i = Level[w.target] + 1
  <2>1. \A i \in 1..(k + 1) :
          ns[i] \in w.entities /\ Level[ns[i]] + i = Level[w.target] + 1
    BY <1>6, <1>8 DEF Climbs
  <2>2. ns[k + 2] \in w.entities /\ Level[ns[k + 2]] + (k + 2) = Level[w.target] + 1
    <3>1. Level[n] + (k + 2) = Level[w.target] + 1
      <4>1. k \in Nat /\ Level[n] \in Nat /\ Level[w.target] \in Nat
        BY <1>1, <1>4
      <4>2. (Level[n] + 1) + (k + 1) = Level[w.target] + 1
        BY <1>3, <1>4
      <4> QED
        BY <4>1, <4>2
    <3> QED
      BY <1>4, <1>6, <3>1
  <2>3. \A i \in DOMAIN ns : i = k + 2 \/ i \in 1..(k + 1)
    BY <1>1, <1>8
  <2> QED
    BY <2>1, <2>2, <2>3
<1>10. \A i \in DOMAIN es : es[i] \in w.relations /\ EndsOf(es[i]) = {ns[i], ns[i + 1]}
  <2>1. ASSUME NEW i \in 1..k
        PROVE  es[i] \in w.relations /\ EndsOf(es[i]) = {ns[i], ns[i + 1]}
    <3>1. i \in 1..(k + 1) /\ i + 1 \in 1..(k + 1) /\ i \in DOMAIN path.relations
      BY <1>1, <1>8
    <3> QED
      BY <1>6, <3>1 DEF Climbs
  <2>2. es[k + 1] \in w.relations /\ EndsOf(es[k + 1]) = {ns[k + 1], ns[k + 1 + 1]}
    <3>1. k + 1 \in 1..(k + 1) /\ k + 1 + 1 = k + 2
      BY <1>1
    <3> QED
      BY <1>2, <1>4, <1>6, <3>1
  <2>3. \A i \in DOMAIN es : i = k + 1 \/ i \in 1..k
    BY <1>1, <1>8
  <2> QED
    BY <2>1, <2>2, <2>3
<1>11. Len(ns) = Len(es) + 1 /\ ns[1] = w.target
  <2>1. 1 \in 1..(k + 1)
    BY <1>1
  <2> QED
    BY <1>1, <1>6, <2>1 DEF Climbs
<1>12. Climbs(w, Level, Longer(path, e, n)) /\ Longer(path, e, n) \in Paths
  BY <1>6, <1>7, <1>9, <1>10, <1>11 DEF Climbs, Paths
<1> QED
  BY <1>12 DEF current, n, e

(* A climb that reached the root explains the target, turned round.          *)
LEMMA ClimbTurnedRound ==
  ASSUME NEW w \in Walks, NEW Level, Tree(w, Level), w.target \in w.entities,
         NEW path \in Paths, Climbs(w, Level, path), Last(path.nodes) = w.root
  PROVE  LET turned == [nodes |-> Reverse(path.nodes), relations |-> Reverse(path.relations)]
         IN  /\ turned \in Paths /\ Explains(turned, w.relations)
             /\ Head(turned.nodes) = w.root /\ Last(turned.nodes) = w.target
             /\ Len(turned.relations) = Level[w.target]
<1> DEFINE k == Len(path.relations)
           ns == Reverse(path.nodes)
           es == Reverse(path.relations)
<1>1. /\ path.nodes \in Seq(Nodes) /\ path.relations \in Seq(Edges)
      /\ k \in Nat /\ Len(path.nodes) = k + 1
      /\ DOMAIN path.nodes = 1..(k + 1) /\ DOMAIN path.relations = 1..k
  BY DEF Paths, Climbs
<1>2. /\ ns = [i \in 1..(k + 1) |-> path.nodes[(k + 1) - i + 1]]
      /\ es = [i \in 1..k |-> path.relations[k - i + 1]]
  BY <1>1 DEF Reverse
<1>3. /\ \A i \in 1..(k + 1) : (k + 1) - i + 1 \in 1..(k + 1)
      /\ \A i \in 1..k : k - i + 1 \in 1..k
  BY <1>1
<1>4. ns \in [1..(k + 1) -> Nodes] /\ es \in [1..k -> Edges]
  <2>1. \A i \in 1..(k + 1) : path.nodes[(k + 1) - i + 1] \in Nodes
    BY <1>1, <1>3
  <2>2. \A i \in 1..k : path.relations[k - i + 1] \in Edges
    BY <1>1, <1>3
  <2> QED
    BY <1>2, <2>1, <2>2
<1> HIDE DEF ns, es, k
<1>5. /\ ns \in Seq(Nodes) /\ es \in Seq(Edges) /\ Len(ns) = k + 1 /\ Len(es) = k
      /\ DOMAIN ns = 1..(k + 1) /\ DOMAIN es = 1..k
  BY <1>1, <1>4
<1>6. Level[w.root] = 0 /\ Level[w.target] \in Nat /\ \A n \in w.entities : Level[n] \in Nat
  BY DEF Tree
<1>7. Last(path.nodes) = path.nodes[k + 1] /\ k + 1 \in DOMAIN path.nodes
  BY <1>1 DEF Last
<1>8. k = Level[w.target]
  BY <1>1, <1>6, <1>7 DEF Climbs
<1>9. IsInjective(ns)
  <2> SUFFICES ASSUME NEW i \in 1..(k + 1), NEW j \in 1..(k + 1), ns[i] = ns[j]
               PROVE  i = j
    BY <1>5 DEF IsInjective
  <2> DEFINE fi == (k + 1) - i + 1
             fj == (k + 1) - j + 1
  <2>1. fi \in 1..(k + 1) /\ fj \in 1..(k + 1) /\ path.nodes[fi] = path.nodes[fj]
    BY <1>2, <1>3
  <2>2. /\ path.nodes[fi] \in w.entities /\ Level[path.nodes[fi]] + fi = Level[w.target] + 1
        /\ Level[path.nodes[fj]] + fj = Level[w.target] + 1
    <3> HIDE DEF fi, fj
    <3> QED
      BY <1>1, <2>1 DEF Climbs
  <2>3. fi = fj
    <3> HIDE DEF fi, fj
    <3> QED
      BY <1>6, <2>1, <2>2
  <2> QED
    BY <1>1, <2>3
<1>10. ASSUME NEW i \in 1..k
       PROVE  es[i] \in w.relations /\ EndsOf(es[i]) = {ns[i], ns[i + 1]}
  <2> DEFINE f == k - i + 1
  <2>1. /\ f \in 1..k /\ es[i] = path.relations[f] /\ ns[i] = path.nodes[f + 1]
        /\ ns[i + 1] = path.nodes[f]
    <3>1. i \in 1..(k + 1) /\ i + 1 \in 1..(k + 1) /\ f \in 1..k
      BY <1>1
    <3>2. (k + 1) - i + 1 = f + 1 /\ (k + 1) - (i + 1) + 1 = f
      BY <1>1
    <3>3. ns[i] = path.nodes[(k + 1) - i + 1] /\ ns[i + 1] = path.nodes[(k + 1) - (i + 1) + 1]
      BY <1>2, <3>1
    <3>4. es[i] = path.relations[f]
      BY <1>2
    <3> HIDE DEF f
    <3> QED
      BY <3>1, <3>2, <3>3, <3>4
  <2> HIDE DEF f
  <2> QED
    BY <1>1, <2>1 DEF Climbs
<1>11. ns[1] = w.root /\ ns[k + 1] = w.target
  <2>1. 1 \in 1..(k + 1) /\ k + 1 \in 1..(k + 1) /\ (k + 1) - 1 + 1 = k + 1
        /\ (k + 1) - (k + 1) + 1 = 1
    BY <1>1
  <2>2. ns[1] = path.nodes[(k + 1) - 1 + 1] /\ ns[k + 1] = path.nodes[(k + 1) - (k + 1) + 1]
    BY <1>2, <2>1
  <2> QED
    BY <1>7, <2>1, <2>2 DEF Climbs
<1>12. Head(ns) = ns[1] /\ Last(ns) = ns[k + 1]
  BY <1>1, <1>5 DEF Last
<1> QED
  BY <1>1, <1>5, <1>8, <1>9, <1>10, <1>11, <1>12 DEF Explains, Paths, ns, es

LEMMA TraceBackKeeps ==
  ASSUME WalkOK, TraceBack
  PROVE  WalkOK' /\ task'.kind = "walk"
<1>1. task \in Walks /\ task.phase = "path" /\ UNCHANGED <<nodes, edges, changes>>
  BY DEF WalkOK, TraceBack, InPhase
<1>2. PICK Level \in [task.entities -> Nat] :
        Tree(task, Level) /\ PathOf(task, Level) /\ Complete(task, Level)
  BY DEF WalkOK
<1>3. task.target \in task.entities /\ Climbs(task, Level, task.path) /\ task.path \in Paths
  BY <1>1, <1>2 DEF PathOf, Walks
<1> DEFINE current == Last(task.path.nodes)
           turned == [nodes |-> Reverse(task.path.nodes),
                      relations |-> Reverse(task.path.relations)]
           longer == Longer(task.path, task.parents[current][2], task.parents[current][1])
<1>4. /\ current = task.root => task' = [task EXCEPT !.phase = "done", !.path = turned]
      /\ current # task.root => task' = [task EXCEPT !.path = longer]
  BY <1>1 DEF TraceBack, Walks
<1>5. /\ current = task.root =>
          /\ turned \in Paths /\ Explains(turned, task.relations)
          /\ Head(turned.nodes) = task.root /\ Last(turned.nodes) = task.target
          /\ Len(turned.relations) = Level[task.target]
      /\ current # task.root => longer \in Paths /\ Climbs(task, Level, longer)
  BY <1>1, <1>2, <1>3, ClimbsOn, ClimbTurnedRound
<1> HIDE DEF turned, longer, current
<1>6. /\ task' \in Walks /\ task'.kind = "walk" /\ task'.phase \in {"path", "done"}
      /\ task'.entities = task.entities /\ task'.relations = task.relations
      /\ task'.parents = task.parents /\ task'.root = task.root /\ task'.target = task.target
      /\ task'.asked = task.asked /\ task'.rmax = task.rmax /\ task'.nmax = task.nmax
  <2>1. CASE current = task.root
    <3>1. task' = [task EXCEPT !.phase = "done", !.path = turned] /\ turned \in Paths
      BY <1>4, <1>5, <2>1
    <3> QED
      BY <1>1, <3>1 DEF Walks
  <2>2. CASE current # task.root
    <3>1. task' = [task EXCEPT !.path = longer] /\ longer \in Paths
      BY <1>4, <1>5, <2>2
    <3> QED
      BY <1>1, <3>1 DEF Walks
  <2> QED
    BY <2>1, <2>2
<1>7. Underway(task)' /\ Tree(task, Level)'
  <2>1. Underway(task)'
    BY <1>6 DEF Underway, Rounds
  <2>2. Tree(task, Level)'
    BY <1>2, <1>6 DEF Tree
  <2> QED
    BY <2>1, <2>2
<1>8. PathOf(task, Level)'
  <2>1. CASE current = task.root
    <3>1. task'.phase = "done" /\ task'.path = turned
      BY <1>1, <1>4, <2>1 DEF Walks
    <3> QED
      BY <1>3, <1>5, <1>6, <2>1, <3>1 DEF PathOf
  <2>2. CASE current # task.root
    <3>1. task'.phase = "path" /\ task'.path = longer
      BY <1>1, <1>4, <2>2 DEF Walks
    <3> QED
      BY <1>3, <1>5, <1>6, <2>2, <3>1 DEF PathOf, Climbs
  <2> QED
    BY <2>1, <2>2
<1>9. Within(task.root, task.asked)' = Within(task.root, task.asked)
  BY <1>1, <1>6 DEF Within, Trails
<1>10. ASSUME NEW d PROVE Within(task.root, d)' = Within(task.root, d)
  BY <1>1, <1>6 DEF Within, Trails
<1>11. Complete(task, Level)'
  BY <1>1, <1>2, <1>6, <1>9, <1>10 DEF Complete, Undisturbed, Rounds
<1> QED
  BY <1>2, <1>6, <1>7, <1>8, <1>11 DEF WalkOK

(* One turn of the loop of bounded_walk: a relation is passed over, or kept  *)
(* between two nodes of the tree, or leads to a new leaf one level further.  *)
LEMMA VisitRelationKeeps ==
  ASSUME edges \in SUBSET Edges, WalkOK, VisitRelation
  PROVE  WalkOK' /\ task'.kind = "walk"
<1>1. /\ task \in Walks /\ task.phase = "visit" /\ Underway(task)
      /\ UNCHANGED <<nodes, edges, changes>>
  BY DEF WalkOK, VisitRelation, InPhase
<1>2. PICK Level \in [task.entities -> Nat] :
        Tree(task, Level) /\ PathOf(task, Level) /\ Complete(task, Level)
  BY DEF WalkOK
<1>3. PICK e \in task.rows :
        LET after == Visited(task, e)
            reached == e \in after.relations /\ Other(task.frontier, e) = task.target
        IN  task' = IF reached THEN Return(after) ELSE after
  BY DEF VisitRelation
<1> DEFINE prev == Parent(task.frontier, e)
           new == Other(task.frontier, e)
           k == task.asked - task.depth
<1>4. /\ e \in Edges /\ prev \in task.frontier /\ prev \in task.entities
      /\ EndsOf(e) = {prev, new} /\ new \in Nodes
      /\ task.target \notin task.entities
  BY <1>1, MatchedEnd DEF Walks, Underway, Rounds
<1> DEFINE rest == task.rows \ {e}
           kept == task.relations \union {e}
           entities == task.entities \union {new}
           next == task.next \union {new}
           parents == [n \in DOMAIN task.parents \union {new} |->
                         IF n = new THEN <<prev, e>> ELSE task.parents[n]]
           passedOver == \/ ~(EndsOf(e) \subseteq task.entities \union task.candidates)
                         \/ new \notin task.entities /\ Full(task)
<1>5. /\ rest \in SUBSET Edges /\ rest \subseteq task.rows /\ kept \in SUBSET Edges
      /\ entities \in SUBSET Nodes /\ next \in SUBSET Nodes
  BY <1>1, <1>4 DEF Walks
<1>6. /\ passedOver => Visited(task, e) = [task EXCEPT !.rows = rest]
      /\ ~passedOver /\ new \in task.entities =>
           Visited(task, e) = [task EXCEPT !.rows = rest, !.relations = kept]
      /\ ~passedOver /\ new \notin task.entities =>
           Visited(task, e) = [task EXCEPT !.rows = rest, !.relations = kept,
                                          !.entities = entities, !.next = next,
                                          !.parents = parents]
  BY <1>1 DEF Visited, Walks
<1>7. e \in task.relations => new \in task.entities
  BY <1>2, <1>4 DEF Tree
<1> HIDE DEF prev, new, rest, kept, entities, next, parents
(* What is searched once the row e is done, but for a new leaf.              *)
<1>8. ASSUME Undisturbed(task)
      PROVE  /\ Searched(task, Level) /\ k \in Nat /\ ~Full(task)
             /\ passedOver => new \notin nodes \/ new \in task.entities
  <2>1. Searched(task, Level)
    BY <1>1, <1>2, <1>8 DEF Complete, Rounds
  <2>2. k \in Nat
    BY <1>1, <2>1 DEF Searched, Walks
  <2>3. ~Full(task)
    BY <1>1, <1>8, NeverFull DEF Undisturbed
  <2>4. EndsOf(e) \intersect nodes \subseteq task.entities \union task.candidates
    BY <1>1, <2>1 DEF Searched
  <2> QED
    BY <1>4, <2>1, <2>2, <2>3, <2>4
<1>9. ASSUME NEW x \in task.frontier, NEW y, EndsOf(e) = {x, y}
      PROVE  y = new \/ y \in task.entities
  BY <1>1, <1>4, <1>9 DEF Underway, Rounds
<1>10. CASE passedOver \/ new \in task.entities
  <2>1. \/ task' = [task EXCEPT !.rows = rest]
        \/ new \in task.entities /\ task' = [task EXCEPT !.rows = rest, !.relations = kept]
    <3>1. CASE passedOver
      <4>1. /\ Visited(task, e).relations = task.relations
            /\ Visited(task, e) = [task EXCEPT !.rows = rest]
        BY <1>1, <1>6, <3>1 DEF Walks
      <4>2. ~(e \in Visited(task, e).relations /\ new = task.target)
        BY <1>4, <1>7, <4>1
      <4> QED
        BY <1>3, <4>1, <4>2 DEF new
    <3>2. CASE ~passedOver /\ new \in task.entities
      <4>1. new # task.target
        BY <1>4, <3>2
      <4> QED
        BY <1>3, <1>6, <3>2, <4>1 DEF new
    <3> QED
      BY <1>10, <3>1, <3>2
  <2>2. /\ task' \in Walks /\ task'.phase = "visit" /\ task'.rows = rest
        /\ task'.entities = task.entities
        /\ task'.parents = task.parents /\ task'.root = task.root /\ task'.target = task.target
        /\ task'.asked = task.asked /\ task'.rmax = task.rmax /\ task'.nmax = task.nmax
        /\ task'.depth = task.depth /\ task'.frontier = task.frontier /\ task'.next = task.next
        /\ task'.candidates = task.candidates /\ task'.kind = "walk"
    <3>1. CASE task' = [task EXCEPT !.rows = rest]
      BY <1>1, <1>5, <3>1 DEF Walks
    <3>2. CASE task' = [task EXCEPT !.rows = rest, !.relations = kept]
      BY <1>1, <1>5, <3>2 DEF Walks
    <3> QED
      BY <2>1, <3>1, <3>2
  <2>3. /\ task.relations \subseteq task'.relations
        /\ \A f \in task'.relations : EndsOf(f) \subseteq task.entities
    <3>1. \/ task'.relations = task.relations
          \/ new \in task.entities /\ task'.relations = kept
      BY <1>1, <2>1 DEF Walks
    <3>2. \A f \in task.relations : EndsOf(f) \subseteq task.entities
      BY <1>2 DEF Tree
    <3>3. new \in task.entities => EndsOf(e) \subseteq task.entities
      BY <1>4
    <3> QED
      BY <3>1, <3>2, <3>3 DEF kept
  <2>4. Underway(task)' /\ Tree(task, Level)' /\ PathOf(task, Level)'
    BY <1>1, <1>2, <1>5, <2>2, <2>3 DEF Underway, Tree, PathOf, Rounds
  <2>5. ASSUME Undisturbed(task) PROVE Searched(task, Level)'
    <3>1. Searched(task, Level) /\ (passedOver => new \notin nodes \/ new \in task.entities)
      BY <1>8, <2>5
    <3>2. \A x \in task.frontier : \A y \in nodes : \A f \in edges \ rest :
            EndsOf(f) = {x, y} => y \in task.entities
      <4> SUFFICES ASSUME NEW x \in task.frontier, NEW y \in nodes, NEW f \in edges \ rest,
                          EndsOf(f) = {x, y}
                   PROVE  y \in task.entities
        OBVIOUS
      <4>1. CASE f = e
        BY <1>9, <1>10, <3>1, <4>1
      <4>2. CASE f # e
        BY <1>1, <3>1, <4>2 DEF Searched, rest
      <4> QED
        BY <4>1, <4>2
    <3> QED
      BY <1>1, <1>5, <2>2, <3>1, <3>2 DEF Searched, Closed
  <2>6. Complete(task, Level)'
    BY <1>1, <2>2, <2>5 DEF Complete, Undisturbed, Rounds
  <2> QED
    BY <1>2, <2>2, <2>4, <2>6 DEF WalkOK
<1>11. CASE ~passedOver /\ new \notin task.entities
  <2> DEFINE grown == [task EXCEPT !.rows = rest, !.relations = kept, !.entities = entities,
                                   !.next = next, !.parents = parents]
             deeper == [n \in entities |-> IF n = new THEN Level[prev] + 1 ELSE Level[n]]
  <2>1. Visited(task, e) = grown
    BY <1>6, <1>11
  <2>2. task.root \in task.entities /\ DOMAIN task.parents = task.entities \ {task.root}
    BY <1>2 DEF Tree
  <2>3. /\ DOMAIN parents = entities \ {task.root} /\ new # task.root
        /\ parents[new] = <<prev, e>>
        /\ \A n \in task.entities \ {task.root} : parents[n] = task.parents[n]
    BY <1>11, <2>2 DEF parents, entities
  <2>4. parents \in UNION {[D -> Nodes \X Edges] : D \in SUBSET Nodes}
    <3>1. \A n \in DOMAIN task.parents : task.parents[n] \in Nodes \X Edges
      BY <1>1 DEF Walks
    <3>2. <<prev, e>> \in Nodes \X Edges
      BY <1>1, <1>4 DEF Walks
    <3>3. parents \in [DOMAIN task.parents \union {new} -> Nodes \X Edges]
      BY <3>1, <3>2 DEF parents
    <3>4. DOMAIN task.parents \union {new} \in SUBSET Nodes
      BY <1>1, <1>4, <2>2 DEF Walks
    <3> QED
      BY <3>3, <3>4
  <2>5. /\ grown \in Walks /\ grown.phase = "visit" /\ grown.rows = rest
        /\ grown.entities = entities /\ grown.relations = kept /\ grown.next = next
        /\ grown.parents = parents /\ grown.root = task.root /\ grown.target = task.target
        /\ grown.asked = task.asked /\ grown.rmax = task.rmax /\ grown.nmax = task.nmax
        /\ grown.depth = task.depth /\ grown.frontier = task.frontier
        /\ grown.candidates = task.candidates /\ grown.kind = "walk"
    BY <1>1, <1>5, <2>4 DEF Walks
  <2> HIDE DEF grown
  <2>6. PICK Deeper :
          /\ Level[prev] \in Nat /\ Deeper \in [entities -> Nat]
          /\ Deeper[new] = Level[prev] + 1
          /\ \A n \in task.entities : n \in entities /\ Deeper[n] = Level[n]
    <3>1. /\ Level[prev] \in Nat /\ deeper \in [entities -> Nat]
          /\ deeper[new] = Level[prev] + 1
          /\ \A n \in task.entities : n \in entities /\ deeper[n] = Level[n]
      BY <1>2, <1>4, <1>11 DEF entities
    <3> QED
      BY <3>1
  <2>7. Tree(grown, Deeper)
    <3>1. task.root \in entities /\ Deeper[task.root] = 0
      BY <1>2, <2>2, <2>6 DEF Tree
    <3>2. \A f \in kept : EndsOf(f) \subseteq entities
      BY <1>2, <1>4 DEF Tree, kept, entities
    <3>3. ASSUME NEW n \in entities \ {task.root}
          PROVE  /\ parents[n][1] \in entities /\ parents[n][2] \in kept
                 /\ EndsOf(parents[n][2]) = {parents[n][1], n}
                 /\ Deeper[n] = Deeper[parents[n][1]] + 1
      <4>1. CASE n = new
        BY <1>4, <2>3, <2>6, <4>1 DEF kept
      <4>2. CASE n \in task.entities
        <5>1. /\ task.parents[n][1] \in task.entities /\ task.parents[n][2] \in task.relations
              /\ EndsOf(task.parents[n][2]) = {task.parents[n][1], n}
              /\ Level[n] = Level[task.parents[n][1]] + 1
          BY <1>2, <4>2 DEF Tree
        <5>2. parents[n] = task.parents[n]
          BY <2>3, <4>2
        <5> QED
          BY <2>6, <4>2, <5>1, <5>2 DEF kept
      <4> QED
        BY <4>1, <4>2 DEF entities
    <3> QED
      BY <2>3, <2>5, <2>6, <3>1, <3>2, <3>3 DEF Tree
  <2>8. CASE new = task.target
    <3> DEFINE returned == [grown EXCEPT !.phase = "path", !.path = PathTo(task.target),
                                         !.frontier = {}, !.next = {}, !.rows = {},
                                         !.candidates = {}]
    <3>1. grown.target \in DOMAIN grown.parents
      BY <2>3, <2>5, <2>8 DEF entities
    <3>2. task' = returned
      <4>1. task' = Return(grown)
        BY <1>3, <2>1, <2>5, <2>8 DEF kept, new
      <4> QED
        BY <2>5, <3>1, <4>1 DEF Return, Walks
    <3>3. PathTo(task.target) \in Paths
      BY <1>4, <2>8 DEF PathTo, Paths
    <3>4. /\ task' \in Walks /\ task'.phase = "path" /\ task'.path = PathTo(task.target)
          /\ task'.entities = entities /\ task'.relations = kept
          /\ task'.parents = parents /\ task'.root = task.root /\ task'.target = task.target
          /\ task'.asked = task.asked /\ task'.rmax = task.rmax /\ task'.nmax = task.nmax
          /\ task'.kind = "walk"
      <4>1. {} \in SUBSET Nodes /\ {} \in SUBSET Edges
        OBVIOUS
      <4>2. DOMAIN grown = {"kind", "phase", "root", "target", "asked", "depth", "nmax", "rmax",
                            "entities", "relations", "parents", "frontier", "next", "rows",
                            "candidates", "path"}
        BY <2>5 DEF Walks
      <4>3. returned \in Walks
        BY <2>5, <3>3, <4>1 DEF Walks
      <4>4. /\ returned.phase = "path" /\ returned.path = PathTo(task.target)
            /\ returned.entities = grown.entities /\ returned.relations = grown.relations
            /\ returned.parents = grown.parents /\ returned.root = grown.root
            /\ returned.target = grown.target /\ returned.asked = grown.asked
            /\ returned.rmax = grown.rmax /\ returned.nmax = grown.nmax
            /\ returned.kind = grown.kind
        BY <4>2
      <4> HIDE DEF returned
      <4>5. /\ grown.entities = entities /\ grown.relations = kept /\ grown.parents = parents
            /\ grown.root = task.root /\ grown.target = task.target /\ grown.asked = task.asked
            /\ grown.rmax = task.rmax /\ grown.nmax = task.nmax /\ grown.kind = "walk"
        BY <2>5
      <4> HIDE DEF entities, kept, parents
      <4> QED
        BY ONLY <3>2, <4>3, <4>4, <4>5
    <3>5. Underway(task)' /\ Tree(task, Deeper)'
      <4>1. Underway(task)'
        BY <3>4 DEF Underway, Rounds
      <4>2. /\ task'.entities = grown.entities /\ task'.relations = grown.relations
            /\ task'.parents = grown.parents /\ task'.root = grown.root
        BY <2>5, <3>4
      <4> HIDE DEF returned, entities, kept, parents
      <4>3. Tree(task, Deeper)'
        <5>1. \A f : EndsOf(f)' = EndsOf(f)
          BY DEF EndsOf
        <5> QED
          BY <2>7, <4>2, <5>1 DEF Tree
      <4> QED
        BY <4>1, <4>3
    <3>6. task.target \in entities /\ Deeper[task.target] \in Nat
      BY <2>6, <2>8 DEF entities
    <3>7. PathOf(task, Deeper)'
      <4>1. Climbs(task, Deeper, PathTo(task.target))'
        BY <3>4, <3>6 DEF Climbs, PathTo
      <4> QED
        BY <3>4, <3>6, <4>1 DEF PathOf
    <3>8. ASSUME Undisturbed(task), NEW d \in 0..(Deeper[task.target] - 1)
          PROVE  task.target \notin Within(task.root, d)
      <4>1. /\ Searched(task, Level) /\ k \in Nat
        BY <1>8, <3>8
      <4>2. Deeper[task.target] = k + 1
        BY <1>4, <2>6, <2>8, <4>1 DEF Searched
      <4>3. d \in Nat /\ d <= k
        BY <3>8, <4>1, <4>2
      <4>4. /\ task.root \in Nodes /\ task.root \in task.entities /\ Level[task.root] = 0
            /\ Closed(task.entities, Level, k)
        BY <1>1, <1>2, <4>1 DEF Walks, Tree, Searched
      <4>5. Within(task.root, d) \subseteq task.entities
        BY <1>2, <4>1, <4>3, <4>4, TrailsStayInside
      <4> QED
        BY <1>4, <4>5
    <3>9. ASSUME NEW d PROVE Within(task.root, d)' = Within(task.root, d)
      BY <1>1, <3>4 DEF Within, Trails
    <3>10. Complete(task, Deeper)'
      BY <1>1, <3>4, <3>6, <3>8, <3>9 DEF Complete, Undisturbed, Rounds
    <3> QED
      BY <2>6, <3>4, <3>5, <3>7, <3>10 DEF WalkOK
  <2>9. CASE new # task.target
    <3>1. task' = grown
      BY <1>3, <2>1, <2>9 DEF new
    <3>2. task.target \notin entities
      BY <1>4, <2>9 DEF entities
    <3>3. Underway(task)'
      BY <1>1, <1>5, <2>5, <3>1, <3>2 DEF Underway, Rounds, entities, next
    <3>4. Tree(task, Deeper)' /\ PathOf(task, Deeper)'
      BY <2>5, <2>7, <3>1 DEF Tree, PathOf
    <3>5. ASSUME Undisturbed(task) PROVE Searched(task, Deeper)'
      <4>1. /\ Searched(task, Level) /\ k \in Nat
        BY <1>8, <3>5
      <4>2. Level[prev] = k /\ Deeper[new] = k + 1
        BY <1>4, <2>6, <4>1 DEF Searched
      <4>3. \A n \in entities : Deeper[n] <= k \/ Deeper[n] = k + 1
        BY <1>1, <2>6, <4>1, <4>2 DEF Searched, entities
      <4>4. /\ \A n \in entities : n \in task.frontier <=> Deeper[n] = k
            /\ \A n \in entities : n \in next <=> Deeper[n] = k + 1
        <5>1. new \notin task.frontier
          BY <1>1, <1>11 DEF Underway, Rounds
        <5>2. k # k + 1
          BY <4>1
        <5> QED
          BY <1>1, <2>6, <4>1, <4>2, <5>1, <5>2 DEF Searched, entities, next
      <4>5. Closed(entities, Deeper, k)
        <5> SUFFICES ASSUME NEW x \in entities, NEW y \in nodes, NEW f \in edges,
                            Deeper[x] < k, EndsOf(f) = {x, y}
                     PROVE  y \in entities /\ Deeper[y] <= Deeper[x] + 1
          BY DEF Closed
        <5>1. x \in task.entities /\ Level[x] < k
          BY <2>6, <4>1, <4>2 DEF entities
        <5>2. y \in task.entities /\ Level[y] <= Level[x] + 1
          BY <4>1, <5>1 DEF Searched, Closed
        <5> QED
          BY <2>6, <5>1, <5>2
      <4>6. \A x \in task.frontier : \A y \in nodes : \A f \in edges \ rest :
              EndsOf(f) = {x, y} => y \in entities
        <5> SUFFICES ASSUME NEW x \in task.frontier, NEW y \in nodes, NEW f \in edges \ rest,
                            EndsOf(f) = {x, y}
                     PROVE  y \in entities
          OBVIOUS
        <5>1. CASE f = e
          BY <1>9, <5>1 DEF entities
        <5>2. CASE f # e
          BY <1>1, <4>1, <5>2 DEF Searched, rest, entities
        <5> QED
          BY <5>1, <5>2
      <4>7. \A f \in rest : EndsOf(f) \intersect nodes \subseteq entities \union task.candidates
        BY <1>1, <1>5, <4>1 DEF Searched, entities
      <4>8. task.depth <= task.asked
        BY <4>1 DEF Searched
      <4> HIDE DEF k
      <4>9. /\ task'.asked - task'.depth = k /\ task'.depth <= task'.asked
            /\ task'.entities = entities /\ task'.frontier = task.frontier /\ task'.next = next
            /\ task'.rows = rest /\ task'.candidates = task.candidates /\ task'.phase = "visit"
        BY <2>5, <3>1, <4>8 DEF k
      <4> QED
        BY <1>1, <4>3, <4>4, <4>5, <4>6, <4>7, <4>9 DEF Searched, Closed
    <3>6. Complete(task, Deeper)'
      BY <1>1, <2>5, <3>1, <3>5 DEF Complete, Undisturbed, Rounds
    <3> QED
      BY <2>5, <2>6, <3>1, <3>3, <3>4, <3>6 DEF WalkOK
  <2> QED
    BY <2>8, <2>9
<1> QED
  BY <1>10, <1>11

-----------------------------------------------------------------------------
(* The inductive invariant.                                                  *)

LEMMA StartPagingKeeps ==
  ASSUME nodes \in SUBSET Nodes, StartPaging
  PROVE  PagingOK' /\ task'.kind = "page"
<1>1. PICK limit \in PageLimits :
        task' = [kind |-> "page", phase |-> "page", cursor |-> 0, limit |-> limit,
                 pages |-> <<>>, always |-> nodes]
  BY DEF StartPaging
<1>2. \A n \in nodes : ~(n <= 0)
  BY GraphAssumption DEF NoNode
<1>3. task' \in Pagings /\ task'.pages = <<>> /\ task'.always = nodes /\ task'.phase = "page"
      /\ task'.cursor = 0
  BY <1>1 DEF Pagings
<1> QED
  BY <1>1, <1>2, <1>3 DEF PagingOK, StartPaging

(* The graph is known at every step; each read keeps what makes its answer   *)
(* right, and an answered request leaves nothing behind.                     *)
GraphOK == nodes \in SUBSET Nodes /\ edges \in SUBSET Edges /\ changes \in Nat

FusionOK == task.kind = "fuse" => task.phase = "done" /\ FusionRespectsRanks

Inv ==
  /\ GraphOK
  /\ IsWalk => WalkOK
  /\ IsTraversal => TraversalOK
  /\ IsPaging => PagingOK
  /\ FusionOK

LEMMA InitInv == RetInit => Inv
BY DEF RetInit, Inv, GraphOK, FusionOK, IsWalk, IsTraversal, IsPaging, Idle0

(* A change by others takes nothing from a path, and from a paging client    *)
(* only what is not there all the time; a walk that sees one promises no     *)
(* completeness any more.                                                    *)
LEMMA ChangeKeeps ==
  ASSUME Inv, Change
  PROVE  Inv'
<1>1. GraphOK' /\ changes' # 0 /\ task.phase # "done"
  <2>1. changes' = changes + 1 /\ changes \in Nat /\ task.phase # "done"
    BY DEF Change, Inv, GraphOK
  <2>2. nodes' \in SUBSET Nodes /\ edges' \in SUBSET Edges
    BY DEF Change, Inv, GraphOK
  <2> QED
    BY <2>1, <2>2 DEF GraphOK
<1>2. \/ task' = task
      \/ IsPaging /\ \E n \in Nodes : task' = [task EXCEPT !.always = @ \ {n}]
  BY DEF Change
<1>3. ASSUME IsWalk PROVE WalkOK' /\ IsWalk'
  <2>1. task' = task
    BY <1>2, <1>3 DEF IsWalk, IsPaging
  <2>2. PICK Level \in [task.entities -> Nat] :
          Tree(task, Level) /\ PathOf(task, Level)
    BY <1>3 DEF Inv, WalkOK
  <2>3. Tree(task, Level)' /\ PathOf(task, Level)' /\ Complete(task, Level)'
    <3>1. Tree(task, Level)' /\ PathOf(task, Level)'
      BY <2>1, <2>2 DEF Tree, PathOf, Climbs
    <3>2. Complete(task, Level)'
      BY <1>1 DEF Complete, Undisturbed
    <3> QED
      BY <3>1, <3>2
  <2>4. (task \in Walks /\ Underway(task))'
    BY <1>3, <2>1 DEF Inv, WalkOK, Underway
  <2>5. Level \in [task'.entities -> Nat]
    BY <2>1, <2>2
  <2> QED
    BY <1>3, <2>1, <2>3, <2>4, <2>5 DEF WalkOK, IsWalk
<1>4. ASSUME IsTraversal PROVE TraversalOK' /\ IsTraversal'
  <2>1. task' = task
    BY <1>2, <1>4 DEF IsTraversal, IsPaging
  <2>2. TraversalOK
    BY <1>4 DEF Inv
  <2>3. TraversalOK'
    BY <2>1, <2>2 DEF TraversalOK, Leads
  <2> QED
    BY <1>4, <2>1, <2>3 DEF IsTraversal
<1>5. ASSUME IsPaging PROVE PagingOK' /\ IsPaging'
  <2>1. PagingOK
    BY <1>5 DEF Inv
  <2>2. task'.always \subseteq nodes'
    BY <1>5, <2>1 DEF Change, PagingOK, Pagings
  <2>3. task \in Pagings
    BY <2>1 DEF PagingOK
  <2>4. /\ task' \in Pagings /\ task'.always \subseteq task.always /\ task'.kind = "page"
        /\ task'.pages = task.pages /\ task'.cursor = task.cursor /\ task'.phase = task.phase
    BY <1>2, <1>5, <2>3 DEF Pagings, IsPaging
  <2> QED
    BY <2>1, <2>2, <2>4 DEF PagingOK, IsPaging
<1>6. ASSUME task.kind = "fuse" PROVE FALSE
  BY <1>1, <1>6 DEF Inv, FusionOK
<1>7. task.kind # "none" /\ task'.kind = task.kind
  <2>1. task.kind # "none"
    BY DEF Change
  <2>2. CASE IsPaging
    BY <1>5, <2>2 DEF IsPaging
  <2>3. CASE ~IsPaging
    BY <1>2, <2>1, <2>3
  <2> QED
    BY <2>1, <2>2, <2>3
<1>8. FusionOK'
  BY <1>6, <1>7 DEF FusionOK
<1>9. (IsWalk' => WalkOK') /\ (IsTraversal' => TraversalOK') /\ (IsPaging' => PagingOK')
  BY <1>3, <1>4, <1>5, <1>7 DEF IsWalk, IsTraversal, IsPaging
<1> QED
  BY <1>1, <1>8, <1>9 DEF Inv

(* A task of one kind says nothing of the other kinds.                       *)
LEMMA OneKind ==
  ASSUME GraphOK',
         \/ IsWalk' /\ WalkOK'
         \/ IsTraversal' /\ TraversalOK'
         \/ IsPaging' /\ PagingOK'
         \/ task'.kind = "fuse" /\ FusionOK'
         \/ task'.kind = "none"
  PROVE  Inv'
BY DEF Inv, IsWalk, IsTraversal, IsPaging, FusionOK

LEMMA StepKeeps == Inv /\ [RetNext]_retVars => Inv'
<1> SUFFICES ASSUME Inv, [RetNext]_retVars
             PROVE  Inv'
  OBVIOUS
<1>1. nodes \in SUBSET Nodes /\ edges \in SUBSET Edges /\ changes \in Nat
  BY DEF Inv, GraphOK
<1>2. ASSUME UNCHANGED <<nodes, edges, changes>> PROVE GraphOK'
  BY <1>1, <1>2 DEF GraphOK
<1>3. CASE Change
  BY <1>3, ChangeKeeps
<1>4. CASE Answered
  <2>1. task'.kind = "none" /\ GraphOK'
    BY <1>1, <1>4 DEF Answered, Idle0, GraphOK
  <2> QED
    BY <2>1, OneKind
<1>5. CASE StartWalk
  <2>1. UNCHANGED <<nodes, edges, changes>>
    BY <1>5 DEF StartWalk
  <2> QED
    BY <1>2, <1>5, <2>1, StartWalkKeeps, OneKind DEF IsWalk
<1>6. CASE WalkRelations \/ WalkEntities \/ VisitRelation \/ NextRound \/ TraceBack
  <2>1. UNCHANGED <<nodes, edges, changes>> /\ IsWalk
    BY <1>6 DEF WalkRelations, WalkEntities, VisitRelation, NextRound, TraceBack
  <2>2. WalkOK
    BY <2>1 DEF Inv
  <2>3. WalkOK' /\ task'.kind = "walk"
    BY <1>1, <1>6, <2>2, WalkRelationsKeeps, WalkEntitiesKeeps, VisitRelationKeeps,
       NextRoundKeeps, TraceBackKeeps
  <2> QED
    BY <1>2, <2>1, <2>3, OneKind DEF IsWalk
<1>7. CASE StartTraversal
  <2>1. UNCHANGED <<nodes, edges, changes>>
    BY <1>7 DEF StartTraversal
  <2> QED
    BY <1>1, <1>2, <1>7, <2>1, StartTraversalKeeps, OneKind DEF IsTraversal
<1>8. CASE \/ TraverseRelations \/ TraverseEntities \/ FollowRelation \/ NextDepth
           \/ ReadEvidence \/ GiveUpTraversal
  <2>1. UNCHANGED <<nodes, edges, changes>> /\ IsTraversal
    BY <1>8 DEF TraverseRelations, TraverseEntities, FollowRelation, NextDepth, ReadEvidence,
                GiveUpTraversal
  <2>2. TraversalOK
    BY <2>1 DEF Inv
  <2>3. TraversalOK' /\ task'.kind = "traverse"
    BY <1>1, <1>8, <2>2, TraverseRelationsKeeps, TraverseEntitiesKeeps, FollowRelationKeeps,
       NextDepthKeeps, AnswerKeeps
  <2> QED
    BY <1>2, <2>1, <2>3, OneKind DEF IsTraversal
<1>9. CASE StartPaging
  <2>1. UNCHANGED <<nodes, edges, changes>>
    BY <1>9 DEF StartPaging
  <2> QED
    BY <1>1, <1>2, <1>9, <2>1, StartPagingKeeps, OneKind DEF IsPaging
<1>10. CASE ReadPage
  <2>1. UNCHANGED <<nodes, edges, changes>> /\ IsPaging
    BY <1>10 DEF ReadPage
  <2>2. PagingOK
    BY <2>1 DEF Inv
  <2> QED
    BY <1>1, <1>2, <1>10, <2>1, <2>2, ReadPageKeeps, OneKind DEF IsPaging
<1>11. CASE Fuse
  <2>1. UNCHANGED <<nodes, edges, changes>>
    BY <1>11 DEF Fuse
  <2>2. task'.kind = "fuse" /\ FusionOK'
    BY <1>11, FuseKeeps DEF FusionOK
  <2> QED
    BY <1>2, <2>1, <2>2, OneKind
<1>12. CASE UNCHANGED retVars
  <2>1. UNCHANGED <<nodes, edges, changes, task>>
    BY <1>12 DEF retVars
  <2>2. IsWalk => WalkOK'
    <3> SUFFICES ASSUME IsWalk PROVE WalkOK'
      OBVIOUS
    <3>1. PICK Level \in [task.entities -> Nat] :
            Tree(task, Level) /\ PathOf(task, Level) /\ Complete(task, Level)
      BY DEF Inv, WalkOK
    <3>2. Tree(task, Level)' /\ PathOf(task, Level)'
      BY <2>1, <3>1 DEF Tree, PathOf, Climbs
    <3>3. ASSUME NEW root, NEW d PROVE Within(root, d)' = Within(root, d)
      BY <2>1 DEF Within, Trails
    <3>4. Complete(task, Level)'
      BY <2>1, <3>1, <3>3 DEF Complete, Undisturbed, Searched, Closed
    <3>5. (task \in Walks /\ Underway(task))'
      BY <2>1 DEF Inv, WalkOK, Underway
    <3>6. Level \in [task'.entities -> Nat]
      BY <2>1, <3>1
    <3> QED
      BY <3>2, <3>4, <3>5, <3>6 DEF WalkOK
  <2>3. IsTraversal => TraversalOK'
    BY <2>1 DEF Inv, TraversalOK, Leads
  <2>4. IsPaging => PagingOK'
    BY <2>1 DEF Inv, PagingOK
  <2>5. FusionOK' /\ GraphOK'
    BY <2>1 DEF Inv, GraphOK, FusionOK, FusionRespectsRanks
  <2> QED
    BY <2>1, <2>2, <2>3, <2>4, <2>5 DEF Inv, IsWalk, IsTraversal, IsPaging
<1> QED
  BY <1>3, <1>4, <1>5, <1>6, <1>7, <1>8, <1>9, <1>10, <1>11, <1>12 DEF RetNext

THEOREM Invariance == RetSpec => []Inv
BY InitInv, StepKeeps, PTL DEF RetSpec

-----------------------------------------------------------------------------
(* What the answers promise.                                                 *)

(* The explorer's cursor is the last row of the page it returns, and one row *)
(* more than the limit decides whether there is one (the node page and the   *)
(* relation page of the service): a node that is there from the first page   *)
(* to the last is on exactly one of them, for every graph, limit and number  *)
(* of changes.                                                               *)
THEOREM PagesMissNothing == RetSpec => []PagesAreWhole
<1>1. Inv => PagesAreWhole
  <2> SUFFICES ASSUME PagingOK, task.kind = "page" PROVE PagesAreWhole
    BY DEF Inv, PagesAreWhole, IsPaging
  <2>1. \A i, j \in DOMAIN task.pages : i # j => task.pages[i] \intersect task.pages[j] = {}
    BY DEF PagingOK
  <2>2. task.phase = "done" => task.always \subseteq UNION Range(task.pages)
    BY DEF PagingOK, Range
  <2> QED
    BY <2>1, <2>2 DEF PagesAreWhole, InPhase
<1> QED
  BY <1>1, Invariance, PTL

(* A path that a walk (path_ids) or the traversal of the store returns leads *)
(* from its start to its target along returned relations and never twice     *)
(* through a node, whatever others change while it is searched.              *)
THEOREM PathsLead == RetSpec => []PathsExplain
<1>1. ASSUME Inv, IsWalk, InPhase("done")
      PROVE  IF task.target \notin task.entities THEN task.path = NoPath
             ELSE /\ Explains(task.path, task.relations)
                  /\ Head(task.path.nodes) = task.root /\ Last(task.path.nodes) = task.target
  <2>1. PICK Level \in [task.entities -> Nat] : PathOf(task, Level)
    BY <1>1 DEF Inv, WalkOK
  <2> QED
    BY <1>1, <2>1 DEF PathOf, InPhase
<1>2. ASSUME Inv, IsTraversal, NEW n \in DOMAIN task.paths
      PROVE  /\ Explains(task.paths[n], task.relations)
             /\ Head(task.paths[n].nodes) \in task.seeds /\ Last(task.paths[n].nodes) = n
  BY <1>2 DEF Inv, TraversalOK, Leads
<1>3. Inv => PathsExplain
  BY <1>1, <1>2 DEF PathsExplain
<1> QED
  BY <1>3, Invariance, PTL

(* bounded_walk goes through the graph in rounds, so that with limits that   *)
(* do not bite and no change while it runs it finds every node within its    *)
(* depth, or a shortest path to its target.                                  *)
THEOREM WalksAreComplete == RetSpec => []WalkIsComplete
<1>1. ASSUME Inv, IsWalk, InPhase("done"), changes = 0,
             task.rmax >= Cardinality(Edges), task.nmax > Cardinality(Nodes)
      PROVE  IF task.target \in task.entities
             THEN \A d \in 0..(Len(task.path.relations) - 1) :
                    task.target \notin Within(task.root, d)
             ELSE Within(task.root, task.asked) \subseteq task.entities
  <2>1. PICK Level \in [task.entities -> Nat] : PathOf(task, Level) /\ Complete(task, Level)
    BY <1>1 DEF Inv, WalkOK
  <2>2. IF task.target \in task.entities
        THEN \A d \in 0..(Level[task.target] - 1) : task.target \notin Within(task.root, d)
        ELSE Within(task.root, task.asked) \subseteq task.entities
    BY <1>1, <2>1 DEF Complete, Undisturbed, InPhase, Rounds
  <2>3. task.target \in task.entities => Len(task.path.relations) = Level[task.target]
    BY <1>1, <2>1 DEF PathOf, InPhase
  <2> QED
    BY <2>2, <2>3
<1>2. Inv => WalkIsComplete
  BY <1>1 DEF WalkIsComplete
<1> QED
  BY <1>2, Invariance, PTL

(* reciprocal_rank_fusion sums 1/(K + rank) over the rankings: for all       *)
(* weights and rankings, a chunk that no ranking puts below another, and one *)
(* puts above it, is above it in the answer.                                 *)
THEOREM FusionKeepsOrder == RetSpec => []FusionRespectsRanks
<1>1. Inv => FusionRespectsRanks
  BY DEF Inv, FusionOK, FusionRespectsRanks
<1> QED
  BY <1>1, Invariance, PTL
=============================================================================

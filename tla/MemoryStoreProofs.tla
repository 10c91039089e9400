-------------------------- MODULE MemoryStoreProofs --------------------------
(***************************************************************************)
(* What holds of MemoryStore for every set of episodes, patterns, keys and *)
(* requests, and every deployment.                                         *)
(*                                                                         *)
(* The argument: a lock is held by one request (LocksAreExclusive), so     *)
(* what a request has read of a row it holds is still there when it        *)
(* commits (Knows), whatever the others do meanwhile (Spared).  What a     *)
(* request reads without a lock, the holds, it may not know of any more,   *)
(* but only of those placed late.                                          *)
(***************************************************************************)
EXTENDS MemoryStore, FiniteSetTheorems, TLAPS

Locks == ({"episode"} \X Episodes) \cup ({"pattern", "key"} \X Patterns)

Weights == [count : Int, total : Int, gained : Int]

PatternRows ==
  [here : BOOLEAN, w : Weights, promoted : BOOLEAN, by : Patterns \cup {NoPattern}]

TokenRows ==
  [operation : {"none", "episode.create", "memory.forget"}, item : SUBSET Episodes]

\* What a request has read and is about to do, for each place it may be at.
Shape(q) ==
  /\ q.pc \in {"idle", "key", "pattern", "outcome", "judge", "replacement", "replace",
               "sequence", "attempt", "create", "check", "delete", "forget", "holds",
               "items", "retain"}
  /\ q.pc \in {"key", "pattern"} =>
       q \in [pc : {"key", "pattern"}, item : Episodes, key : Patterns,
              quality : Qualities, halves : 0..2]
  /\ q.pc = "outcome" =>
       q \in [pc : {"outcome"}, item : Episodes, key : Patterns, new : BOOLEAN,
              quality : Qualities, halves : 0..2, read : Weights]
  /\ q.pc = "judge" =>
       q \in [pc : {"judge"}, key : Patterns, score : Scores, read : Weights]
  /\ q.pc = "replacement" =>
       q \in [pc : {"replacement"}, key : Patterns, by : Patterns,
              superseded : Patterns \cup {NoPattern}]
  /\ q.pc = "replace" => q \in [pc : {"replace"}, key : Patterns, by : Patterns]
  /\ q.pc = "sequence" =>
       q \in [pc : {"sequence"}, item : Episodes, status : {"active", "degraded"}]
  /\ q.pc = "attempt" =>
       q \in [pc : {"attempt"}, item : Episodes, status : {"active", "degraded"},
              number : 1..MaxAttempts]
  /\ q.pc = "create" => q \in [pc : {"create"}, token : Tokens \cup {NoToken}]
  /\ q.pc \in {"check", "delete"} =>
       q \in [pc : {"check", "delete"}, item : Episodes, token : Tokens \cup {NoToken}]
  /\ q.pc = "forget" =>
       q \in [pc : {"forget"}, item : Episodes, token : Tokens \cup {NoToken},
              from : EpisodeStatuses, to : {"archived", "rejected"}]
  /\ q.pc = "holds" => q \in [pc : {"holds"}, action : {"archive", "delete"}]
  /\ q.pc = "items" =>
       q \in [pc : {"items"}, action : {"archive", "delete"}, held : SUBSET Episodes]
  /\ q.pc = "retain" =>
       q \in [pc : {"retain"}, action : {"archive", "delete"}, items : SUBSET Episodes]

RowsOK ==
  /\ status \in [Episodes -> EpisodeStatuses \cup {"absent", "deleted"}]
  /\ attempts \in [Episodes -> SUBSET Nat]
  /\ outcome \in [Episodes -> Patterns \cup {NoPattern}]
  /\ pattern \in [Patterns -> PatternRows]
  /\ tokens \in [Tokens -> TokenRows]
  /\ holds \subseteq HoldKinds

RequestsOK ==
  /\ req = [r \in Requests |-> req[r]]
  /\ \A r \in Requests : Shape(req[r])
  /\ locks \in [Requests -> SUBSET Locks]
  /\ late \in [Requests -> SUBSET HoldKinds]

HistoryOK ==
  /\ judged \in [Patterns -> Nat]
  /\ tally \in [Patterns -> Weights]
  /\ made \in [Tokens -> SUBSET Episodes]

TypeOK == RowsOK /\ RequestsOK /\ HistoryOK

-----------------------------------------------------------------------------
\* No lock has two holders.
LocksAreExclusive ==
  \A r, q \in Requests : r # q => locks[r] \cap locks[q] = {}

\* What a request at work on an episode holds and has read of it.
KnowsEpisode(r) ==
  LET q == req[r] IN
  /\ q.pc \in {"key", "pattern", "outcome", "sequence", "attempt"} =>
       Exists(q.item) /\ EpisodeRow(q.item) \in locks[r]
  /\ q.pc \in {"key", "pattern", "outcome"} => outcome[q.item] = NoPattern
  /\ q.pc = "attempt" => attempts[q.item] = 1..(q.number - 1)

\* What it holds and has read of patterns.
KnowsPattern(r) ==
  LET q == req[r] IN
  /\ q.pc \in {"pattern", "outcome"} => Advisory(q.key) \in locks[r]
  /\ q.pc = "outcome" =>
       /\ q.read = pattern[q.key].w
       /\ q.new <=> ~pattern[q.key].here
       /\ ~q.new => PatternRow(q.key) \in locks[r]
  /\ q.pc \in {"judge", "replacement", "replace"} =>
       pattern[q.key].here /\ PatternRow(q.key) \in locks[r]
  /\ q.pc = "judge" => q.read = pattern[q.key].w
  /\ q.pc = "replacement" => q.key # q.by /\ q.superseded = pattern[q.key].by
  /\ q.pc = "replace" =>
       /\ q.key # q.by
       /\ PatternRow(q.by) \in locks[r]
       /\ pattern[q.key].by = NoPattern /\ pattern[q.by].by = NoPattern

\* What it has read of the holds: all but those placed late.
KnowsHolds(r) ==
  LET q == req[r] IN
  /\ q.pc \in {"holds", "items"} /\ ProjectHold \in holds => ProjectHold \in late[r]
  /\ q.pc = "items" => \A h \in holds : h \in late[r] \/ h[2] \in q.held
  /\ q.pc = "retain" => \A e \in q.items : HoldsOn(e) \subseteq late[r]
  /\ q.pc = "delete" => HoldsOn(q.item) \subseteq late[r]

Knows(r) == KnowsEpisode(r) /\ KnowsPattern(r) /\ KnowsHolds(r)

\* The attempts of an episode are numbered from 1 without a gap.
AttemptsAreNumbered == \A e \in Episodes : \E n \in 0..MaxAttempts : attempts[e] = 1..n

\* A key that made an episode is stored, and it made no other.
KeysAreStored ==
  \A t \in Tokens : made[t] # {} => tokens[t].item # {} /\ \E e \in Episodes : made[t] = {e}

Inv ==
  /\ TypeOK
  /\ LocksAreExclusive
  /\ \A r \in Requests : Knows(r)
  /\ AttemptsAreNumbered
  /\ KeysAreStored
  /\ PatternsCountOutcomes
  /\ NothingCollides

-----------------------------------------------------------------------------
(* What a request knows stays true. *)

\* A step that leaves the rows a request holds as they are, and places no
\* hold without telling it.
Spared(q) ==
  /\ \A e \in Episodes :
       EpisodeRow(e) \in locks[q] /\ Exists(e) =>
         Exists(e)' /\ outcome'[e] = outcome[e] /\ attempts'[e] = attempts[e]
  /\ \A k \in Patterns :
       PatternRow(k) \in locks[q] \/ (Advisory(k) \in locks[q] /\ ~pattern[k].here) =>
         pattern'[k] = pattern[k]
  /\ late[q] \subseteq late'[q]
  /\ req[q].pc \in ReadTheHolds => holds' \subseteq holds \cup late'[q]

LEMMA EpisodeKept ==
  ASSUME TypeOK, NEW q \in Requests, KnowsEpisode(q), Spared(q),
         req'[q] = req[q], locks'[q] = locks[q]
  PROVE  KnowsEpisode(q)'
<1>1. req[q].pc \in {"key", "pattern", "outcome", "sequence", "attempt"} =>
        req[q].item \in Episodes
  BY DEF TypeOK, RequestsOK, Shape
<1> QED
  BY <1>1 DEF KnowsEpisode, Spared, Exists, EpisodeRow

LEMMA PatternKept ==
  ASSUME TypeOK, NEW q \in Requests, KnowsPattern(q), Spared(q),
         req'[q] = req[q], locks'[q] = locks[q]
  PROVE  KnowsPattern(q)'
<1>1. req[q].pc \in {"pattern", "outcome", "judge", "replacement", "replace"} =>
        req[q].key \in Patterns
  BY DEF TypeOK, RequestsOK, Shape
<1>2. req[q].pc = "replace" => req[q].by \in Patterns
  BY DEF TypeOK, RequestsOK, Shape
<1>3. ASSUME req[q].pc = "outcome" PROVE pattern'[req[q].key] = pattern[req[q].key]
  BY <1>1, <1>3 DEF KnowsPattern, Spared
<1>4. ASSUME req[q].pc \in {"judge", "replacement", "replace"}
      PROVE  pattern'[req[q].key] = pattern[req[q].key]
  BY <1>1, <1>4 DEF KnowsPattern, Spared
<1>5. ASSUME req[q].pc = "replace" PROVE pattern'[req[q].by] = pattern[req[q].by]
  BY <1>2, <1>5 DEF KnowsPattern, Spared
<1> QED
  BY <1>1, <1>2, <1>3, <1>4, <1>5 DEF KnowsPattern, PatternRow, Advisory

LEMMA HoldsKept ==
  ASSUME TypeOK, NEW q \in Requests, KnowsHolds(q), Spared(q),
         req'[q] = req[q]
  PROVE  KnowsHolds(q)'
<1>1. ASSUME req[q].pc \in ReadTheHolds, NEW h, h \in holds', h \notin holds
      PROVE  h \in late'[q]
  BY <1>1 DEF Spared
<1>2. late[q] \subseteq late'[q]
  BY DEF Spared
<1>3. ASSUME req[q].pc \in ReadTheHolds, NEW e, HoldsOn(e) \subseteq late[q]
      PROVE  HoldsOn(e)' \subseteq late'[q]
  BY <1>1, <1>2, <1>3 DEF HoldsOn, ProjectHold
<1>4. CASE req[q].pc = "holds"
  BY <1>1, <1>2, <1>4 DEF KnowsHolds, ReadTheHolds, ProjectHold
<1>5. CASE req[q].pc = "items"
  BY <1>1, <1>2, <1>5 DEF KnowsHolds, ReadTheHolds, ProjectHold
<1>6. CASE req[q].pc = "retain"
  <2>1. \A e \in req[q].items : HoldsOn(e)' \subseteq late'[q]
    BY <1>3, <1>6 DEF KnowsHolds, ReadTheHolds
  <2> QED
    BY <1>6, <2>1 DEF KnowsHolds
<1>7. CASE req[q].pc = "delete"
  <2>1. HoldsOn(req[q].item)' \subseteq late'[q]
    BY <1>3, <1>7 DEF KnowsHolds, ReadTheHolds
  <2> QED
    BY <1>7, <2>1 DEF KnowsHolds
<1> QED
  BY <1>4, <1>5, <1>6, <1>7 DEF KnowsHolds

LEMMA KnowsKept ==
  ASSUME TypeOK, NEW q \in Requests, Knows(q), Spared(q),
         req'[q] = req[q], locks'[q] = locks[q]
  PROVE  Knows(q)'
BY EpisodeKept, PatternKept, HoldsKept DEF Knows

\* A statement that reads: only the request and its locks change.
LEMMA GoesStep ==
  ASSUME Inv, NEW r \in Requests, NEW s, NEW taken \in SUBSET Locks,
         Goes(r, s, taken), \A lock \in taken : Grantable(r, lock),
         Shape(s), Knows(r)'
  PROVE  Inv'
<1> USE DEF Inv
<1>1. /\ req' = [q \in Requests |-> IF q = r THEN s ELSE req[q]]
      /\ locks' = [q \in Requests |-> IF q = r THEN locks[r] \cup taken ELSE locks[q]]
      /\ UNCHANGED <<using, memRows, memHistory, late>>
  BY DEF Goes, TypeOK, RequestsOK
<1>2. TypeOK'
  BY <1>1 DEF TypeOK, RowsOK, RequestsOK, HistoryOK, memRows, episodeRows, memHistory
<1>3. LocksAreExclusive'
  BY <1>1 DEF LocksAreExclusive, Grantable
<1>4. ASSUME NEW q \in Requests, q # r PROVE Knows(q)'
  <2>1. Spared(q)
    BY <1>1 DEF Spared, memRows, episodeRows, Exists
  <2> QED
    BY <1>1, <1>4, <2>1, KnowsKept
<1>5. AttemptsAreNumbered' /\ KeysAreStored' /\ PatternsCountOutcomes' /\ NothingCollides'
  BY <1>1 DEF AttemptsAreNumbered, KeysAreStored, PatternsCountOutcomes, NothingCollides,
              memRows, episodeRows, memHistory
<1> QED
  BY <1>2, <1>3, <1>4, <1>5

\* A commit: the request writes rows nobody else holds, and gives up its locks.
LEMMA AnsweredStep ==
  ASSUME Inv, NEW r \in Requests, Answered(r), RowsOK', HistoryOK', UNCHANGED holds,
         \A e \in Episodes : \/ ~Exists(e)
                             \/ Grantable(r, EpisodeRow(e))
                             \/ UNCHANGED <<status[e], outcome[e], attempts[e]>>,
         \A k \in Patterns : \/ UNCHANGED pattern[k]
                             \/ /\ Grantable(r, PatternRow(k))
                                /\ pattern[k].here \/ Advisory(k) \in locks[r],
         AttemptsAreNumbered', KeysAreStored', PatternsCountOutcomes', NothingCollides'
  PROVE  Inv'
<1> USE DEF Inv
<1>1. /\ req' = [q \in Requests |-> IF q = r THEN Idle ELSE req[q]]
      /\ locks' = [q \in Requests |-> IF q = r THEN {} ELSE locks[q]]
      /\ late' = [q \in Requests |-> IF q = r THEN {} ELSE late[q]]
  BY DEF Answered, TypeOK, RequestsOK
<1>2. TypeOK'
  BY <1>1 DEF TypeOK, RequestsOK, Shape, Idle
<1>3. LocksAreExclusive'
  BY <1>1 DEF LocksAreExclusive
<1>4. ASSUME NEW q \in Requests, q # r PROVE Knows(q)'
  <2>1. req'[q] = req[q] /\ locks'[q] = locks[q] /\ late'[q] = late[q]
    BY <1>1, <1>4
  <2>2. ASSUME NEW e \in Episodes, EpisodeRow(e) \in locks[q], Exists(e)
        PROVE  UNCHANGED <<status[e], outcome[e], attempts[e]>>
    BY <1>4, <2>2 DEF Grantable
  <2>3. ASSUME NEW k \in Patterns,
               PatternRow(k) \in locks[q] \/ (Advisory(k) \in locks[q] /\ ~pattern[k].here)
        PROVE  UNCHANGED pattern[k]
    BY <1>4, <2>3 DEF Grantable, LocksAreExclusive
  <2>4. Spared(q)
    BY <2>1, <2>2, <2>3 DEF Spared, Exists
  <2> QED
    BY <2>1, <2>4, KnowsKept
<1>5. Knows(r)'
  BY <1>1 DEF Knows, KnowsEpisode, KnowsPattern, KnowsHolds, Idle
<1> QED
  BY <1>2, <1>3, <1>4, <1>5 DEF TypeOK

\* A request that is refused or goes away writes nothing.
LEMMA QuietStep ==
  ASSUME Inv, NEW r \in Requests, Answered(r),
         UNCHANGED <<using, memRows, judged, tally, made>>, NothingCollides'
  PROVE  Inv'
<1>1. RowsOK' /\ HistoryOK' /\ AttemptsAreNumbered' /\ KeysAreStored' /\ PatternsCountOutcomes'
  BY DEF Inv, TypeOK, RowsOK, HistoryOK, AttemptsAreNumbered, KeysAreStored,
         PatternsCountOutcomes, memRows, episodeRows
<1> QED
  BY <1>1, AnsweredStep DEF memRows, episodeRows

-----------------------------------------------------------------------------
(* Arithmetic of weights. *)

LEMMA MaxOfTwo == ASSUME NEW x \in Int, NEW y \in Int PROVE Max({x, y}) \in Int
<1>1. \E m \in {x, y} : \A z \in {x, y} : m >= z
  OBVIOUS
<1> QED
  BY <1>1 DEF Max

LEMMA MaxOfNumbers ==
  ASSUME NEW n \in Nat PROVE Max((1..n) \cup {0}) = n
<1>1. n \in (1..n) \cup {0} /\ \A z \in (1..n) \cup {0} : n >= z
  OBVIOUS
<1>2. \A m \in (1..n) \cup {0} : (\A z \in (1..n) \cup {0} : m >= z) => m = n
  BY <1>1
<1> QED
  BY <1>1, <1>2 DEF Max

LEMMA CountedType ==
  ASSUME NEW w \in Weights, NEW quality \in Qualities, NEW halves \in 0..2
  PROVE  Counted(w, quality, halves) \in Weights
<1>1. quality \in {0, 2, 6, 10} /\ halves \in {0, 1, 2}
  BY MemoryAssumption
<1>2. (quality * halves) \div 2 \in Int
  BY <1>1
<1> QED
  BY <1>1, <1>2 DEF Counted, Weights

LEMMA JudgedType ==
  ASSUME NEW w \in Weights, NEW score \in Scores PROVE Judged(w, score) \in Weights
<1>1. score \in Int
  BY MemoryAssumption
<1>2. Max({0, w.gained + score}) \in Int
  BY <1>1, MaxOfTwo DEF Weights
<1> QED
  BY <1>2 DEF Judged, Weights

-----------------------------------------------------------------------------
LEMMA InitInv == MemInit => Inv
<1> SUFFICES ASSUME MemInit PROVE Inv
  OBVIOUS
<1>1. Unlearned \in PatternRows /\ Seasoned \in PatternRows
  <2>1. NoWeights \in Weights /\ [count |-> 2, total |-> 20, gained |-> 20] \in Weights
    BY DEF NoWeights, Weights
  <2>2. NewPattern \in PatternRows
    BY <2>1 DEF NewPattern, PatternRows
  <2> QED
    BY <2>1, <2>2 DEF Unlearned, Seasoned, PatternRows
<1> USE DEF MemInit
<1>2. RowsOK
  BY <1>1 DEF RowsOK, EpisodeStatuses, Usable, TokenRows
<1>3. RequestsOK
  BY DEF RequestsOK, Shape, Idle
<1>4. HistoryOK
  BY <1>1, <1>2 DEF HistoryOK, RowsOK, PatternRows
<1>5. \A r \in Requests : Knows(r)
  BY DEF Knows, KnowsEpisode, KnowsPattern, KnowsHolds, Idle
<1>6. AttemptsAreNumbered
  <2>1. 0 \in 0..MaxAttempts /\ 1..0 = {}
    BY MemoryAssumption
  <2> QED
    BY <2>1 DEF AttemptsAreNumbered
<1>7. PatternsCountOutcomes
  BY DEF PatternsCountOutcomes, Unlearned, Seasoned, NewPattern
<1>8. LocksAreExclusive /\ KeysAreStored /\ NothingCollides
  BY DEF LocksAreExclusive, KeysAreStored, NothingCollides
<1> QED
  BY <1>2, <1>3, <1>4, <1>5, <1>6, <1>7, <1>8 DEF Inv, TypeOK

-----------------------------------------------------------------------------
(* The statements that read. *)

\* What a request is about to do, after Goes.
LEMMA Went ==
  ASSUME TypeOK, NEW r \in Requests, NEW s, NEW taken \in SUBSET Locks, Goes(r, s, taken)
  PROVE  /\ req'[r] = s /\ locks'[r] = locks[r] \cup taken
         /\ UNCHANGED <<status, attempts, outcome, pattern, tokens, holds, late>>
BY DEF TypeOK, RequestsOK, Goes, memRows, episodeRows

LEMMA BeginOutcomeInv ==
  ASSUME Inv, NEW r \in Requests, NEW e \in Episodes, NEW k \in Patterns,
         NEW quality \in Qualities, NEW halves \in 0..2,
         BeginOutcome(r, e, k, quality, halves)
  PROVE  Inv'
<1> DEFINE s == [pc |-> "key", item |-> e, key |-> k, quality |-> quality, halves |-> halves]
<1>1. Goes(r, s, {EpisodeRow(e)}) /\ Grantable(r, EpisodeRow(e))
      /\ Exists(e) /\ outcome[e] = NoPattern
  BY DEF BeginOutcome
<1>2. {EpisodeRow(e)} \in SUBSET Locks
  BY DEF EpisodeRow, Locks
<1>3. Shape(s)
  BY DEF Shape
<1>4. Knows(r)'
  BY <1>1, <1>2, Went DEF Knows, KnowsEpisode, KnowsPattern, KnowsHolds, Inv, Exists, EpisodeRow
<1> QED
  BY <1>1, <1>2, <1>3, <1>4, GoesStep

LEMMA LockKeyInv ==
  ASSUME Inv, NEW r \in Requests, LockKey(r)
  PROVE  Inv'
<1> DEFINE s == [req[r] EXCEPT !.pc = "pattern"]
           lock == Advisory(req[r].key)
<1>1. Goes(r, s, {lock}) /\ Grantable(r, lock) /\ req[r].pc = "key"
  BY DEF LockKey, Busy
<1>2. req[r] \in [pc : {"key", "pattern"}, item : Episodes, key : Patterns,
                  quality : Qualities, halves : 0..2]
  BY <1>1 DEF Inv, TypeOK, RequestsOK, Shape
<1>3. {lock} \in SUBSET Locks
  BY <1>2 DEF Advisory, Locks
<1>4. Shape(s)
  BY <1>2 DEF Shape
<1>5. KnowsEpisode(r)
  BY DEF Inv, Knows
<1>6. Knows(r)'
  BY <1>1, <1>2, <1>3, <1>5, Went
  DEF Knows, KnowsEpisode, KnowsPattern, KnowsHolds, Inv, Exists, EpisodeRow, Advisory
<1> QED
  BY <1>1, <1>3, <1>4, <1>6, GoesStep

LEMMA ReadPatternInv ==
  ASSUME Inv, NEW r \in Requests, ReadPattern(r)
  PROVE  Inv'
<1> DEFINE q == req[r]
           k == q.key
           s == [pc |-> "outcome", item |-> q.item, key |-> k, new |-> ~pattern[k].here,
                 quality |-> q.quality, halves |-> q.halves, read |-> pattern[k].w]
<1>1. Goes(r, s, PatternLock(r, k)) /\ q.pc = "pattern"
      /\ \A lock \in PatternLock(r, k) : Grantable(r, lock)
  BY DEF ReadPattern, Busy
<1>2. q \in [pc : {"key", "pattern"}, item : Episodes, key : Patterns,
             quality : Qualities, halves : 0..2]
  BY <1>1 DEF Inv, TypeOK, RequestsOK, Shape
<1>3. pattern[k] \in PatternRows
  BY <1>2 DEF Inv, TypeOK, RowsOK
<1>4. PatternLock(r, k) \in SUBSET Locks
  BY <1>2 DEF PatternLock, PatternRow, Locks
<1>5. Shape(s)
  <2>1. s \in [pc : {"outcome"}, item : Episodes, key : Patterns, new : BOOLEAN,
               quality : Qualities, halves : 0..2, read : Weights]
    BY <1>2, <1>3 DEF PatternRows
  <2> QED
    BY <2>1 DEF Shape
<1>6. KnowsEpisode(r) /\ KnowsPattern(r)
  BY DEF Inv, Knows
<1>7. KnowsEpisode(r)'
  BY <1>1, <1>4, <1>6, Went DEF KnowsEpisode, Inv, Exists, EpisodeRow
<1>8. KnowsPattern(r)'
  <2>1. /\ req'[r] = s /\ locks'[r] = locks[r] \cup PatternLock(r, k)
        /\ UNCHANGED pattern
    BY <1>1, <1>4, Went DEF Inv
  <2>2. Advisory(k) \in locks[r]
    BY <1>1, <1>6 DEF KnowsPattern
  <2>3. /\ s.pc = "outcome" /\ s.key = k /\ s.read = pattern[k].w
        /\ s.new <=> ~pattern[k].here
    OBVIOUS
  <2>4. pattern[k].here => PatternRow(k) \in PatternLock(r, k)
    BY DEF PatternLock
  <2> QED
    BY <2>1, <2>2, <2>3, <2>4 DEF KnowsPattern, PatternRow, Advisory
<1>9. KnowsHolds(r)'
  BY <1>1, <1>4, Went DEF KnowsHolds, Inv
<1> QED
  BY <1>1, <1>4, <1>5, <1>7, <1>8, <1>9, GoesStep DEF Knows

LEMMA BeginJudgeInv ==
  ASSUME Inv, NEW r \in Requests, NEW k \in Patterns, NEW score \in Scores,
         BeginJudge(r, k, score)
  PROVE  Inv'
<1> DEFINE s == [pc |-> "judge", key |-> k, score |-> score, read |-> pattern[k].w]
<1>1. Goes(r, s, {PatternRow(k)}) /\ Grantable(r, PatternRow(k)) /\ pattern[k].here
  BY DEF BeginJudge, PatternLock
<1>2. {PatternRow(k)} \in SUBSET Locks
  BY DEF PatternRow, Locks
<1>3. Shape(s)
  BY DEF Shape, Inv, TypeOK, RowsOK, PatternRows
<1>4. Knows(r)'
  <2>1. KnowsEpisode(r)' /\ KnowsHolds(r)'
    BY <1>1, <1>2, Went DEF KnowsEpisode, KnowsHolds, Inv
  <2>2. KnowsPattern(r)'
    BY <1>1, <1>2, Went DEF KnowsPattern, PatternRow, Inv
  <2> QED
    BY <2>1, <2>2 DEF Knows
<1> QED
  BY <1>1, <1>2, <1>3, <1>4, GoesStep

LEMMA BeginReplaceInv ==
  ASSUME Inv, NEW r \in Requests, NEW k \in Patterns, NEW by \in Patterns,
         BeginReplace(r, k, by)
  PROVE  Inv'
<1> DEFINE s == [pc |-> "replacement", key |-> k, by |-> by, superseded |-> pattern[k].by]
<1>1. Goes(r, s, {PatternRow(k)}) /\ Grantable(r, PatternRow(k)) /\ pattern[k].here /\ k # by
  BY DEF BeginReplace
<1>2. {PatternRow(k)} \in SUBSET Locks
  BY DEF PatternRow, Locks
<1>3. Shape(s)
  BY DEF Shape, Inv, TypeOK, RowsOK, PatternRows
<1>4. Knows(r)'
  <2>1. KnowsEpisode(r)' /\ KnowsHolds(r)'
    BY <1>1, <1>2, Went DEF KnowsEpisode, KnowsHolds, Inv
  <2>2. KnowsPattern(r)'
    BY <1>1, <1>2, Went DEF KnowsPattern, PatternRow, Inv
  <2> QED
    BY <2>1, <2>2 DEF Knows
<1> QED
  BY <1>1, <1>2, <1>3, <1>4, GoesStep

LEMMA ReadReplacementInv ==
  ASSUME Inv, NEW r \in Requests, ReadReplacement(r)
  PROVE  Inv'
<1> DEFINE q == req[r]
           s == [pc |-> "replace", key |-> q.key, by |-> q.by]
<1>1. /\ Goes(r, s, {PatternRow(q.by)}) /\ Grantable(r, PatternRow(q.by))
      /\ q.pc = "replacement"
      /\ q.superseded = NoPattern /\ pattern[q.by].by = NoPattern
  BY DEF ReadReplacement, Busy
<1>2. q.key \in Patterns /\ q.by \in Patterns
  BY <1>1 DEF Inv, TypeOK, RequestsOK, Shape
<1>3. {PatternRow(q.by)} \in SUBSET Locks
  BY <1>2 DEF PatternRow, Locks
<1>4. Shape(s)
  BY <1>2 DEF Shape
<1>5. KnowsPattern(r)
  BY DEF Inv, Knows
<1>6. Knows(r)'
  <2>1. KnowsEpisode(r)' /\ KnowsHolds(r)'
    BY <1>1, <1>3, Went DEF KnowsEpisode, KnowsHolds, Inv
  <2>2. KnowsPattern(r)'
    BY <1>1, <1>2, <1>3, <1>5, Went DEF KnowsPattern, PatternRow, Inv
  <2> QED
    BY <2>1, <2>2 DEF Knows
<1> QED
  BY <1>1, <1>3, <1>4, <1>6, GoesStep

LEMMA BeginAttemptInv ==
  ASSUME Inv, NEW r \in Requests, NEW e \in Episodes, NEW st \in {"active", "degraded"},
         BeginAttempt(r, e, st)
  PROVE  Inv'
<1> DEFINE s == [pc |-> "sequence", item |-> e, status |-> st]
<1>1. Goes(r, s, {EpisodeRow(e)}) /\ Grantable(r, EpisodeRow(e)) /\ Exists(e)
  BY DEF BeginAttempt, Exists, EpisodeStatuses
<1>2. {EpisodeRow(e)} \in SUBSET Locks
  BY DEF EpisodeRow, Locks
<1>3. Shape(s)
  BY DEF Shape
<1>4. Knows(r)'
  BY <1>1, <1>2, Went DEF Knows, KnowsEpisode, KnowsPattern, KnowsHolds, Inv, Exists, EpisodeRow
<1> QED
  BY <1>1, <1>2, <1>3, <1>4, GoesStep

\* MAX(sequence) + 1 is the next number: there is no gap.
LEMMA ReadSequenceInv ==
  ASSUME Inv, NEW r \in Requests, ReadSequence(r)
  PROVE  Inv'
<1> DEFINE q == req[r]
           last == Max(attempts[q.item] \cup {0})
           s == [pc |-> "attempt", item |-> q.item, status |-> q.status, number |-> last + 1]
<1>1. Goes(r, s, {}) /\ q.pc = "sequence" /\ last < MaxAttempts
  BY DEF ReadSequence, Busy
<1>2. q \in [pc : {"sequence"}, item : Episodes, status : {"active", "degraded"}]
  BY <1>1 DEF Inv, TypeOK, RequestsOK, Shape
<1>3. last \in Nat /\ attempts[q.item] = 1..last
  <2>1. PICK n \in 0..MaxAttempts : attempts[q.item] = 1..n
    BY <1>2 DEF Inv, AttemptsAreNumbered
  <2>2. last = n
    BY <2>1, MaxOfNumbers
  <2> QED
    BY <2>1, <2>2
<1>4. Shape(s)
  <2>1. last + 1 \in 1..MaxAttempts
    BY <1>1, <1>3, MemoryAssumption
  <2> QED
    BY <1>2, <2>1 DEF Shape
<1>5. KnowsEpisode(r)
  BY DEF Inv, Knows
<1>6. (last + 1) - 1 = last
  BY <1>3
<1>7. /\ req'[r] = s /\ locks'[r] = locks[r] \cup {}
      /\ UNCHANGED <<status, attempts>>
  BY <1>1, Went DEF Inv
<1>8. s.pc = "attempt" /\ s.item = q.item /\ s.number = last + 1
  OBVIOUS
<1> HIDE DEF s, last
<1>9. KnowsEpisode(r)'
  BY <1>1, <1>3, <1>5, <1>6, <1>7, <1>8 DEF KnowsEpisode, Exists, EpisodeRow
<1>10. KnowsPattern(r)' /\ KnowsHolds(r)'
  BY <1>7, <1>8 DEF KnowsPattern, KnowsHolds
<1> QED
  BY <1>1, <1>4, <1>9, <1>10, GoesStep DEF Knows

LEMMA BeginCreateInv ==
  ASSUME Inv, NEW r \in Requests, NEW t \in Tokens \cup {NoToken}, BeginCreate(r, t)
  PROVE  Inv'
<1> DEFINE s == [pc |-> "create", token |-> t]
<1>1. Goes(r, s, {})
  BY DEF BeginCreate
<1>2. Shape(s)
  BY DEF Shape
<1>3. Knows(r)'
  BY <1>1, Went DEF Knows, KnowsEpisode, KnowsPattern, KnowsHolds, Inv
<1> QED
  BY <1>1, <1>2, <1>3, GoesStep

LEMMA BeginDeleteInv ==
  ASSUME Inv, NEW r \in Requests, NEW e \in Episodes, BeginDelete(r, e)
  PROVE  Inv'
<1> DEFINE s == [pc |-> "check", item |-> e, token |-> NoToken]
<1>1. Goes(r, s, {EpisodeRow(e)}) /\ Grantable(r, EpisodeRow(e))
  BY DEF BeginDelete
<1>2. {EpisodeRow(e)} \in SUBSET Locks
  BY DEF EpisodeRow, Locks
<1>3. Shape(s)
  BY DEF Shape
<1>4. Knows(r)'
  BY <1>1, <1>2, Went DEF Knows, KnowsEpisode, KnowsPattern, KnowsHolds, Inv
<1> QED
  BY <1>1, <1>2, <1>3, <1>4, GoesStep

LEMMA BeginForgetInv ==
  ASSUME Inv, NEW r \in Requests, NEW e \in Episodes, NEW t \in Tokens \cup {NoToken},
         BeginForget(r, e, t)
  PROVE  Inv'
<1> DEFINE s == [pc |-> "check", item |-> e, token |-> t]
<1>1. Goes(r, s, {})
  BY DEF BeginForget
<1>2. Shape(s)
  BY DEF Shape
<1>3. Knows(r)'
  BY <1>1, Went DEF Knows, KnowsEpisode, KnowsPattern, KnowsHolds, Inv
<1> QED
  BY <1>1, <1>2, <1>3, GoesStep

LEMMA BeginForgetSoftlyInv ==
  ASSUME Inv, NEW r \in Requests, NEW e \in Episodes, NEW t \in Tokens \cup {NoToken},
         NEW st \in {"archived", "rejected"}, BeginForgetSoftly(r, e, t, st)
  PROVE  Inv'
<1> DEFINE s == [pc |-> "forget", item |-> e, token |-> t, from |-> status[e], to |-> st]
<1>1. Goes(r, s, {}) /\ status[e] \in EpisodeStatuses
  BY DEF BeginForgetSoftly, Exists
<1>2. Shape(s)
  BY <1>1 DEF Shape
<1>3. Knows(r)'
  BY <1>1, Went DEF Knows, KnowsEpisode, KnowsPattern, KnowsHolds, Inv
<1> QED
  BY <1>1, <1>2, <1>3, GoesStep

\* The holds are read here: what forbids the deletion later came later.
LEMMA CheckHoldsInv ==
  ASSUME Inv, NEW r \in Requests, CheckHolds(r)
  PROVE  Inv'
<1> DEFINE s == [req[r] EXCEPT !.pc = "delete"]
<1>1. Goes(r, s, {}) /\ req[r].pc = "check" /\ HoldsOn(req[r].item) = {}
  BY DEF CheckHolds, Busy
<1>2. req[r] \in [pc : {"check", "delete"}, item : Episodes, token : Tokens \cup {NoToken}]
  BY <1>1 DEF Inv, TypeOK, RequestsOK, Shape
<1>3. Shape(s)
  BY <1>2 DEF Shape
<1>4. s.pc = "delete" /\ s.item = req[r].item
  BY <1>2
<1>5. req'[r] = s /\ UNCHANGED holds
  BY <1>1, Went DEF Inv
<1> HIDE DEF s
<1>6. KnowsHolds(r)'
  BY <1>1, <1>4, <1>5 DEF KnowsHolds, HoldsOn
<1>7. KnowsEpisode(r)' /\ KnowsPattern(r)'
  BY <1>4, <1>5 DEF KnowsEpisode, KnowsPattern
<1> QED
  BY <1>1, <1>3, <1>6, <1>7, GoesStep DEF Knows

LEMMA BeginRetentionInv ==
  ASSUME Inv, NEW r \in Requests, NEW action \in {"archive", "delete"},
         BeginRetention(r, action)
  PROVE  Inv'
<1> DEFINE s == [pc |-> "holds", action |-> action]
<1>1. Goes(r, s, {}) /\ ProjectHold \notin holds
  BY DEF BeginRetention
<1>2. Shape(s)
  BY DEF Shape
<1>3. Knows(r)'
  BY <1>1, Went DEF Knows, KnowsEpisode, KnowsPattern, KnowsHolds, Inv, ProjectHold
<1> QED
  BY <1>1, <1>2, <1>3, GoesStep

LEMMA ReadHoldsInv ==
  ASSUME Inv, NEW r \in Requests, ReadHolds(r)
  PROVE  Inv'
<1> DEFINE s == [pc |-> "items", action |-> req[r].action, held |-> Held]
<1>1. Goes(r, s, {}) /\ req[r].pc = "holds"
  BY DEF ReadHolds, Busy
<1>2. req[r].action \in {"archive", "delete"}
  BY <1>1 DEF Inv, TypeOK, RequestsOK, Shape
<1>3. Held \in SUBSET Episodes
  BY DEF Held, Inv, TypeOK, RowsOK, HoldKinds
<1>4. Shape(s)
  BY <1>2, <1>3 DEF Shape
<1>5. ProjectHold \in holds => ProjectHold \in late[r]
  BY <1>1 DEF Inv, Knows, KnowsHolds
<1>6. \A h \in holds : h \in late[r] \/ h[2] \in Held
  BY <1>5 DEF Held
<1>7. req'[r] = s /\ UNCHANGED <<holds, late>>
  BY <1>1, Went DEF Inv
<1>8. KnowsHolds(r)'
  BY <1>5, <1>6, <1>7 DEF KnowsHolds, ProjectHold
<1>9. KnowsEpisode(r)' /\ KnowsPattern(r)'
  BY <1>7 DEF KnowsEpisode, KnowsPattern
<1> QED
  BY <1>1, <1>4, <1>8, <1>9, GoesStep DEF Knows

LEMMA ReadItemsInv ==
  ASSUME Inv, NEW r \in Requests, NEW old \in SUBSET Episodes, ReadItems(r, old)
  PROVE  Inv'
<1> DEFINE q == req[r]
           eligible == IF q.action = "archive" THEN {"active", "open"} ELSE Removable
           items == {e \in old : status[e] \in eligible} \ q.held
           s == [pc |-> "retain", action |-> q.action, items |-> items]
<1>1. Goes(r, s, {}) /\ q.pc = "items"
  BY DEF ReadItems, Busy
<1>2. q.action \in {"archive", "delete"}
  BY <1>1 DEF Inv, TypeOK, RequestsOK, Shape
<1>3. items \in SUBSET Episodes
  OBVIOUS
<1>4. Shape(s)
  BY <1>2, <1>3 DEF Shape
<1>5. req'[r] = s /\ UNCHANGED <<holds, late>>
  BY <1>1, Went DEF Inv
<1>6. /\ ProjectHold \in holds => ProjectHold \in late[r]
      /\ \A h \in holds : h \in late[r] \/ h[2] \in q.held
  BY <1>1 DEF Inv, Knows, KnowsHolds
<1>7. \A e \in items : HoldsOn(e) \subseteq late[r]
  BY <1>6 DEF HoldsOn
<1> HIDE DEF items
<1>8. KnowsHolds(r)'
  BY <1>5, <1>7 DEF KnowsHolds, HoldsOn, ProjectHold
<1>9. KnowsEpisode(r)' /\ KnowsPattern(r)'
  BY <1>5 DEF KnowsEpisode, KnowsPattern
<1> QED
  BY <1>1, <1>4, <1>8, <1>9, GoesStep DEF Knows

-----------------------------------------------------------------------------
(* Commits. *)

\* The outcome is counted on what the pattern holds, and is the episode's first.
LEMMA CommitOutcomeInv ==
  ASSUME Inv, NEW r \in Requests, CommitOutcome(r)
  PROVE  Inv'
<1> DEFINE q == req[r]
           k == q.key
           w == Counted(q.read, q.quality, q.halves)
<1>1. q.pc = "outcome" /\ Grantable(r, PatternRow(k))
  BY DEF CommitOutcome, Busy
<1>2. q \in [pc : {"outcome"}, item : Episodes, key : Patterns, new : BOOLEAN,
             quality : Qualities, halves : 0..2, read : Weights]
  BY <1>1 DEF Inv, TypeOK, RequestsOK, Shape
<1>3. /\ Exists(q.item) /\ EpisodeRow(q.item) \in locks[r] /\ outcome[q.item] = NoPattern
      /\ Advisory(k) \in locks[r]
      /\ q.read = pattern[k].w
      /\ q.new <=> ~pattern[k].here
  BY <1>1 DEF Inv, Knows, KnowsEpisode, KnowsPattern
<1>4. /\ pattern' = [pattern EXCEPT ![k] =
                       [@ EXCEPT !.here = TRUE, !.w = w, !.promoted = IsPromoted(w)]]
      /\ outcome' = [outcome EXCEPT ![q.item] = k]
      /\ tally' = [tally EXCEPT ![k] = Counted(@, q.quality, q.halves)]
      /\ Answered(r)
      /\ UNCHANGED <<using, status, attempts, tokens, holds, judged, made, collided>>
  BY <1>3 DEF CommitOutcome
<1>5. w \in Weights /\ IsPromoted(w) \in BOOLEAN
  BY <1>2, CountedType DEF IsPromoted
<1>6. pattern[k] \in PatternRows /\ tally[k] = pattern[k].w
  BY <1>2 DEF Inv, TypeOK, RowsOK, PatternsCountOutcomes
<1>7. /\ pattern'[k] = [here |-> TRUE, w |-> w, promoted |-> IsPromoted(w), by |-> pattern[k].by]
      /\ \A x \in Patterns \ {k} : pattern'[x] = pattern[x]
      /\ pattern' \in [Patterns -> PatternRows]
  BY <1>2, <1>4, <1>5, <1>6 DEF PatternRows, Inv, TypeOK, RowsOK
<1>8. tally'[k] = w /\ \A x \in Patterns \ {k} : tally'[x] = tally[x]
  BY <1>2, <1>3, <1>4, <1>6 DEF Inv, TypeOK, HistoryOK
<1> HIDE DEF w
<1>9. RowsOK'
  BY <1>2, <1>4, <1>7 DEF RowsOK, Inv, TypeOK
<1>10. HistoryOK'
  BY <1>2, <1>4, <1>5, <1>8 DEF HistoryOK, Inv, TypeOK
<1>11. PatternsCountOutcomes'
  BY <1>7, <1>8 DEF PatternsCountOutcomes, Inv
<1>12. AttemptsAreNumbered' /\ KeysAreStored' /\ NothingCollides'
  BY <1>4 DEF AttemptsAreNumbered, KeysAreStored, NothingCollides, Inv
<1>13. \A e \in Episodes : \/ Grantable(r, EpisodeRow(e))
                           \/ UNCHANGED <<status[e], outcome[e], attempts[e]>>
  BY <1>2, <1>3, <1>4 DEF Inv, TypeOK, RowsOK, LocksAreExclusive, Grantable
<1>14. \A x \in Patterns : \/ UNCHANGED pattern[x]
                           \/ /\ Grantable(r, PatternRow(x))
                              /\ pattern[x].here \/ Advisory(x) \in locks[r]
  BY <1>1, <1>3, <1>7
<1> QED
  BY <1>4, <1>9, <1>10, <1>11, <1>12, <1>13, <1>14, AnsweredStep

LEMMA CommitJudgeInv ==
  ASSUME Inv, NEW r \in Requests, CommitJudge(r)
  PROVE  Inv'
<1> DEFINE q == req[r]
           k == q.key
           w == Judged(q.read, q.score)
<1>1. /\ q.pc = "judge" /\ Grantable(r, PatternRow(k))
      /\ pattern' = [pattern EXCEPT ![k].w = w, ![k].promoted = IsPromoted(w)]
      /\ tally' = [tally EXCEPT ![k] = Judged(@, q.score)]
      /\ judged' = [judged EXCEPT ![k] = @ + 1]
      /\ Answered(r)
      /\ UNCHANGED <<using, status, attempts, outcome, tokens, holds, made, collided>>
  BY DEF CommitJudge, Busy, episodeRows
<1>2. q \in [pc : {"judge"}, key : Patterns, score : Scores, read : Weights]
  BY <1>1 DEF Inv, TypeOK, RequestsOK, Shape
<1>3. pattern[k].here /\ q.read = pattern[k].w
  BY <1>1 DEF Inv, Knows, KnowsPattern
<1>4. w \in Weights /\ IsPromoted(w) \in BOOLEAN
  BY <1>2, JudgedType DEF IsPromoted
<1>5. pattern[k] \in PatternRows /\ tally[k] = pattern[k].w
  BY <1>2 DEF Inv, TypeOK, RowsOK, PatternsCountOutcomes
<1>6. /\ pattern'[k] = [pattern[k] EXCEPT !.w = w, !.promoted = IsPromoted(w)]
      /\ \A x \in Patterns \ {k} : pattern'[x] = pattern[x]
      /\ pattern' \in [Patterns -> PatternRows]
  BY <1>1, <1>2, <1>4, <1>5 DEF PatternRows, Inv, TypeOK, RowsOK
<1>7. tally'[k] = w /\ \A x \in Patterns \ {k} : tally'[x] = tally[x]
  BY <1>1, <1>2, <1>3, <1>5 DEF Inv, TypeOK, HistoryOK
<1> HIDE DEF w
<1>8. RowsOK'
  BY <1>1, <1>6 DEF RowsOK, Inv, TypeOK
<1>9. HistoryOK'
  BY <1>1, <1>2, <1>4, <1>7 DEF HistoryOK, Inv, TypeOK
<1>10. PatternsCountOutcomes'
  <2>1. pattern'[k].w = w /\ pattern'[k].promoted = IsPromoted(w)
    BY <1>5, <1>6 DEF PatternRows
  <2> QED
    BY <1>6, <1>7, <2>1 DEF PatternsCountOutcomes, Inv
<1>11. AttemptsAreNumbered' /\ KeysAreStored' /\ NothingCollides'
  BY <1>1 DEF AttemptsAreNumbered, KeysAreStored, NothingCollides, Inv
<1>12. \A x \in Patterns : \/ UNCHANGED pattern[x]
                           \/ /\ Grantable(r, PatternRow(x))
                              /\ pattern[x].here \/ Advisory(x) \in locks[r]
  BY <1>1, <1>3, <1>6
<1> QED
  BY <1>1, <1>8, <1>9, <1>10, <1>11, <1>12, AnsweredStep

LEMMA CommitReplaceInv ==
  ASSUME Inv, NEW r \in Requests, CommitReplace(r)
  PROVE  Inv'
<1> DEFINE q == req[r]
           k == q.key
<1>1. /\ q.pc = "replace"
      /\ pattern' = [pattern EXCEPT ![k].promoted = FALSE, ![k].by = q.by]
      /\ Answered(r)
      /\ UNCHANGED <<using, status, attempts, outcome, tokens, holds>>
      /\ UNCHANGED <<judged, tally, made, collided>>
  BY DEF CommitReplace, Busy, episodeRows, memHistory
<1>2. q \in [pc : {"replace"}, key : Patterns, by : Patterns]
  BY <1>1 DEF Inv, TypeOK, RequestsOK, Shape
<1>3. pattern[k].here /\ Grantable(r, PatternRow(k))
  BY <1>1 DEF Inv, Knows, KnowsPattern, LocksAreExclusive, Grantable
<1>4. pattern[k] \in PatternRows
  BY <1>2 DEF Inv, TypeOK, RowsOK
<1>5. /\ pattern'[k] = [pattern[k] EXCEPT !.promoted = FALSE, !.by = q.by]
      /\ \A x \in Patterns \ {k} : pattern'[x] = pattern[x]
      /\ pattern' \in [Patterns -> PatternRows]
  BY <1>1, <1>2, <1>4 DEF PatternRows, Inv, TypeOK, RowsOK
<1>6. RowsOK' /\ HistoryOK'
  BY <1>1, <1>5 DEF RowsOK, HistoryOK, Inv, TypeOK
<1>7. PatternsCountOutcomes'
  <2>1. tally' = tally
    BY <1>1
  <2>2. pattern'[k].w = pattern[k].w /\ pattern'[k].promoted = FALSE
    BY <1>4, <1>5 DEF PatternRows
  <2> QED
    BY <1>5, <2>1, <2>2 DEF PatternsCountOutcomes, Inv
<1>8. AttemptsAreNumbered' /\ KeysAreStored' /\ NothingCollides'
  BY <1>1 DEF AttemptsAreNumbered, KeysAreStored, NothingCollides, Inv
<1>9. \A x \in Patterns : \/ UNCHANGED pattern[x]
                          \/ /\ Grantable(r, PatternRow(x))
                             /\ pattern[x].here \/ Advisory(x) \in locks[r]
  BY <1>3, <1>5
<1> QED
  BY <1>1, <1>6, <1>7, <1>8, <1>9, AnsweredStep

\* The number was free when it was read, and the row has been held since.
LEMMA CommitAttemptInv ==
  ASSUME Inv, NEW r \in Requests, CommitAttempt(r)
  PROVE  Inv'
<1> DEFINE q == req[r]
<1>1. q.pc = "attempt" /\ Grantable(r, EpisodeRow(q.item))
  BY DEF CommitAttempt, Busy
<1>2. q \in [pc : {"attempt"}, item : Episodes, status : {"active", "degraded"},
             number : 1..MaxAttempts]
  BY <1>1 DEF Inv, TypeOK, RequestsOK, Shape
<1>3. attempts[q.item] = 1..(q.number - 1)
  BY <1>1 DEF Inv, Knows, KnowsEpisode
<1>4. q.number \notin attempts[q.item] /\ attempts[q.item] \cup {q.number} = 1..q.number
  BY <1>2, <1>3, MemoryAssumption
<1>5. /\ attempts' = [attempts EXCEPT ![q.item] = 1..q.number]
      /\ status' = [status EXCEPT ![q.item] = q.status]
      /\ Answered(r)
      /\ UNCHANGED <<using, outcome, pattern, tokens, holds, memHistory>>
  BY <1>4 DEF CommitAttempt
<1>6. 1..q.number \in SUBSET Nat
  BY <1>2
<1>7. q.status \in EpisodeStatuses
  BY <1>2 DEF EpisodeStatuses, Usable
<1>8. RowsOK' /\ HistoryOK'
  BY <1>2, <1>5, <1>6, <1>7 DEF RowsOK, HistoryOK, Inv, TypeOK, memHistory
<1>9. AttemptsAreNumbered'
  <2>1. q.number \in 0..MaxAttempts
    BY <1>2, MemoryAssumption
  <2>2. attempts'[q.item] = 1..q.number /\ \A e \in Episodes \ {q.item} : attempts'[e] = attempts[e]
    BY <1>2, <1>5 DEF Inv, TypeOK, RowsOK
  <2> QED
    BY <2>1, <2>2 DEF AttemptsAreNumbered, Inv
<1>10. KeysAreStored' /\ PatternsCountOutcomes' /\ NothingCollides'
  BY <1>5 DEF KeysAreStored, PatternsCountOutcomes, NothingCollides, Inv, memHistory
<1>11. \A e \in Episodes : \/ Grantable(r, EpisodeRow(e))
                           \/ UNCHANGED <<status[e], outcome[e], attempts[e]>>
  BY <1>1, <1>2, <1>5 DEF Inv, TypeOK, RowsOK
<1> QED
  BY <1>5, <1>8, <1>9, <1>10, <1>11, AnsweredStep

\* A key once stored stays stored.
LEMMA StoredKeeps ==
  ASSUME tokens \in [Tokens -> TokenRows], NEW t \in Tokens \cup {NoToken},
         NEW operation \in {"episode.create", "memory.forget"}, NEW e \in Episodes,
         tokens' = Stored(t, operation, e)
  PROVE  /\ tokens' \in [Tokens -> TokenRows]
         /\ \A x \in Tokens : tokens[x].item # {} \/ x = t => tokens'[x].item # {}
<1>1. [operation |-> operation, item |-> {e}] \in TokenRows
  BY DEF TokenRows
<1>2. CASE t = NoToken
  BY <1>2, MemoryAssumption DEF Stored
<1>3. CASE t # NoToken
  BY <1>1, <1>3 DEF Stored
<1> QED
  BY <1>2, <1>3

\* The primary key of idempotency_keys lets one request create under a key.
LEMMA CommitCreateInv ==
  ASSUME Inv, NEW r \in Requests, NEW e \in Episodes, CommitCreate(r, e)
  PROVE  Inv'
<1> DEFINE t == req[r].token
<1>1. req[r].pc = "create" /\ status[e] = "absent"
  BY DEF CommitCreate, Busy
<1>2. t \in Tokens \cup {NoToken}
  BY <1>1 DEF Inv, TypeOK, RequestsOK, Shape
<1>3. CASE TokenTaken(t)
  <2>1. Refused(r, "idempotency_keys_pkey")
    BY <1>3 DEF CommitCreate
  <2> QED
    BY <2>1, QuietStep DEF Refused, NothingCollides, Inv
<1>4. CASE ~TokenTaken(t)
  <2>1. /\ status' = [status EXCEPT ![e] = "open"]
        /\ tokens' = Stored(t, "episode.create", e)
        /\ made' = [x \in Tokens |-> IF x = t THEN made[x] \cup {e} ELSE made[x]]
        /\ Answered(r)
        /\ UNCHANGED <<using, attempts, outcome, pattern, holds, judged, tally, collided>>
    BY <1>4 DEF CommitCreate
  <2>2. /\ tokens' \in [Tokens -> TokenRows]
        /\ \A x \in Tokens : tokens[x].item # {} \/ x = t => tokens'[x].item # {}
    BY <1>2, <2>1, StoredKeeps DEF Inv, TypeOK, RowsOK
  <2>3. RowsOK'
    BY <2>1, <2>2 DEF RowsOK, Inv, TypeOK, EpisodeStatuses, Usable
  <2>4. HistoryOK'
    BY <2>1 DEF HistoryOK, Inv, TypeOK
  <2>5. t \in Tokens => made[t] = {}
    BY <1>4, MemoryAssumption DEF TokenTaken, KeysAreStored, Inv
  <2>6. KeysAreStored'
    BY <2>1, <2>2, <2>5 DEF KeysAreStored, Inv
  <2>7. AttemptsAreNumbered' /\ PatternsCountOutcomes' /\ NothingCollides'
    BY <2>1 DEF AttemptsAreNumbered, PatternsCountOutcomes, NothingCollides, Inv
  <2>8. \A x \in Episodes : ~Exists(x) \/ UNCHANGED <<status[x], outcome[x], attempts[x]>>
    BY <1>1, <2>1 DEF Inv, TypeOK, RowsOK, Exists, EpisodeStatuses, Usable, Removable
  <2> QED
    BY <2>1, <2>3, <2>4, <2>6, <2>7, <2>8, AnsweredStep
<1> QED
  BY <1>3, <1>4

LEMMA RemovedRows ==
  ASSUME RowsOK, AttemptsAreNumbered, NEW gone \in SUBSET Episodes, Removed(gone)
  PROVE  /\ status' \in [Episodes -> EpisodeStatuses \cup {"absent", "deleted"}]
         /\ attempts' \in [Episodes -> SUBSET Nat]
         /\ outcome' \in [Episodes -> Patterns \cup {NoPattern}]
         /\ AttemptsAreNumbered'
         /\ \A e \in Episodes \ gone : UNCHANGED <<status[e], outcome[e], attempts[e]>>
<1>1. 0 \in 0..MaxAttempts /\ 1..0 = {}
  BY MemoryAssumption
<1>2. AttemptsAreNumbered'
  BY <1>1 DEF AttemptsAreNumbered, Removed
<1> QED
  BY <1>2 DEF Removed, RowsOK

LEMMA CommitDeleteInv ==
  ASSUME Inv, NEW r \in Requests, CommitDelete(r)
  PROVE  Inv'
<1> DEFINE q == req[r]
<1>1. q.pc = "delete" /\ Grantable(r, EpisodeRow(q.item))
  BY DEF CommitDelete, Busy
<1>2. q.item \in Episodes /\ q.token \in Tokens \cup {NoToken}
  BY <1>1 DEF Inv, TypeOK, RequestsOK, Shape
<1>3. CASE TokenTaken(q.token)
  <2>1. Refused(r, "idempotency_keys_pkey")
    BY <1>3 DEF CommitDelete
  <2> QED
    BY <2>1, QuietStep DEF Refused, NothingCollides, Inv
<1>4. CASE ~TokenTaken(q.token)
  <2>1. /\ Removed({q.item})
        /\ tokens' = Stored(q.token, "memory.forget", q.item)
        /\ Answered(r)
        /\ UNCHANGED <<using, pattern, holds, memHistory>>
    BY <1>4 DEF CommitDelete
  <2>2. /\ tokens' \in [Tokens -> TokenRows]
        /\ \A x \in Tokens : tokens[x].item # {} => tokens'[x].item # {}
    BY <1>2, <2>1, StoredKeeps DEF Inv, TypeOK, RowsOK
  <2>3. RowsOK' /\ HistoryOK' /\ AttemptsAreNumbered'
    BY <1>2, <2>1, <2>2, RemovedRows DEF RowsOK, HistoryOK, Inv, TypeOK, memHistory
  <2>4. KeysAreStored' /\ PatternsCountOutcomes' /\ NothingCollides'
    BY <2>1, <2>2 DEF KeysAreStored, PatternsCountOutcomes, NothingCollides, Inv, memHistory
  <2>5. \A e \in Episodes : \/ Grantable(r, EpisodeRow(e))
                            \/ UNCHANGED <<status[e], outcome[e], attempts[e]>>
    BY <1>1, <1>2, <2>1, RemovedRows DEF Inv, TypeOK
  <2> QED
    BY <2>1, <2>3, <2>4, <2>5, AnsweredStep
<1> QED
  BY <1>3, <1>4

LEMMA CommitForgetInv ==
  ASSUME Inv, NEW r \in Requests, CommitForget(r)
  PROVE  Inv'
<1> DEFINE q == req[r]
<1>1. q.pc = "forget" /\ Grantable(r, EpisodeRow(q.item))
  BY DEF CommitForget, Busy
<1>2. /\ q.item \in Episodes /\ q.token \in Tokens \cup {NoToken}
      /\ q.to \in {"archived", "rejected"}
  BY <1>1 DEF Inv, TypeOK, RequestsOK, Shape
<1>3. CASE TokenTaken(q.token)
  <2>1. Refused(r, "idempotency_keys_pkey")
    BY <1>3 DEF CommitForget
  <2> QED
    BY <2>1, QuietStep DEF Refused, NothingCollides, Inv
<1>4. CASE ~TokenTaken(q.token)
  <2>1. /\ status' = [status EXCEPT ![q.item] = IF q.from = q.to THEN @ ELSE q.to]
        /\ tokens' = Stored(q.token, "memory.forget", q.item)
        /\ Answered(r)
        /\ UNCHANGED <<using, attempts, outcome, pattern, holds, memHistory>>
    BY <1>4 DEF CommitForget
  <2>2. /\ tokens' \in [Tokens -> TokenRows]
        /\ \A x \in Tokens : tokens[x].item # {} => tokens'[x].item # {}
    BY <1>2, <2>1, StoredKeeps DEF Inv, TypeOK, RowsOK
  <2>3. RowsOK' /\ HistoryOK'
    BY <1>2, <2>1, <2>2
    DEF RowsOK, HistoryOK, Inv, TypeOK, memHistory, EpisodeStatuses, Removable
  <2>4. AttemptsAreNumbered' /\ KeysAreStored' /\ PatternsCountOutcomes' /\ NothingCollides'
    BY <2>1, <2>2 DEF AttemptsAreNumbered, KeysAreStored, PatternsCountOutcomes,
                      NothingCollides, Inv, memHistory
  <2>5. \A e \in Episodes : \/ Grantable(r, EpisodeRow(e))
                            \/ UNCHANGED <<status[e], outcome[e], attempts[e]>>
    BY <1>1, <1>2, <2>1 DEF Inv, TypeOK, RowsOK
  <2> QED
    BY <2>1, <2>3, <2>4, <2>5, AnsweredStep
<1> QED
  BY <1>3, <1>4

LEMMA CommitRetentionInv ==
  ASSUME Inv, NEW r \in Requests, CommitRetention(r)
  PROVE  Inv'
<1> DEFINE q == req[r]
<1>1. /\ q.pc = "retain" /\ \A e \in q.items : Grantable(r, EpisodeRow(e))
      /\ Answered(r)
      /\ UNCHANGED <<using, pattern, tokens, holds, memHistory>>
  BY DEF CommitRetention, Busy
<1>2. q.items \in SUBSET Episodes
  BY <1>1 DEF Inv, TypeOK, RequestsOK, Shape
<1>3. /\ status' \in [Episodes -> EpisodeStatuses \cup {"absent", "deleted"}]
      /\ attempts' \in [Episodes -> SUBSET Nat]
      /\ outcome' \in [Episodes -> Patterns \cup {NoPattern}]
      /\ AttemptsAreNumbered'
      /\ \A e \in Episodes \ q.items : UNCHANGED <<status[e], outcome[e], attempts[e]>>
  <2>1. CASE q.action = "archive"
    <3>1. /\ status' = [e \in Episodes |-> IF e \in q.items THEN "archived" ELSE status[e]]
          /\ UNCHANGED <<attempts, outcome>>
      BY <2>1 DEF CommitRetention
    <3> QED
      BY <3>1 DEF Inv, TypeOK, RowsOK, AttemptsAreNumbered, EpisodeStatuses, Removable
  <2>2. CASE q.action # "archive"
    <3>1. Removed(q.items)
      BY <2>2 DEF CommitRetention
    <3> QED
      BY <1>2, <3>1, RemovedRows DEF Inv, TypeOK
  <2> QED
    BY <2>1, <2>2
<1>4. RowsOK' /\ HistoryOK'
  BY <1>1, <1>3 DEF RowsOK, HistoryOK, Inv, TypeOK, memHistory
<1>5. KeysAreStored' /\ PatternsCountOutcomes' /\ NothingCollides'
  BY <1>1 DEF KeysAreStored, PatternsCountOutcomes, NothingCollides, Inv, memHistory
<1>6. \A e \in Episodes : \/ Grantable(r, EpisodeRow(e))
                          \/ UNCHANGED <<status[e], outcome[e], attempts[e]>>
  BY <1>1, <1>3
<1> QED
  BY <1>1, <1>3, <1>4, <1>5, <1>6, AnsweredStep

-----------------------------------------------------------------------------
(* Steps of one action, and the invariance. *)

\* A step that writes rows of episodes nobody holds, or that are not there.
LEMMA RowStep ==
  ASSUME Inv, RowsOK', AttemptsAreNumbered',
         UNCHANGED <<using, pattern, tokens, holds, requestVars, memHistory>>,
         \A e \in Episodes : \/ ~Exists(e)
                             \/ Unlocked(EpisodeRow(e))
                             \/ UNCHANGED <<status[e], outcome[e], attempts[e]>>
  PROVE  Inv'
<1> USE DEF Inv, requestVars
<1>1. TypeOK'
  BY DEF TypeOK, RequestsOK, HistoryOK, memHistory
<1>2. ASSUME NEW q \in Requests PROVE Knows(q)'
  <2>1. Spared(q)
    BY <1>2 DEF Spared, Unlocked, Exists
  <2> QED
    BY <1>2, <2>1, KnowsKept
<1>3. LocksAreExclusive' /\ KeysAreStored' /\ PatternsCountOutcomes' /\ NothingCollides'
  BY DEF LocksAreExclusive, KeysAreStored, PatternsCountOutcomes, NothingCollides, memHistory
<1> QED
  BY <1>1, <1>2, <1>3

LEMMA RetireInv ==
  ASSUME Inv, NEW e \in Episodes, NEW s \in {"archived", "rejected"}, Retire(e, s)
  PROVE  Inv'
<1>1. /\ status' = [status EXCEPT ![e] = s] /\ Unlocked(EpisodeRow(e))
      /\ UNCHANGED <<using, attempts, outcome, pattern, tokens, holds, requestVars, memHistory>>
  BY DEF Retire
<1>2. RowsOK' /\ AttemptsAreNumbered'
  BY <1>1 DEF Inv, TypeOK, RowsOK, AttemptsAreNumbered, EpisodeStatuses, Removable
<1>3. \A x \in Episodes : \/ Unlocked(EpisodeRow(x))
                          \/ UNCHANGED <<status[x], outcome[x], attempts[x]>>
  BY <1>1 DEF Inv, TypeOK, RowsOK
<1> QED
  BY <1>1, <1>2, <1>3, RowStep

LEMMA ImportInv ==
  ASSUME Inv, NEW e \in Episodes, NEW s \in EpisodeStatuses, NEW n \in {0, MaxAttempts - 1},
         NEW k \in Patterns \cup {NoPattern}, Import(e, s, n, k)
  PROVE  Inv'
<1>1. /\ ~Exists(e)
      /\ status' = [status EXCEPT ![e] = s]
      /\ attempts' = [attempts EXCEPT ![e] = 1..n]
      /\ outcome' = [outcome EXCEPT ![e] = k]
      /\ UNCHANGED <<using, pattern, tokens, holds, requestVars, memHistory>>
  BY DEF Import
<1>2. 1..n \in SUBSET Nat /\ \E m \in 0..MaxAttempts : 1..n = 1..m
  <2>1. CASE n \in 0..MaxAttempts
    BY <2>1
  <2>2. CASE n \notin 0..MaxAttempts
    <3>1. n = -1 /\ 1..n = 1..0 /\ 0 \in 0..MaxAttempts
      BY <2>2, MemoryAssumption
    <3> QED
      BY <3>1
  <2> QED
    BY <2>1, <2>2
<1>3. RowsOK'
  BY <1>1, <1>2 DEF Inv, TypeOK, RowsOK
<1>4. AttemptsAreNumbered'
  <2>1. attempts'[e] = 1..n /\ \A x \in Episodes \ {e} : attempts'[x] = attempts[x]
    BY <1>1 DEF Inv, TypeOK, RowsOK
  <2> QED
    BY <1>2, <2>1 DEF AttemptsAreNumbered, Inv
<1>5. \A x \in Episodes : ~Exists(x) \/ UNCHANGED <<status[x], outcome[x], attempts[x]>>
  BY <1>1 DEF Inv, TypeOK, RowsOK
<1> QED
  BY <1>1, <1>3, <1>4, <1>5, RowStep

LEMMA HoldInv ==
  ASSUME Inv, NEW h \in HoldKinds, PlaceHold(h) \/ LiftHold(h)
  PROVE  Inv'
<1> USE DEF Inv, requestVars
<1>1. /\ holds' \subseteq holds \cup {h}
      /\ late' \in [Requests -> SUBSET HoldKinds]
      /\ \A q \in Requests : late[q] \subseteq late'[q]
      /\ \A q \in Requests : req[q].pc \in ReadTheHolds => holds' \subseteq holds \cup late'[q]
      /\ UNCHANGED <<using, episodeRows, pattern, tokens, req, locks, memHistory>>
  BY DEF PlaceHold, LiftHold, TypeOK, RequestsOK
<1>2. TypeOK'
  BY <1>1 DEF TypeOK, RowsOK, RequestsOK, HistoryOK, memHistory, episodeRows
<1>3. ASSUME NEW q \in Requests PROVE Knows(q)'
  <2>1. Spared(q)
    BY <1>1, <1>3 DEF Spared, episodeRows, Exists
  <2> QED
    BY <1>1, <1>3, <2>1, KnowsKept
<1>4. /\ LocksAreExclusive' /\ AttemptsAreNumbered' /\ KeysAreStored'
      /\ PatternsCountOutcomes' /\ NothingCollides'
  BY <1>1 DEF LocksAreExclusive, AttemptsAreNumbered, KeysAreStored, PatternsCountOutcomes,
              NothingCollides, memHistory, episodeRows
<1> QED
  BY <1>2, <1>3, <1>4

LEMMA LearnInv == ASSUME Inv, NEW r \in Requests, LearnStep(r) PROVE Inv'
BY BeginOutcomeInv, LockKeyInv, ReadPatternInv, CommitOutcomeInv, BeginJudgeInv, CommitJudgeInv,
   BeginReplaceInv, ReadReplacementInv, CommitReplaceInv
DEF LearnStep

LEMMA EpisodeInv == ASSUME Inv, NEW r \in Requests, EpisodeStep(r) PROVE Inv'
BY BeginAttemptInv, ReadSequenceInv, CommitAttemptInv, BeginCreateInv, CommitCreateInv
DEF EpisodeStep

LEMMA RemovalInv == ASSUME Inv, NEW r \in Requests, RemovalStep(r) PROVE Inv'
BY BeginDeleteInv, BeginForgetInv, BeginForgetSoftlyInv, CheckHoldsInv, CommitDeleteInv,
   CommitForgetInv, BeginRetentionInv, ReadHoldsInv, ReadItemsInv, CommitRetentionInv
DEF RemovalStep

LEMMA NextInv == ASSUME Inv, [MemNext]_memVars PROVE Inv'
<1>1. CASE UNCHANGED memVars
  <2>1. RowsOK' /\ AttemptsAreNumbered'
    BY <1>1 DEF memVars, memRows, episodeRows, Inv, TypeOK, RowsOK, AttemptsAreNumbered
  <2> QED
    BY <1>1, <2>1, RowStep DEF memVars, memRows, episodeRows
<1>2. ASSUME NEW r \in Requests, Abandon(r) PROVE Inv'
  BY <1>2, QuietStep DEF Abandon, memHistory, NothingCollides, Inv
<1>3. CASE MemNext
  BY <1>2, <1>3, LearnInv, EpisodeInv, RemovalInv, HoldInv, RetireInv, ImportInv DEF MemNext
<1> QED
  BY <1>1, <1>3

\* What a request has read of the rows it holds is what is there
\* (the row locks and the advisory lock of memory/api.py).
THEOREM Invariance == MemSpec => []Inv
  BY InitInv, NextInv, PTL DEF MemSpec

\* Every column, lock and request keeps its type.
THEOREM TypeCorrect == MemSpec => []TypeOK
<1>1. Inv => TypeOK
  BY DEF Inv
<1> QED
  BY <1>1, Invariance, PTL

\* No accepted outcome or feedback is lost to another request, whichever come
\* together and whether or not the pattern is there (record_outcome).
THEOREM WeightsAreCounted == MemSpec => []PatternsCountOutcomes
<1>1. Inv => PatternsCountOutcomes
  BY DEF Inv
<1> QED
  BY <1>1, Invariance, PTL

\* A request that passed its checks meets no unique constraint when it commits,
\* but for the key of another use (record_outcome, append_attempt).
THEOREM ConstraintsRest == MemSpec => []NothingCollides
<1>1. Inv => NothingCollides
  BY DEF Inv
<1> QED
  BY <1>1, Invariance, PTL

\* However often and concurrently a creation is sent with one key, it makes one
\* episode (idempotency.py, create_episode).
THEOREM KeysMakeOne == MemSpec => []OneEpisodePerKey
<1>1. Inv => OneEpisodePerKey
  <2> SUFFICES ASSUME Inv, NEW t \in Tokens PROVE Cardinality(made[t]) <= 1
    BY DEF OneEpisodePerKey
  <2>1. made[t] = {} \/ \E e \in Episodes : made[t] = {e}
    BY DEF Inv, KeysAreStored
  <2>2. CASE made[t] = {}
    BY <2>2, FS_EmptySet
  <2>3. ASSUME NEW e \in Episodes, made[t] = {e} PROVE Cardinality(made[t]) = 1
    BY <2>3, FS_Singleton
  <2> QED
    BY <2>1, <2>2, <2>3
<1> QED
  BY <1>1, Invariance, PTL

-----------------------------------------------------------------------------
(* Who deletes, and who writes patterns. *)

LEMMA WhoDeletes ==
  ASSUME Inv, [MemNext]_memVars, NEW e \in Episodes, Exists(e), status'[e] = "deleted"
  PROVE  \E r \in Requests : CommitDelete(r) \/ CommitRetention(r)
<1> USE DEF Inv, TypeOK, RowsOK, Exists, EpisodeStatuses, Usable, Removable
<1>1. status' # status
  OBVIOUS
<1>2. ASSUME NEW r \in Requests, LearnStep(r) PROVE UNCHANGED status
  BY <1>2 DEF LearnStep, BeginOutcome, LockKey, ReadPattern, CommitOutcome, BeginJudge,
              CommitJudge, BeginReplace, ReadReplacement, CommitReplace, Goes, Refused,
              memRows, episodeRows
<1>3. ASSUME NEW r \in Requests, EpisodeStep(r) PROVE status'[e] # "deleted"
  <2>1. ASSUME NEW x \in Episodes, CommitCreate(r, x) PROVE status'[e] # "deleted"
    BY <2>1 DEF CommitCreate, Refused, memRows, episodeRows
  <2>2. CASE CommitAttempt(r)
    <3>1. req[r].status \in {"active", "degraded"}
      BY <2>2 DEF CommitAttempt, Busy, RequestsOK, Shape
    <3> QED
      BY <2>2, <3>1 DEF CommitAttempt, Refused, memRows, episodeRows
  <2> QED
    BY <1>3, <2>1, <2>2
    DEF EpisodeStep, BeginAttempt, ReadSequence, BeginCreate, Goes, memRows, episodeRows
<1>4. ASSUME NEW r \in Requests, RemovalStep(r), ~CommitDelete(r), ~CommitRetention(r)
      PROVE  status'[e] # "deleted"
  <2>1. CASE CommitForget(r)
    <3>1. req[r].to \in {"archived", "rejected"}
      BY <2>1 DEF CommitForget, Busy, RequestsOK, Shape
    <3> QED
      BY <2>1, <3>1 DEF CommitForget, Refused, memRows, episodeRows
  <2> QED
    BY <1>4, <2>1
    DEF RemovalStep, BeginDelete, BeginForget, BeginForgetSoftly, CheckHolds, BeginRetention,
        ReadHolds, ReadItems, Goes, memRows, episodeRows
<1>5. ASSUME NEW r \in Requests, Abandon(r) PROVE UNCHANGED status
  BY <1>5 DEF Abandon, memRows, episodeRows
<1>6. ASSUME NEW h \in HoldKinds, PlaceHold(h) \/ LiftHold(h) PROVE UNCHANGED status
  BY <1>6 DEF PlaceHold, LiftHold, episodeRows
<1>7. ASSUME NEW x \in Episodes, NEW s \in {"archived", "rejected"}, Retire(x, s)
      PROVE  status'[e] # "deleted"
  BY <1>7 DEF Retire
<1>8. ASSUME NEW x \in Episodes, NEW s \in EpisodeStatuses, NEW n, NEW k, Import(x, s, n, k)
      PROVE  status'[e] # "deleted"
  BY <1>8 DEF Import
<1>9. MemNext
  BY <1>1 DEF memVars, memRows, episodeRows
<1> QED
  BY <1>1, <1>2, <1>3, <1>4, <1>5, <1>6, <1>7, <1>8, <1>9 DEF MemNext

LEMMA DeletionIsFree ==
  ASSUME Inv, NEW r \in Requests, CommitDelete(r) \/ CommitRetention(r),
         NEW e \in Episodes, Exists(e), status'[e] = "deleted"
  PROVE  req[r] # Idle /\ req'[r] = Idle /\ HoldsOn(e) \subseteq late[r]
<1>1. req[r] # Idle /\ req'[r] = Idle
  BY DEF CommitDelete, CommitRetention, Busy, Refused, Answered, Inv, TypeOK, RequestsOK, Idle
<1>2. CASE CommitDelete(r)
  <2>1. status'[e] = status[e] \/ e = req[r].item
    BY <1>2 DEF CommitDelete, Refused, Removed, memRows, episodeRows
  <2>2. e = req[r].item
    BY <2>1 DEF Exists, EpisodeStatuses, Usable, Removable
  <2> QED
    BY <1>1, <1>2, <2>2 DEF CommitDelete, Busy, Inv, Knows, KnowsHolds
<1>3. CASE CommitRetention(r)
  <2>1. status'[e] = status[e] \/ e \in req[r].items
    BY <1>3 DEF CommitRetention, Removed
  <2>2. e \in req[r].items
    BY <2>1 DEF Exists, EpisodeStatuses, Usable, Removable
  <2> QED
    BY <1>1, <1>3, <2>2 DEF CommitRetention, Busy, Inv, Knows, KnowsHolds
<1> QED
  BY <1>2, <1>3

\* An episode is deleted under no hold but one placed after the holds were read
\* (check_resource_deletable, apply_retention).
THEOREM HoldsAreKept == MemSpec => HeldEpisodesStay
<1>1. Inv /\ [MemNext]_memVars =>
        [\A e \in Episodes :
           Exists(e) /\ status'[e] = "deleted" =>
             \E r \in Requests : /\ req[r] # Idle /\ req'[r] = Idle
                                 /\ HoldsOn(e) \subseteq late[r]]_memVars
  BY WhoDeletes, DeletionIsFree
<1> QED
  BY <1>1, Invariance, PTL DEF MemSpec, HeldEpisodesStay

LEMMA PatternChanges ==
  ASSUME [MemNext]_memVars
  PROVE  \/ UNCHANGED pattern
         \/ \E r \in Requests : CommitOutcome(r) \/ CommitJudge(r) \/ CommitReplace(r)
<1> USE DEF memRows, episodeRows, memHistory
<1>1. ASSUME NEW r \in Requests, LearnStep(r)
      PROVE  UNCHANGED pattern \/ CommitOutcome(r) \/ CommitJudge(r) \/ CommitReplace(r)
  BY <1>1 DEF LearnStep, BeginOutcome, LockKey, ReadPattern, BeginJudge, BeginReplace,
              ReadReplacement, Goes
<1>2. ASSUME NEW r \in Requests, EpisodeStep(r) PROVE UNCHANGED pattern
  BY <1>2 DEF EpisodeStep, BeginAttempt, ReadSequence, CommitAttempt, BeginCreate, CommitCreate,
              Goes, Refused
<1>3. ASSUME NEW r \in Requests, RemovalStep(r) PROVE UNCHANGED pattern
  BY <1>3 DEF RemovalStep, BeginDelete, BeginForget, BeginForgetSoftly, CheckHolds, CommitDelete,
              CommitForget, BeginRetention, ReadHolds, ReadItems, CommitRetention, Goes, Refused
<1> QED
  BY <1>1, <1>2, <1>3
  DEF MemNext, Abandon, PlaceHold, LiftHold, Retire, Import, memVars

LEMMA ReplacementMaps ==
  ASSUME Inv, [MemNext]_memVars
  PROVE  [PatternChains!Next]_(PatternChains!vars)
<1> USE DEF Inv, TypeOK, RowsOK
<1>1. ASSUME \A k \in Patterns : pattern'[k].by = pattern[k].by
      PROVE  UNCHANGED PatternChains!vars
  BY <1>1 DEF PatternChains!vars
<1>2. ASSUME NEW r \in Requests, CommitOutcome(r) PROVE UNCHANGED PatternChains!vars
  <2>1. req[r].key \in Patterns
    BY <1>2 DEF CommitOutcome, Busy, RequestsOK, Shape
  <2>2. CASE UNCHANGED pattern
    BY <1>1, <2>2
  <2>3. ASSUME NEW w,
               pattern' = [pattern EXCEPT ![req[r].key] =
                             [@ EXCEPT !.here = TRUE, !.w = w, !.promoted = IsPromoted(w)]]
        PROVE  \A k \in Patterns : pattern'[k].by = pattern[k].by
    BY <2>1, <2>3 DEF PatternRows
  <2> QED
    BY <1>1, <1>2, <2>2, <2>3 DEF CommitOutcome, Refused, memRows
<1>3. ASSUME NEW r \in Requests, CommitJudge(r) PROVE UNCHANGED PatternChains!vars
  <2>1. req[r].key \in Patterns
    BY <1>3 DEF CommitJudge, Busy, RequestsOK, Shape
  <2>2. \A k \in Patterns : pattern'[k].by = pattern[k].by
    BY <1>3, <2>1 DEF CommitJudge, PatternRows
  <2> QED
    BY <1>1, <2>2
<1>4. ASSUME NEW r \in Requests, CommitReplace(r)
      PROVE  PatternChains!Next
  <2> DEFINE k == req[r].key
             by == req[r].by
  <2>1. k \in Patterns /\ by \in Patterns
    BY <1>4 DEF CommitReplace, Busy, RequestsOK, Shape
  <2>2. k # by /\ pattern[k].by = NoPattern /\ pattern[by].by = NoPattern
    BY <1>4 DEF CommitReplace, Busy, Knows, KnowsPattern
  <2>3. pattern'[k].by = by /\ \A x \in Patterns \ {k} : pattern'[x].by = pattern[x].by
    BY <1>4, <2>1 DEF CommitReplace, PatternRows
  <2> HIDE DEF k, by
  <2>4. [x \in Patterns |-> pattern'[x].by] =
          [[x \in Patterns |-> pattern[x].by] EXCEPT ![k] = by]
    BY <2>1, <2>3
  <2>5. {x \in Patterns : pattern'[x].by # NoPattern} =
          {x \in Patterns : pattern[x].by # NoPattern} \cup {k}
    BY <2>1, <2>3, MemoryAssumption
  <2>6. \E S \in SUBSET Patterns :
          by \in S /\ k \notin S
          /\ \A i \in S : [x \in Patterns |-> pattern[x].by][i] \in S \cup {NoPattern}
    <3>1. /\ {by} \in SUBSET Patterns /\ by \in {by} /\ k \notin {by}
          /\ \A i \in {by} : [x \in Patterns |-> pattern[x].by][i] \in {by} \cup {NoPattern}
      BY <2>1, <2>2
    <3> QED
      BY <3>1
  <2>7. PatternChains!Supersede(k, by)
    BY <2>1, <2>2, <2>4, <2>5, <2>6 DEF PatternChains!Supersede, PatternChains!Closed
  <2> QED
    BY <2>1, <2>7 DEF PatternChains!Next, PatternChains!Supersede, PatternChains!Closed
<1> QED
  BY <1>1, <1>2, <1>3, <1>4, PatternChanges

\* The replacements of patterns, read and locked one by one, are atomic
\* supersessions (supersede_pattern).
THEOREM ReplacementsImplement == MemSpec => PatternsImplementSupersession
<1>1. MemInit => PatternChains!Init
  BY DEF MemInit, PatternChains!Init, Unlearned, Seasoned, NewPattern
<1> QED
  BY <1>1, ReplacementMaps, Invariance, PTL
  DEF MemSpec, PatternsImplementSupersession, PatternChains!Spec

\* However many requests replace patterns, no cycle of replacements is closed
\* (supersede_pattern).
THEOREM PatternChainsEnd == MemSpec => []PatternChains!NeverCyclic
<1>1. PatternChains!Spec => []PatternChains!NeverCyclic
  BY PatternChains!AcyclicAlways, MemoryAssumption
<1> QED
  BY <1>1, ReplacementsImplement, PTL DEF PatternsImplementSupersession
=============================================================================

------------------------- MODULE EpisodeChainsProofs -------------------------
(***************************************************************************)
(* What holds of EpisodeChains for every set of episodes and requests.  The *)
(* invariant ChainInv says that a request owns the rows it has seen; from it *)
(* each commit of the supersede endpoint is a step of Supersession, and       *)
(* Supersession never has a cycle.                                           *)
(***************************************************************************)
EXTENDS EpisodeChains, TLAPS

\* Only the supersede endpoint links episodes.
LockingOnly == Operations \cap {"confidence", "mcp", "merge"} = {}

USE DEF Free, Unlocked, Present, Walkers

-----------------------------------------------------------------------------
(* What a request has seen stays as it saw it while others write only rows   *)
(* that it has not locked.                                                   *)

Untouched(q) ==
  /\ locked'[q] = locked[q]
  /\ pc'[q] = pc[q]
  /\ op'[q] = op[q]
  /\ item'[q] = item[q]
  /\ target'[q] = target[q]
  /\ visited'[q] = visited[q]
  /\ link'[q] = link[q]
  /\ before'[q] = before[q]

LEMMA WalkKept ==
  ASSUME NEW q \in Requests, WalkIsOwned(q), Untouched(q),
         \A e \in locked[q] : status'[e] = status[e] /\ next'[e] = next[e]
  PROVE  WalkIsOwned(q)'
<1> USE DEF WalkIsOwned, Untouched
<1>1. op[q] = "supersede" => before'[q] = Row(item[q])'
  BY DEF Row
<1>2. op[q] = "supersede" /\ pc[q] \in {"walk", "commit"} =>
        /\ status'[item[q]] # "superseded"
        /\ status'[target[q]] # "superseded"
  OBVIOUS
<1>3. op[q] = "supersede" /\ pc[q] \in {"walk", "commit"} =>
        \A e \in Seen(q)' : next'[e] \in Seen(q)' \cup {NoEpisode, link'[q]}
  BY DEF Seen
<1> QED
  BY <1>1, <1>2, <1>3

\* A step that changes no request and no locked row keeps the invariant.
LEMMA EpisodesKept ==
  ASSUME ChainInv, UNCHANGED requestVars,
         status' \in [Episodes -> Statuses],
         next' \in [Episodes -> Episodes \cup {NoEpisode}],
         \A q \in Requests : \A e \in locked[q] : status'[e] = status[e] /\ next'[e] = next[e]
  PROVE  ChainInv'
<1>1. TypeOK'
  BY DEF ChainInv, TypeOK, requestVars, PcStates
<1>2. LocksAreExclusive'
  BY DEF ChainInv, LocksAreExclusive, requestVars
<1>3. LocksArePresent'
  BY DEF ChainInv, LocksArePresent, requestVars
<1>4. ASSUME NEW q \in Requests PROVE WalkIsOwned(q)'
  BY <1>4, WalkKept DEF ChainInv, Untouched, requestVars
<1> QED
  BY <1>1, <1>2, <1>3, <1>4 DEF ChainInv

-----------------------------------------------------------------------------
LEMMA InitInv == Init => ChainInv
  BY EpisodesAssumption
  DEF Init, ChainInv, TypeOK, LocksAreExclusive, LocksArePresent, WalkIsOwned,
      Statuses, Usable, PcStates, NoRow

LEMMA BeginInv ==
  ASSUME ChainInv, NEW r \in Requests, NEW o \in Operations,
         NEW e \in Episodes, NEW t \in Episodes, Begin(r, o, e, t)
  PROVE  ChainInv'
<1> USE DEF Begin, ChainInv, episodeVars
<1>1. TypeOK'
  BY DEF TypeOK, PcStates, Row
<1>2. LocksAreExclusive'
  BY DEF TypeOK, LocksAreExclusive
<1>3. LocksArePresent'
  BY DEF TypeOK, LocksArePresent
<1>4. WalkIsOwned(r)'
  BY DEF TypeOK, WalkIsOwned, Row
<1>5. ASSUME NEW q \in Requests \ {r} PROVE WalkIsOwned(q)'
  BY WalkKept DEF TypeOK, Untouched
<1> QED
  BY <1>1, <1>2, <1>3, <1>4, <1>5

LEMMA ReadTargetInv ==
  ASSUME ChainInv, NEW r \in Requests, ReadTarget(r)
  PROVE  ChainInv'
<1> USE DEF ReadTarget, ChainInv, episodeVars
<1>0. target[r] \in Episodes
  BY DEF TypeOK
<1>1. TypeOK'
  BY <1>0 DEF TypeOK, PcStates, Row
<1>2. LocksAreExclusive'
  BY DEF TypeOK, LocksAreExclusive
<1>3. LocksArePresent'
  BY DEF TypeOK, LocksArePresent
<1>4. WalkIsOwned(r)'
  BY DEF TypeOK, WalkIsOwned, Row, Seen
<1>5. ASSUME NEW q \in Requests \ {r} PROVE WalkIsOwned(q)'
  BY WalkKept DEF TypeOK, Untouched
<1> QED
  BY <1>1, <1>2, <1>3, <1>4, <1>5

LEMMA FollowInv ==
  ASSUME ChainInv, NEW r \in Requests, Follow(r)
  PROVE  ChainInv'
<1> USE DEF Follow, ChainInv, episodeVars
<1>0. link[r] \in Episodes
  BY DEF TypeOK
<1>1. TypeOK'
  BY <1>0 DEF TypeOK, PcStates
<1>2. LocksAreExclusive'
  BY DEF TypeOK, LocksAreExclusive
<1>3. LocksArePresent'
  BY DEF TypeOK, LocksArePresent
<1>4. WalkIsOwned(r)'
  BY <1>0 DEF TypeOK, WalkIsOwned, Row, Seen
<1>5. ASSUME NEW q \in Requests \ {r} PROVE WalkIsOwned(q)'
  BY WalkKept DEF TypeOK, Untouched
<1> QED
  BY <1>1, <1>2, <1>3, <1>4, <1>5

LEMMA ChainEndsInv ==
  ASSUME ChainInv, NEW r \in Requests, ChainEnds(r)
  PROVE  ChainInv'
<1> USE DEF ChainEnds, ChainInv, episodeVars
<1>1. TypeOK'
  BY DEF TypeOK, PcStates
<1>2. LocksAreExclusive' /\ LocksArePresent'
  BY DEF LocksAreExclusive, LocksArePresent
<1>3. WalkIsOwned(r)'
  BY DEF TypeOK, WalkIsOwned, Row, Seen
<1>4. ASSUME NEW q \in Requests \ {r} PROVE WalkIsOwned(q)'
  BY WalkKept DEF TypeOK, Untouched
<1> QED
  BY <1>1, <1>2, <1>3, <1>4

\* A request that ends, having written no row that another has locked.
LEMMA EndInv ==
  ASSUME ChainInv, NEW r \in Requests, EndRequest(r),
         status' \in [Episodes -> Statuses],
         next' \in [Episodes -> Episodes \cup {NoEpisode}],
         \A q \in Requests \ {r} : \A e \in locked[q] : status'[e] = status[e] /\ next'[e] = next[e]
  PROVE  ChainInv'
<1> USE DEF EndRequest, ChainInv
<1>1. TypeOK'
  BY DEF TypeOK, PcStates, NoRow, Statuses, Usable
<1>2. LocksAreExclusive'
  BY DEF TypeOK, LocksAreExclusive
<1>3. LocksArePresent'
  BY DEF TypeOK, LocksArePresent
<1>4. WalkIsOwned(r)'
  BY DEF TypeOK, WalkIsOwned
<1>5. ASSUME NEW q \in Requests \ {r} PROVE WalkIsOwned(q)'
  BY WalkKept DEF TypeOK, Untouched
<1> QED
  BY <1>1, <1>2, <1>3, <1>4, <1>5

LEMMA CommitInv ==
  ASSUME ChainInv, NEW r \in Requests, NEW old \in Episodes, NEW new \in Episodes,
         Link(old, new, r), EndRequest(r)
  PROVE  ChainInv'
<1>1. status' \in [Episodes -> Statuses] /\ next' \in [Episodes -> Episodes \cup {NoEpisode}]
  BY DEF Link, ChainInv, TypeOK, Statuses
<1>2. \A q \in Requests \ {r} : \A e \in locked[q] : status'[e] = status[e] /\ next'[e] = next[e]
  BY DEF Link, ChainInv, TypeOK
<1> QED
  BY <1>1, <1>2, EndInv

LEMMA AbandonInv ==
  ASSUME ChainInv, NEW r \in Requests, Abandon(r)
  PROVE  ChainInv'
  BY EndInv DEF Abandon, episodeVars, ChainInv, TypeOK

LEMMA LinkStepInv ==
  ASSUME ChainInv, NEW r \in Requests, LinkStep(r)
  PROVE  ChainInv'
<1>1. CASE CommitSupersede(r)
  <2>1. item[r] \in Episodes /\ target[r] \in Episodes
    BY <1>1 DEF CommitSupersede, ChainInv, TypeOK
  <2> QED
    BY <1>1, <2>1, CommitInv DEF CommitSupersede
<1>2. CASE CommitMerge(r)
  <2>1. item[r] \in Episodes /\ target[r] \in Episodes
    BY <1>2 DEF CommitMerge, ChainInv, TypeOK
  <2> QED
    BY <1>2, <2>1, CommitInv DEF CommitMerge
<1> QED
  BY <1>1, <1>2, BeginInv, ReadTargetInv, FollowInv, ChainEndsInv, AbandonInv DEF LinkStep

\* Putting a status leaves the row where no request has it locked.
LEMMA PutInv ==
  ASSUME ChainInv, NEW o, NEW e \in Episodes, NEW s \in Statuses, Put(o, e, s)
  PROVE  ChainInv'
<1>1. status' \in [Episodes -> Statuses] /\ next' \in [Episodes -> Episodes \cup {NoEpisode}]
  BY DEF Put, ChainInv, TypeOK
<1>2. \A q \in Requests : \A x \in locked[q] : status'[x] = status[x] /\ next'[x] = next[x]
  BY DEF Put, ChainInv, TypeOK
<1> QED
  BY <1>1, <1>2, EpisodesKept DEF Put

LEMMA EpisodeStepInv ==
  ASSUME ChainInv, NEW e \in Episodes, EpisodeStep(e)
  PROVE  ChainInv'
<1>1. CASE Create(e)
  <2>1. status' \in [Episodes -> Statuses] /\ next' \in [Episodes -> Episodes \cup {NoEpisode}]
    BY <1>1 DEF Create, ChainInv, TypeOK, Statuses, Usable
  <2>2. \A q \in Requests : \A x \in locked[q] : status'[x] = status[x] /\ next'[x] = next[x]
    BY <1>1 DEF Create, ChainInv, TypeOK, LocksArePresent
  <2> QED
    BY <1>1, <2>1, <2>2, EpisodesKept DEF Create
<1>2. CASE AppendAttempt(e) \/ MarkStale(e) \/ Reject(e) \/ Archive(e)
  BY <1>2, PutInv DEF AppendAttempt, MarkStale, Reject, Archive, Statuses, Usable
<1>3. CASE HardDelete(e)
  <2>1. status' \in [Episodes -> Statuses] /\ next' \in [Episodes -> Episodes \cup {NoEpisode}]
    BY <1>3 DEF HardDelete, ChainInv, TypeOK, Statuses
  <2>2. \A q \in Requests : \A x \in locked[q] : status'[x] = status[x] /\ next'[x] = next[x]
    BY <1>3 DEF HardDelete, ChainInv, TypeOK
  <2> QED
    BY <1>3, <2>1, <2>2, EpisodesKept DEF HardDelete
<1> QED
  BY <1>1, <1>2, <1>3 DEF EpisodeStep

LEMMA NextInv == ChainInv /\ [Next]_vars => ChainInv'
<1> SUFFICES ASSUME ChainInv, [Next]_vars PROVE ChainInv'
  OBVIOUS
<1>1. CASE UNCHANGED vars
  BY <1>1, EpisodesKept DEF vars, episodeVars, ChainInv, TypeOK
<1> QED
  BY <1>1, LinkStepInv, EpisodeStepInv DEF Next

\* A request of the supersede endpoint owns the rows it has seen, and what it
\* has seen is closed up to the link it follows (supersede_episode).
THEOREM WalksAreOwned == Spec => []ChainInv
  BY InitInv, NextInv, PTL DEF Spec

\* Every column, lock and request keeps its type.
THEOREM ChainTypes == Spec => []TypeOK
<1>1. ChainInv => TypeOK
  BY DEF ChainInv
<1> QED
  BY <1>1, WalksAreOwned, PTL

-----------------------------------------------------------------------------
(* The commit of a supersession is a step of the abstract specification.     *)

LEMMA CommitIsAtomic ==
  ASSUME ChainInv, NEW r \in Requests, op[r] = "supersede", CommitSupersede(r)
  PROVE  Memory!Supersede(item[r], target[r])
<1> USE DEF CommitSupersede, Link, ChainInv, TypeOK
<1>1. item[r] \in Episodes /\ target[r] \in Episodes /\ item[r] # target[r]
  BY DEF WalkIsOwned
<1>2. status[item[r]] # "superseded" /\ status[target[r]] # "superseded"
  BY DEF WalkIsOwned
<1>3. before[r] = Row(item[r])
  BY DEF WalkIsOwned
<1>4. target[r] \in Seen(r) /\ item[r] \notin Seen(r) /\ Seen(r) \subseteq Episodes
  BY <1>1 DEF WalkIsOwned, Seen
<1>5. \A e \in Seen(r) : next[e] \in Seen(r) \cup {NoEpisode}
  BY DEF WalkIsOwned
<1>6. next' = [next EXCEPT ![item[r]] = target[r]]
  <2>1. before[r].next = next[item[r]]
    BY <1>3 DEF Row
  <2>2. CASE next[item[r]] = target[r]
    BY <1>1, <2>1, <2>2
  <2>3. CASE next[item[r]] # target[r]
    BY <2>1, <2>3
  <2> QED
    BY <2>2, <2>3
<1>7. status' = [status EXCEPT ![item[r]] = "superseded"]
  BY <1>1, <1>2, <1>3 DEF Row
<1>8. {e \in Episodes : status'[e] = "superseded"} =
        {e \in Episodes : status[e] = "superseded"} \cup {item[r]}
  BY <1>1, <1>7
<1> QED
  BY <1>1, <1>2, <1>4, <1>5, <1>6, <1>8 DEF Memory!Supersede, Memory!Closed

\* The supersede endpoint is atomic whatever the other endpoints do meanwhile
\* (supersede_episode holds the lock of every row it has read).
THEOREM SupersedeIsAtomic == Spec => AtomicSupersession
<1>1. ChainInv /\ [Next]_vars =>
        [\A r \in Requests :
           op[r] = "supersede" /\ CommitSupersede(r) => Memory!Supersede(item[r], target[r])]_vars
  BY CommitIsAtomic
<1> QED
  BY <1>1, WalksAreOwned, PTL DEF Spec, AtomicSupersession
-----------------------------------------------------------------------------
(* Where only the supersede endpoint links episodes, every step of           *)
(* EpisodeChains is a step of Supersession, or changes nothing it speaks of. *)

OnlySupersedes == \A r \in Requests : op[r] \in {"none", "supersede"}

LEMMA OnlySupersedesInv ==
  ASSUME LockingOnly PROVE ChainInv /\ OnlySupersedes /\ [Next]_vars => OnlySupersedes'
<1> SUFFICES ASSUME ChainInv, OnlySupersedes, [Next]_vars PROVE OnlySupersedes'
  OBVIOUS
<1> USE DEF OnlySupersedes, ChainInv, TypeOK
<1>1. ASSUME NEW r \in Requests, LinkStep(r) PROVE OnlySupersedes'
  <2>1. ASSUME NEW o \in Operations, NEW e, NEW t, Begin(r, o, e, t) PROVE OnlySupersedes'
    BY <2>1 DEF Begin, LockingOnly
  <2>2. CASE EndRequest(r)
    BY <2>2 DEF EndRequest
  <2>3. CASE ReadTarget(r) \/ Follow(r) \/ ChainEnds(r)
    BY <2>3 DEF ReadTarget, Follow, ChainEnds
  <2> QED
    BY <1>1, <2>1, <2>2, <2>3 DEF LinkStep, CommitSupersede, CommitMerge, Abandon
<1>2. ASSUME NEW e \in Episodes, EpisodeStep(e) PROVE UNCHANGED requestVars
  BY <1>2 DEF EpisodeStep, Create, AppendAttempt, MarkStale, Reject, Archive, Put, HardDelete
<1> QED
  BY <1>1, <1>2 DEF Next, vars, requestVars

LEMMA InitMaps == Init => Memory!Init
  BY DEF Init, Memory!Init

LEMMA StepMaps ==
  ChainInv /\ OnlySupersedes /\ [Next]_vars => [Memory!Next]_(Memory!vars)
<1> SUFFICES ASSUME ChainInv, OnlySupersedes, [Next]_vars
             PROVE  Memory!Next \/ UNCHANGED Memory!vars
  OBVIOUS
<1>0. ASSUME NEW r \in Requests, op[r] = "supersede", CommitSupersede(r)
      PROVE  Memory!Supersede(item[r], target[r])
  BY <1>0, CommitIsAtomic
<1> USE DEF ChainInv, TypeOK
<1>1. ASSUME UNCHANGED episodeVars PROVE UNCHANGED Memory!vars
  BY <1>1 DEF episodeVars, Memory!vars
<1>2. ASSUME NEW r \in Requests, LinkStep(r)
      PROVE  Memory!Next \/ UNCHANGED Memory!vars
  <2>1. CASE CommitSupersede(r)
    <3>1. op[r] = "supersede" /\ item[r] \in Episodes /\ target[r] \in Episodes
      BY <2>1 DEF CommitSupersede, OnlySupersedes
    <3> QED
      BY <1>0, <2>1, <3>1 DEF Memory!Next, Memory!Supersede, Memory!Closed
  <2>2. CASE CommitMerge(r)
    BY <2>2 DEF CommitMerge, OnlySupersedes
  <2> QED
    BY <1>1, <1>2, <2>1, <2>2 DEF LinkStep, Begin, ReadTarget, Follow, ChainEnds, Abandon
<1>3. ASSUME NEW e \in Episodes, EpisodeStep(e)
      PROVE  Memory!Next \/ UNCHANGED Memory!vars
  <2>1. CASE Create(e)
    <3>1. {x \in Episodes : status'[x] = "superseded"} = {x \in Episodes : status[x] = "superseded"}
      BY <2>1 DEF Create
    <3> QED
      BY <2>1, <3>1 DEF Create, Memory!vars
  <2>2. ASSUME NEW s \in Statuses \ {"superseded"}, NEW o, Put(o, e, s) PROVE Memory!Next
    <3>1. {x \in Episodes : status'[x] = "superseded"} =
            {x \in Episodes : status[x] = "superseded"} \ {e}
      BY <2>2 DEF Put
    <3> QED
      BY <2>2, <3>1 DEF Put, Memory!Next, Memory!Revive
  <2>3. CASE HardDelete(e)
    <3>1. {x \in Episodes : status'[x] = "superseded"} =
            {x \in Episodes : status[x] = "superseded"} \ {e}
      BY <2>3 DEF HardDelete
    <3> QED
      BY <2>3, <3>1 DEF HardDelete, Memory!Next, Memory!Forget
  <2> QED
    BY <1>3, <2>1, <2>2, <2>3
    DEF EpisodeStep, AppendAttempt, MarkStale, Reject, Archive, Statuses, Usable
<1> QED
  BY <1>1, <1>2, <1>3 DEF Next, vars

\* The supersede endpoint, its row locks and its walk of the chain implement
\* the specification of supersession.
THEOREM Implements == ASSUME LockingOnly PROVE Spec => ImplementsSupersession
<1>1. Init => OnlySupersedes
  BY DEF Init, OnlySupersedes
<1> QED
  BY <1>1, OnlySupersedesInv, InitMaps, StepMaps, WalksAreOwned, PTL
  DEF Spec, ImplementsSupersession, Memory!Spec

\* It closes no cycle (docs/agent-memory.md), however many requests run.
THEOREM ChainsEnd == ASSUME LockingOnly PROVE Spec => []NoCycles
<1>1. Memory!NeverCyclic => NoCycles
  BY DEF Memory!NeverCyclic, NoCycles
<1>2. Memory!Spec => []Memory!NeverCyclic
  BY Memory!AcyclicAlways, EpisodesAssumption
<1> QED
  BY <1>1, <1>2, Implements, PTL DEF ImplementsSupersession

\* A link to a row that is there stays one to a row that is there: the commit's
\* foreign key asks for the row, and the deletion clears the links to its own.
LEMMA LinksStep ==
  ASSUME TypeOK, NoDangling, [Next]_vars
  PROVE  NoDangling'
<1> USE EpisodesAssumption
<1>1. CASE UNCHANGED episodeVars
  BY <1>1 DEF episodeVars, NoDangling, Present
<1>2. ASSUME NEW r \in Requests, NEW old \in Episodes, NEW new \in Episodes, Link(old, new, r)
      PROVE  NoDangling'
  <2>1. Present(new) /\ \A e \in Episodes : Present(e) => Present(e)'
    BY <1>2 DEF Link, Present, TypeOK
  <2>2. \A e \in Episodes : next'[e] \in {next[e], new}
    BY <1>2 DEF Link, TypeOK
  <2> QED
    BY <2>1, <2>2 DEF NoDangling, TypeOK
<1>3. ASSUME NEW e \in Episodes, HardDelete(e)
      PROVE  NoDangling'
  <2>1. \A x \in Episodes : next'[x] # NoEpisode => next'[x] = next[x] /\ next[x] # e
    BY <1>3 DEF HardDelete, TypeOK
  <2>2. \A x \in Episodes : x # e => status'[x] = status[x]
    BY <1>3 DEF HardDelete, TypeOK
  <2> QED
    BY <2>1, <2>2 DEF NoDangling, Present, TypeOK
<1>4. ASSUME NEW e \in Episodes, NEW s \in Statuses \ {"absent", "deleted"},
             status' = [status EXCEPT ![e] = s], UNCHANGED next
      PROVE  NoDangling'
  BY <1>4 DEF NoDangling, Present, TypeOK
<1>5. ASSUME NEW e \in Episodes, EpisodeStep(e), ~HardDelete(e)
      PROVE  NoDangling'
  BY <1>4, <1>5 DEF EpisodeStep, Create, AppendAttempt, MarkStale, Reject, Archive, Put,
                    Statuses, Usable
<1>6. ASSUME NEW r \in Requests, LinkStep(r)
      PROVE  NoDangling'
  <2>1. CASE CommitSupersede(r) \/ CommitMerge(r)
    <3>1. item[r] \in Episodes /\ target[r] \in Episodes
      BY <2>1 DEF CommitSupersede, CommitMerge, TypeOK
    <3> QED
      BY <1>2, <2>1, <3>1 DEF CommitSupersede, CommitMerge
  <2>2. CASE ~CommitSupersede(r) /\ ~CommitMerge(r)
    BY <1>1, <1>6, <2>2 DEF LinkStep, Begin, ReadTarget, Follow, ChainEnds, Abandon
  <2> QED
    BY <2>1, <2>2
<1> QED
  BY <1>1, <1>3, <1>5, <1>6 DEF Next, vars, episodeVars

\* No endpoint, locked or not, leaves superseded_by_id leading nowhere.
THEOREM LinksLead == Spec => []NoDangling
<1>1. Init => NoDangling
  BY DEF Init, NoDangling
<1> QED
  BY <1>1, LinksStep, ChainTypes, PTL DEF Spec
=============================================================================

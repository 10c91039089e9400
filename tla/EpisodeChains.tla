---------------------------- MODULE EpisodeChains ----------------------------
(***************************************************************************)
(* The episodes of the agent memory and the chains in which they supersede  *)
(* each other: apps/api/app/memory/api.py, memory/confidence.py and the     *)
(* memory_feedback and memory_forget tools of mcp_server.py.                *)
(*                                                                         *)
(* A request that supersedes reads several rows in several statements of    *)
(* one transaction (READ COMMITTED); each statement is an action.  The rows *)
(* it selects FOR UPDATE stay locked until it ends, and what it writes       *)
(* becomes visible when it commits.  The requests that read and write one   *)
(* locked row are one action each.  "operations" selects the endpoints a    *)
(* deployment calls, so that a run can tell what each of them keeps.        *)
(***************************************************************************)
CONSTANTS
  Episodes,
  NoEpisode,    \* NULL in superseded_by_id
  Requests,     \* requests in flight that supersede
  Operations    \* the endpoints in use

EndpointKinds == {"supersede", "confidence", "mcp", "merge",
                  "attempt", "stale", "reject", "archive", "delete"}

ASSUME EpisodesAssumption == NoEpisode \notin Episodes
ASSUME OperationsAssumption == Operations \subseteq EndpointKinds

VARIABLES
  status,    \* agent_memory_episodes.status; "absent" before, "deleted" after
  next,      \* superseded_by_id
  locked,    \* the rows each request has selected FOR UPDATE
  pc,        \* where each request is
  op,        \* its endpoint
  item,      \* the episode in its path
  target,    \* the other episode, from its body
  visited,   \* the rows it has read on the way to a cycle
  link,      \* superseded_by_id of the last of them, as it read it
  before     \* status and link of the row it will write, as it read them

episodeVars == <<status, next>>
requestVars == <<locked, pc, op, item, target, visited, link, before>>
vars == <<episodeVars, requestVars>>

-----------------------------------------------------------------------------
\* The specification of what a supersession does, whatever the locks.
Memory == INSTANCE Supersession WITH
            Items <- Episodes, NoItem <- NoEpisode,
            retired <- {e \in Episodes : status[e] = "superseded"}

Usable == {"open", "active", "degraded"}
Statuses == Usable \cup {"superseded", "rejected", "archived", "absent", "deleted"}

Present(e) == status[e] \notin {"absent", "deleted"}

\* The requests that walk the chain of the replacement before they commit.
Walkers == {"supersede", "confidence", "mcp"}

Row(e) == [status |-> status[e], next |-> next[e]]
NoRow == [status |-> "absent", next |-> NoEpisode]

\* Nobody but r holds the lock of the row.
Free(e, r) == \A q \in Requests \ {r} : e \notin locked[q]
Unlocked(e) == \A q \in Requests : e \notin locked[q]

Init ==
  /\ status = [e \in Episodes |-> "absent"]
  /\ next = [e \in Episodes |-> NoEpisode]
  /\ locked = [r \in Requests |-> {}]
  /\ pc = [r \in Requests |-> "idle"]
  /\ op = [r \in Requests |-> "none"]
  /\ item = [r \in Requests |-> NoEpisode]
  /\ target = [r \in Requests |-> NoEpisode]
  /\ visited = [r \in Requests |-> {}]
  /\ link = [r \in Requests |-> NoEpisode]
  /\ before = [r \in Requests |-> NoRow]

-----------------------------------------------------------------------------
(* A request that links two episodes.                                       *)

\* It reads the episode of its path, locked except by the MCP server.
Begin(r, o, e, t) ==
  /\ pc[r] = "idle"
  /\ o \in Operations \cap (Walkers \cup {"merge"})
  /\ e # t
  /\ Present(e)
  /\ o # "mcp" => Free(e, r)
  /\ locked' = [locked EXCEPT ![r] = IF o = "mcp" THEN {} ELSE {e}]
  /\ pc' = [pc EXCEPT ![r] = "target"]
  /\ op' = [op EXCEPT ![r] = o]
  /\ item' = [item EXCEPT ![r] = e]
  /\ target' = [target EXCEPT ![r] = t]
  /\ before' = [before EXCEPT ![r] = Row(e)]
  /\ UNCHANGED <<episodeVars, visited, link>>

\* Mutant: the replacement is read and checked without its lock.
ReadTargetUnlocked(r) ==
  /\ pc[r] = "target"
  /\ Present(target[r])
  /\ op[r] = "supersede" => status[item[r]] # "superseded" /\ status[target[r]] # "superseded"
  /\ visited' = [visited EXCEPT ![r] = {item[r], target[r]}]
  /\ link' = [link EXCEPT ![r] = next[target[r]]]
  /\ pc' = [pc EXCEPT ![r] = IF op[r] = "merge" THEN "commit" ELSE "walk"]
  /\ before' = [before EXCEPT ![r] = IF op[r] = "merge" THEN Row(target[r]) ELSE @]
  /\ UNCHANGED <<episodeVars, locked, op, item, target>>

\* It reads the other episode; only the supersede endpoint locks it and
\* asks whether either is superseded.
ReadTarget(r) ==
  /\ pc[r] = "target"
  /\ Present(target[r])
  /\ op[r] = "supersede" =>
       /\ Free(target[r], r)
       /\ status[item[r]] # "superseded"
       /\ status[target[r]] # "superseded"
  /\ locked' = [locked EXCEPT ![r] = IF op[r] = "supersede" THEN @ \cup {target[r]} ELSE @]
  /\ visited' = [visited EXCEPT ![r] = {item[r], target[r]}]
  /\ link' = [link EXCEPT ![r] = next[target[r]]]
  /\ pc' = [pc EXCEPT ![r] = IF op[r] = "merge" THEN "commit" ELSE "walk"]
  /\ before' = [before EXCEPT ![r] = IF op[r] = "merge" THEN Row(target[r]) ELSE @]
  /\ UNCHANGED <<episodeVars, op, item, target>>

\* Mutant: the rows of the chain are read without their locks.
FollowUnlocked(r) ==
  /\ pc[r] = "walk"
  /\ link[r] # NoEpisode
  /\ link[r] \notin visited[r]
  /\ Present(link[r])
  /\ visited' = [visited EXCEPT ![r] = @ \cup {link[r]}]
  /\ link' = [link EXCEPT ![r] = next[link[r]]]
  /\ UNCHANGED <<episodeVars, locked, pc, op, item, target, before>>

\* It reads the next row of the chain, which must not be one it has seen.
Follow(r) ==
  /\ pc[r] = "walk"
  /\ link[r] # NoEpisode
  /\ link[r] \notin visited[r]
  /\ Present(link[r])
  /\ op[r] = "supersede" => Free(link[r], r)
  /\ locked' = [locked EXCEPT ![r] = IF op[r] = "supersede" THEN @ \cup {link[r]} ELSE @]
  /\ visited' = [visited EXCEPT ![r] = @ \cup {link[r]}]
  /\ link' = [link EXCEPT ![r] = next[link[r]]]
  /\ UNCHANGED <<episodeVars, pc, op, item, target, before>>

\* The chain ends; so it does where an unlocked read finds the row deleted.
ChainEnds(r) ==
  /\ pc[r] = "walk"
  /\ link[r] # NoEpisode => op[r] # "supersede" /\ ~Present(link[r])
  /\ pc' = [pc EXCEPT ![r] = "commit"]
  /\ UNCHANGED <<episodeVars, locked, op, item, target, visited, link, before>>

\* Mutant: a request that ends leaves its rows locked.
EndRequestLocked(r) ==
  /\ pc' = [pc EXCEPT ![r] = "idle"]
  /\ op' = [op EXCEPT ![r] = "none"]
  /\ item' = [item EXCEPT ![r] = NoEpisode]
  /\ target' = [target EXCEPT ![r] = NoEpisode]
  /\ visited' = [visited EXCEPT ![r] = {}]
  /\ link' = [link EXCEPT ![r] = NoEpisode]
  /\ before' = [before EXCEPT ![r] = NoRow]
  /\ UNCHANGED locked

EndRequest(r) ==
  /\ locked' = [locked EXCEPT ![r] = {}]
  /\ pc' = [pc EXCEPT ![r] = "idle"]
  /\ op' = [op EXCEPT ![r] = "none"]
  /\ item' = [item EXCEPT ![r] = NoEpisode]
  /\ target' = [target EXCEPT ![r] = NoEpisode]
  /\ visited' = [visited EXCEPT ![r] = {}]
  /\ link' = [link EXCEPT ![r] = NoEpisode]
  /\ before' = [before EXCEPT ![r] = NoRow]

\* The row written and the row it refers to must not be locked by another
\* request: the update takes the lock of the first, the foreign key a share
\* of the second, which must exist.  Columns that already had the new value
\* when the row was read are not written.
Link(old, new, r) ==
  /\ Present(old) /\ Present(new)
  /\ Free(old, r) /\ Free(new, r)
  /\ status' = [status EXCEPT ![old] =
                  IF before[r].status = "superseded" THEN @ ELSE "superseded"]
  /\ next' = [next EXCEPT ![old] = IF before[r].next = new THEN @ ELSE new]

CommitSupersede(r) ==
  /\ pc[r] = "commit"
  /\ op[r] \in Walkers
  /\ Link(item[r], target[r], r)
  /\ EndRequest(r)

\* A merge keeps the episode of the path and supersedes the other one.
CommitMerge(r) ==
  /\ pc[r] = "commit"
  /\ op[r] = "merge"
  /\ Link(target[r], item[r], r)
  /\ EndRequest(r)

\* The request is refused, cancelled, the victim of a deadlock, or fails on a
\* row that has gone: the transaction rolls back.
Abandon(r) ==
  /\ pc[r] # "idle"
  /\ EndRequest(r)
  /\ UNCHANGED episodeVars

-----------------------------------------------------------------------------
(* The requests that read and write the row of one episode under its lock.  *)
(* Those of the MCP server take no lock, but what they write does not        *)
(* depend on what they read, so they too take effect when they commit.       *)

Create(e) ==
  /\ status[e] = "absent"
  /\ status' = [status EXCEPT ![e] = "open"]
  /\ UNCHANGED <<next, requestVars>>

\* Sets the status of an episode nobody has locked.
Put(o, e, s) ==
  /\ o \in Operations
  /\ Present(e) /\ Unlocked(e)
  /\ status' = [status EXCEPT ![e] = s]
  /\ UNCHANGED <<next, requestVars>>

AppendAttempt(e) ==
  /\ status[e] \in Usable
  /\ \E s \in {"active", "degraded"} : Put("attempt", e, s)

MarkStale(e) == Put("stale", e, "degraded")
Reject(e) == Put("reject", e, "rejected")
Archive(e) == Put("archive", e, "archived")

\* Mutant: the links to a deleted episode are left.
DeleteOnly(e) ==
  /\ "delete" \in Operations
  /\ Present(e)
  /\ Unlocked(e)
  /\ status' = [status EXCEPT ![e] = "deleted"]
  /\ next' = [next EXCEPT ![e] = NoEpisode]
  /\ UNCHANGED requestVars

\* The foreign key sets the links to the episode to NULL.
HardDelete(e) ==
  /\ "delete" \in Operations
  /\ Present(e)
  /\ \A x \in Episodes : x = e \/ next[x] = e => Unlocked(x)
  /\ status' = [status EXCEPT ![e] = "deleted"]
  /\ next' = [x \in Episodes |-> IF x = e \/ next[x] = e THEN NoEpisode ELSE next[x]]
  /\ UNCHANGED requestVars

-----------------------------------------------------------------------------
LinkStep(r) ==
  \/ \E o \in Operations, e, t \in Episodes : Begin(r, o, e, t)
  \/ ReadTarget(r) \/ Follow(r) \/ ChainEnds(r)
  \/ CommitSupersede(r) \/ CommitMerge(r) \/ Abandon(r)

EpisodeStep(e) ==
  \/ Create(e)
  \/ AppendAttempt(e) \/ MarkStale(e) \/ Reject(e) \/ Archive(e)
  \/ HardDelete(e)

Next == (\E r \in Requests : LinkStep(r)) \/ (\E e \in Episodes : EpisodeStep(e))

Spec == Init /\ [][Next]_vars

-----------------------------------------------------------------------------
PcStates == {"idle", "target", "walk", "commit"}

\* Every column and request has its type; an idle request holds no lock.
TypeOK ==
  /\ status \in [Episodes -> Statuses]
  /\ next \in [Episodes -> Episodes \cup {NoEpisode}]
  /\ locked \in [Requests -> SUBSET Episodes]
  /\ pc \in [Requests -> PcStates]
  /\ op \in [Requests -> Walkers \cup {"merge", "none"}]
  /\ item \in [Requests -> Episodes \cup {NoEpisode}]
  /\ target \in [Requests -> Episodes \cup {NoEpisode}]
  /\ visited \in [Requests -> SUBSET Episodes]
  /\ link \in [Requests -> Episodes \cup {NoEpisode}]
  /\ before \in [Requests -> [status : Statuses, next : Episodes \cup {NoEpisode}]]
  /\ \A r \in Requests : IF pc[r] = "idle" THEN locked[r] = {}
                          ELSE {item[r], target[r]} \subseteq Episodes

\* Following superseded_by_id never returns to an episode already seen.
\* docs/agent-memory.md says that the system prevents cycles.
NoCycles == Memory!Acyclic(next)

\* No link leads to an episode that does not exist.
NoDangling == \A e \in Episodes : next[e] # NoEpisode => Present(next[e])

\* The supersede endpoint, whatever else runs, takes effect at once although
\* it reads a whole chain in many statements: when it commits, both episodes
\* are still current and the chain of the replacement still leads elsewhere.
AtomicSupersession ==
  [][\A r \in Requests :
       op[r] = "supersede" /\ CommitSupersede(r) => Memory!Supersede(item[r], target[r])]_vars

\* Where nothing but the supersede endpoint links episodes, it implements the
\* specification of supersession.
ImplementsSupersession == Memory!Spec

-----------------------------------------------------------------------------
(* Why the locks are enough: a request owns the rows it has seen, nobody else *)
(* writes them, and what it has seen is closed up to the link it follows.    *)

LocksAreExclusive ==
  \A r, q \in Requests : r # q => locked[r] \cap locked[q] = {}

\* The rows a request has seen on the way from its replacement.
Seen(r) == visited[r] \ {item[r]}

WalkIsOwned(r) ==
  /\ pc[r] # "idle" => op[r] # "none"
  /\ op[r] = "supersede" =>
       /\ item[r] \in locked[r]
       /\ target[r] \in Episodes \ {item[r]}
       /\ before[r] = Row(item[r])
  /\ op[r] = "supersede" /\ pc[r] \in {"walk", "commit"} =>
       /\ visited[r] \subseteq locked[r]
       /\ {item[r], target[r]} \subseteq visited[r]
       /\ status[item[r]] # "superseded"
       /\ status[target[r]] # "superseded"
       /\ \A e \in Seen(r) : next[e] \in Seen(r) \cup {NoEpisode, link[r]}
  /\ op[r] = "supersede" /\ pc[r] = "commit" => link[r] = NoEpisode

LocksArePresent == \A r \in Requests : \A e \in locked[r] : Present(e)

ChainInv ==
  /\ TypeOK
  /\ LocksAreExclusive
  /\ LocksArePresent
  /\ \A r \in Requests : WalkIsOwned(r)
=============================================================================

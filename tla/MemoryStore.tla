---------------------------- MODULE MemoryStore ----------------------------
(***************************************************************************)
(* The agent memory of one project beside its chains (EpisodeChains): the   *)
(* outcomes and attempts of episodes, the patterns they teach, the keys     *)
(* that make a retried request harmless, legal holds and retention, and the *)
(* import of another project: memory/api.py, memory/service.py,             *)
(* mcp_server.py, idempotency.py, legal_hold.py, retention.py and           *)
(* export_import.py under apps/api/app.                                     *)
(*                                                                         *)
(* A request is one transaction (READ COMMITTED) of several statements, and *)
(* each statement that reads is an action: what a request writes appears    *)
(* when it commits, all at once, and the locks it took are released then.   *)
(* A request may end early at any point: the client is gone, or the         *)
(* database chose it as the victim of a deadlock.                           *)
(*                                                                         *)
(* Weights are counted in tenths: ci 10, test 6, self_report 2, and one     *)
(* point of feedback 1.                                                     *)
(***************************************************************************)
EXTENDS Integers, FiniteSets, FiniteSetsExt

CONSTANTS
  Episodes,     \* identifiers of episodes
  Patterns,     \* the keys outcomes are collected under
  NoPattern,
  Tokens,       \* idempotency keys of clients
  NoToken,
  Requests,     \* requests in flight
  Qualities,    \* weights of the best passing verifier
  Scores,       \* points of feedback
  Deployments,  \* the sets of endpoints in use, one for each behaviour
  MaxAttempts,  \* attempts per episode
  MaxFeedback,  \* bound on the feedback to a pattern
  MaxHolds      \* bound on the legal holds at one time

ASSUME MemoryAssumption ==
  /\ NoPattern \notin Patterns /\ NoToken \notin Tokens
  /\ Qualities \subseteq {0, 2, 6, 10} /\ Scores \subseteq {-1, 0, 1}
  /\ MaxAttempts \in Nat /\ MaxFeedback \in Nat /\ MaxHolds \in Nat

VARIABLES
  using,     \* the endpoints the clients of this deployment call
  status,    \* agent_memory_episodes.status, "absent" before, "deleted" after
  attempts,  \* the sequence numbers of an episode's attempts
  outcome,   \* the pattern key of an episode's outcome
  pattern,   \* the rows of agent_memory_patterns
  tokens,    \* the rows of idempotency_keys
  holds,     \* the rows of legal_holds
  req,       \* what each request has read and is about to do
  locks,     \* the rows and advisory locks each request holds
  late,      \* the holds placed after a request read the holds
  judged,    \* how often each pattern was judged, to bound it
  tally,     \* the weights each pattern should have, for the properties
  made,      \* the episodes created under each idempotency key
  collided   \* the unique constraints that made a commit fail

episodeRows == <<status, attempts, outcome>>
memRows == <<episodeRows, pattern, tokens, holds>>
memHistory == <<judged, tally, made, collided>>
requestVars == <<req, locks, late>>
memVars == <<using, memRows, requestVars, memHistory>>

-----------------------------------------------------------------------------
Usable == {"open", "active", "degraded"}
Removable == {"archived", "superseded", "rejected"}
EpisodeStatuses == Usable \cup Removable

Exists(e) == status[e] \in EpisodeStatuses

NoWeights == [count |-> 0, total |-> 0, gained |-> 0]

\* (successes + 1) / (total + 2) is at least 0.7, the weights in tenths
\* and the successes kept between none and all of them.
Confident(w) ==
  LET won == Min({w.total, w.gained}) IN 10 * (won + 10) >= 7 * (w.total + 20)

IsPromoted(w) == w.count >= 3 /\ Confident(w)

\* What an outcome adds: a full success its weight, a partial one half of it.
Counted(w, quality, halves) ==
  [count |-> w.count + (IF quality > 0 THEN 1 ELSE 0),
   total |-> w.total + quality,
   gained |-> w.gained + (quality * halves) \div 2]

\* What feedback changes, and never below nothing.
Judged(w, score) == [w EXCEPT !.gained = Max({0, @ + score})]

NewPattern == [here |-> TRUE, w |-> NoWeights, promoted |-> FALSE, by |-> NoPattern]
Unlearned == [NewPattern EXCEPT !.here = FALSE]

\* A pattern with two verified successes, one short of a promotion.
Seasoned == [NewPattern EXCEPT !.w = [count |-> 2, total |-> 20, gained |-> 20]]

EpisodeRow(e) == <<"episode", e>>
PatternRow(k) == <<"pattern", k>>
Advisory(k) == <<"key", k>>

\* Nobody else holds the lock.
Grantable(r, lock) == \A q \in Requests \ {r} : lock \notin locks[q]
Unlocked(lock) == \A q \in Requests : lock \notin locks[q]

-----------------------------------------------------------------------------
(* Requests.                                                                *)

Idle == [pc |-> "idle"]
Busy(r, pc) == req[r].pc = pc

Answered(r) ==
  /\ req' = [req EXCEPT ![r] = Idle]
  /\ locks' = [locks EXCEPT ![r] = {}]
  /\ late' = [late EXCEPT ![r] = {}]

Goes(r, state, taken) ==
  /\ req' = [req EXCEPT ![r] = state]
  /\ locks' = [locks EXCEPT ![r] = @ \cup taken]
  /\ UNCHANGED <<using, memRows, memHistory, late>>

Starts(r, endpoint) == req[r] = Idle /\ endpoint \in using

\* A unique constraint refuses the rows: the transaction is rolled back.
Refused(r, constraint) ==
  /\ Answered(r)
  /\ collided' = collided \cup {constraint}
  /\ UNCHANGED <<using, memRows, judged, tally, made>>

Abandon(r) ==
  /\ req[r] # Idle
  /\ Answered(r)
  /\ UNCHANGED <<using, memRows, memHistory>>

-----------------------------------------------------------------------------
(* POST /episodes/{id}/outcomes: the row of the episode, the advisory lock   *)
(* of the pattern key, the row of the pattern, and the commit.              *)

BeginOutcome(r, e, k, quality, halves) ==
  /\ Starts(r, "outcome")
  /\ Exists(e) /\ status[e] \notin {"superseded", "rejected"}
  /\ outcome[e] = NoPattern
  /\ Grantable(r, EpisodeRow(e))
  /\ Goes(r, [pc |-> "key", item |-> e, key |-> k, quality |-> quality, halves |-> halves],
          {EpisodeRow(e)})

\* *Mutant:* the lock of the key is not taken.
LockNoKey(r) ==
  /\ Busy(r, "key")
  /\ Goes(r, [req[r] EXCEPT !.pc = "pattern"], {})

LockKey(r) ==
  /\ Busy(r, "key")
  /\ Grantable(r, Advisory(req[r].key))
  /\ Goes(r, [req[r] EXCEPT !.pc = "pattern"], {Advisory(req[r].key)})

\* *Mutant:* the pattern is read without FOR UPDATE.
NoPatternLock(r, k) == {}

\* What a request that will change the pattern locks.
PatternLock(r, k) == IF pattern[k].here THEN {PatternRow(k)} ELSE {}

ReadPattern(r) ==
  LET k == req[r].key IN
  /\ Busy(r, "pattern")
  /\ \A lock \in PatternLock(r, k) : Grantable(r, lock)
  /\ LET write == [pc |-> "outcome", item |-> req[r].item, key |-> k, new |-> ~pattern[k].here,
                   quality |-> req[r].quality, halves |-> req[r].halves,
                   read |-> pattern[k].w]
     IN Goes(r, write, PatternLock(r, k))

CommitOutcome(r) ==
  LET q == req[r]
      w == Counted(q.read, q.quality, q.halves)
  IN
  /\ Busy(r, "outcome")
  /\ Grantable(r, PatternRow(q.key))
  /\ IF q.new /\ pattern[q.key].here
     THEN Refused(r, "uq_agent_memory_pattern_key")
     ELSE IF outcome[q.item] # NoPattern
     THEN Refused(r, "uq_agent_memory_final_outcome_episode")
     ELSE /\ pattern' = [pattern EXCEPT ![q.key] =
                           [@ EXCEPT !.here = TRUE, !.w = w, !.promoted = IsPromoted(w)]]
          /\ outcome' = [outcome EXCEPT ![q.item] = q.key]
          /\ tally' = [tally EXCEPT ![q.key] = Counted(@, q.quality, q.halves)]
          /\ Answered(r)
          /\ UNCHANGED <<using, status, attempts, tokens, holds, judged, made, collided>>

-----------------------------------------------------------------------------
(* POST /patterns/{key}/feedback and /patterns/{key}/supersede.             *)

BeginJudge(r, k, score) ==
  /\ Starts(r, "judge")
  /\ pattern[k].here
  /\ \A lock \in PatternLock(r, k) : Grantable(r, lock)
  /\ Goes(r, [pc |-> "judge", key |-> k, score |-> score, read |-> pattern[k].w],
          PatternLock(r, k))

CommitJudge(r) ==
  LET q == req[r]
      w == Judged(q.read, q.score)
  IN
  /\ Busy(r, "judge")
  /\ Grantable(r, PatternRow(q.key))
  /\ judged[q.key] < MaxFeedback
  /\ pattern' = [pattern EXCEPT ![q.key].w = w, ![q.key].promoted = IsPromoted(w)]
  /\ tally' = [tally EXCEPT ![q.key] = Judged(@, q.score)]
  /\ judged' = [judged EXCEPT ![q.key] = @ + 1]
  /\ Answered(r)
  /\ UNCHANGED <<using, episodeRows, tokens, holds, made, collided>>

BeginReplace(r, k, by) ==
  /\ Starts(r, "replace")
  /\ k # by
  /\ pattern[k].here
  /\ Grantable(r, PatternRow(k))
  /\ Goes(r, [pc |-> "replacement", key |-> k, by |-> by, superseded |-> pattern[k].by],
          {PatternRow(k)})

\* *Mutant:* the replacement is read without FOR UPDATE.
ReadReplacementUnlocked(r) ==
  LET q == req[r] IN
  /\ Busy(r, "replacement")
  /\ pattern[q.by].here
  /\ q.superseded = NoPattern /\ pattern[q.by].by = NoPattern
  /\ Goes(r, [pc |-> "replace", key |-> q.key, by |-> q.by], {})

\* Neither is superseded, so that the walk to a cycle ends at the replacement.
ReadReplacement(r) ==
  LET q == req[r] IN
  /\ Busy(r, "replacement")
  /\ Grantable(r, PatternRow(q.by))
  /\ pattern[q.by].here
  /\ q.superseded = NoPattern /\ pattern[q.by].by = NoPattern
  /\ Goes(r, [pc |-> "replace", key |-> q.key, by |-> q.by], {PatternRow(q.by)})

CommitReplace(r) ==
  LET q == req[r] IN
  /\ Busy(r, "replace")
  /\ pattern' = [pattern EXCEPT ![q.key].promoted = FALSE, ![q.key].by = q.by]
  /\ Answered(r)
  /\ UNCHANGED <<using, episodeRows, tokens, holds, memHistory>>

-----------------------------------------------------------------------------
(* POST /episodes/{id}/attempts.                                            *)

BeginAttempt(r, e, s) ==
  /\ Starts(r, "attempt")
  /\ status[e] \in Usable
  /\ Grantable(r, EpisodeRow(e))
  /\ Goes(r, [pc |-> "sequence", item |-> e, status |-> s], {EpisodeRow(e)})

ReadSequence(r) ==
  /\ Busy(r, "sequence")
  /\ LET last == Max(attempts[req[r].item] \cup {0})
     IN /\ last < MaxAttempts
        /\ Goes(r, [pc |-> "attempt", item |-> req[r].item, status |-> req[r].status,
                    number |-> last + 1], {})

CommitAttempt(r) ==
  LET q == req[r] IN
  /\ Busy(r, "attempt")
  /\ Grantable(r, EpisodeRow(q.item))
  /\ IF q.number \in attempts[q.item]
     THEN Refused(r, "uq_agent_memory_attempt_sequence")
     ELSE /\ attempts' = [attempts EXCEPT ![q.item] = @ \cup {q.number}]
          /\ status' = [status EXCEPT ![q.item] = q.status]
          /\ Answered(r)
          /\ UNCHANGED <<using, outcome, pattern, tokens, holds, memHistory>>

-----------------------------------------------------------------------------
(* POST /episodes and the memory_observe and memory_commit tools.           *)

\* The request the key stands for has been answered.
Replayed(t, operation) == t # NoToken /\ tokens[t].operation = operation

\* A retry is answered with the episode, unless it has been deleted since.
BeginCreate(r, t) ==
  /\ Starts(r, "create")
  /\ ~(Replayed(t, "episode.create") /\ \A e \in tokens[t].item : Exists(e))
  /\ Goes(r, [pc |-> "create", token |-> t], {})

\* *Mutant:* the primary key of idempotency_keys is not there.
TokenUnchecked(t) == FALSE

\* Another request has stored the key.
TokenTaken(t) == t # NoToken /\ tokens[t].item # {}

Stored(t, operation, e) ==
  IF t = NoToken THEN tokens
  ELSE [tokens EXCEPT ![t] = [operation |-> operation, item |-> {e}]]

CommitCreate(r, e) ==
  LET t == req[r].token IN
  /\ Busy(r, "create")
  /\ status[e] = "absent"
  /\ IF TokenTaken(t)
     THEN Refused(r, "idempotency_keys_pkey")
     ELSE /\ status' = [status EXCEPT ![e] = "open"]
          /\ tokens' = Stored(t, "episode.create", e)
          /\ made' = [x \in Tokens |-> IF x = t THEN made[x] \cup {e} ELSE made[x]]
          /\ Answered(r)
          /\ UNCHANGED <<using, attempts, outcome, pattern, holds, judged, tally, collided>>

-----------------------------------------------------------------------------
(* Legal holds: on one episode, as an episode or as a memory, or on the     *)
(* project.  A request that has read the holds does not see later ones.     *)

ProjectHold == <<"project", "all">>
HoldKinds == ({"episode", "memory"} \X Episodes) \cup {ProjectHold}

\* The holds that forbid to delete an episode.
HoldsOn(e) == {h \in holds : h = ProjectHold \/ h[2] = e}

ReadTheHolds == {"holds", "items", "delete", "retain"}

PlaceHold(h) ==
  /\ "hold" \in using
  /\ h \notin holds /\ Cardinality(holds) < MaxHolds
  /\ h[1] = "episode" => Exists(h[2])
  /\ holds' = holds \cup {h}
  /\ late' = [r \in Requests |-> IF req[r].pc \in ReadTheHolds THEN late[r] \cup {h} ELSE late[r]]
  /\ UNCHANGED <<using, episodeRows, pattern, tokens, req, locks, memHistory>>

LiftHold(h) ==
  /\ "hold" \in using
  /\ h \in holds
  /\ holds' = holds \ {h}
  /\ UNCHANGED <<using, episodeRows, pattern, tokens, requestVars, memHistory>>

-----------------------------------------------------------------------------
(* Episodes are archived, rejected and deleted: DELETE /episodes/{id}, which *)
(* locks the row, and the memory_forget tool, which does not.               *)

\* Its outcome and attempts go with an episode; the pattern keeps the weight.
Removed(gone) ==
  /\ status' = [e \in Episodes |-> IF e \in gone THEN "deleted" ELSE status[e]]
  /\ attempts' = [e \in Episodes |-> IF e \in gone THEN {} ELSE attempts[e]]
  /\ outcome' = [e \in Episodes |-> IF e \in gone THEN NoPattern ELSE outcome[e]]

\* Archives or rejects the episode while it holds its row.
Retire(e, s) ==
  /\ "retire" \in using
  /\ Exists(e)
  /\ Unlocked(EpisodeRow(e))
  /\ status' = [status EXCEPT ![e] = s]
  /\ UNCHANGED <<using, attempts, outcome, pattern, tokens, holds, requestVars, memHistory>>

BeginDelete(r, e) ==
  /\ Starts(r, "delete")
  /\ Exists(e)
  /\ Grantable(r, EpisodeRow(e))
  /\ Goes(r, [pc |-> "check", item |-> e, token |-> NoToken], {EpisodeRow(e)})

\* The tool answers a key it knows, and then reads the episode.
BeginForget(r, e, t) ==
  /\ Starts(r, "forget_hard")
  /\ ~Replayed(t, "memory.forget")
  /\ Exists(e)
  /\ Goes(r, [pc |-> "check", item |-> e, token |-> t], {})

BeginForgetSoftly(r, e, t, s) ==
  /\ Starts(r, "forget_soft")
  /\ ~Replayed(t, "memory.forget")
  /\ Exists(e)
  /\ Goes(r, [pc |-> "forget", item |-> e, token |-> t, from |-> status[e], to |-> s], {})

CheckHolds(r) ==
  /\ Busy(r, "check")
  /\ HoldsOn(req[r].item) = {}
  /\ Goes(r, [req[r] EXCEPT !.pc = "delete"], {})

\* A row that is gone by now is no error.
CommitDelete(r) ==
  LET q == req[r] IN
  /\ Busy(r, "delete")
  /\ Grantable(r, EpisodeRow(q.item))
  /\ IF TokenTaken(q.token)
     THEN Refused(r, "idempotency_keys_pkey")
     ELSE /\ Removed({q.item})
          /\ tokens' = Stored(q.token, "memory.forget", q.item)
          /\ Answered(r)
          /\ UNCHANGED <<using, pattern, holds, memHistory>>

\* A status that is what the tool read is not written; the row must be there.
CommitForget(r) ==
  LET q == req[r] IN
  /\ Busy(r, "forget")
  /\ Grantable(r, EpisodeRow(q.item))
  /\ Exists(q.item)
  /\ IF TokenTaken(q.token)
     THEN Refused(r, "idempotency_keys_pkey")
     ELSE /\ status' = [status EXCEPT ![q.item] = IF q.from = q.to THEN @ ELSE q.to]
          /\ tokens' = Stored(q.token, "memory.forget", q.item)
          /\ Answered(r)
          /\ UNCHANGED <<using, attempts, outcome, pattern, holds, memHistory>>

-----------------------------------------------------------------------------
(* POST /v1/retention/apply: it reads whether the project is held, the holds, *)
(* the episodes that are old enough, and writes without having locked them.  *)

BeginRetention(r, action) ==
  /\ Starts(r, "retain")
  /\ ProjectHold \notin holds
  /\ Goes(r, [pc |-> "holds", action |-> action], {})

\* *Mutant:* the holds on memories are forgotten.
HeldAsEpisodes == {h[2] : h \in {x \in holds : x[1] = "episode"}}

\* The episodes a retention run leaves alone.
Held == {h[2] : h \in holds \ {ProjectHold}}

ReadHolds(r) ==
  /\ Busy(r, "holds")
  /\ Goes(r, [pc |-> "items", action |-> req[r].action, held |-> Held], {})

ReadItems(r, old) ==
  LET q == req[r]
      eligible == IF q.action = "archive" THEN {"active", "open"} ELSE Removable
  IN
  /\ Busy(r, "items")
  /\ Goes(r, [pc |-> "retain", action |-> q.action,
              items |-> {e \in old : status[e] \in eligible} \ q.held], {})

\* A row to archive that is gone aborts the run; one to delete does not.
CommitRetention(r) ==
  LET q == req[r] IN
  /\ Busy(r, "retain")
  /\ \A e \in q.items : Grantable(r, EpisodeRow(e))
  /\ IF q.action = "archive"
     THEN /\ \A e \in q.items : Exists(e)
          /\ status' = [e \in Episodes |-> IF e \in q.items THEN "archived" ELSE status[e]]
          /\ UNCHANGED <<attempts, outcome>>
     ELSE Removed(q.items)
  /\ Answered(r)
  /\ UNCHANGED <<using, pattern, tokens, holds, memHistory>>

-----------------------------------------------------------------------------
(* POST /v1/export-import/{id}/import: an episode that is not here comes     *)
(* with its status, attempts and outcome, and without a pattern.            *)

Import(e, s, n, k) ==
  /\ "import" \in using
  /\ ~Exists(e)
  /\ status' = [status EXCEPT ![e] = s]
  /\ attempts' = [attempts EXCEPT ![e] = 1..n]
  /\ outcome' = [outcome EXCEPT ![e] = k]
  /\ UNCHANGED <<using, pattern, tokens, holds, requestVars, memHistory>>

-----------------------------------------------------------------------------
MemInit ==
  /\ using \in Deployments
  /\ status \in [Episodes -> {"absent", "open"}]
  /\ attempts = [e \in Episodes |-> {}]
  /\ outcome = [e \in Episodes |-> NoPattern]
  /\ pattern \in [Patterns -> {Unlearned, Seasoned}]
  /\ using \cap {"outcome", "judge", "replace"} = {} => \A k \in Patterns : ~pattern[k].here
  /\ tokens = [t \in Tokens |-> [operation |-> "none", item |-> {}]]
  /\ holds = {}
  /\ req = [r \in Requests |-> Idle]
  /\ locks = [r \in Requests |-> {}]
  /\ late = [r \in Requests |-> {}]
  /\ judged = [k \in Patterns |-> 0]
  /\ tally = [k \in Patterns |-> pattern[k].w]
  /\ made = [t \in Tokens |-> {}]
  /\ collided = {}

LearnStep(r) ==
  \/ \E e \in Episodes, k \in Patterns, quality \in Qualities, halves \in 0..2 :
       BeginOutcome(r, e, k, quality, halves)
  \/ LockKey(r)
  \/ ReadPattern(r)
  \/ CommitOutcome(r)
  \/ \E k \in Patterns, score \in Scores : BeginJudge(r, k, score)
  \/ CommitJudge(r)
  \/ \E k, by \in Patterns : BeginReplace(r, k, by)
  \/ ReadReplacement(r)
  \/ CommitReplace(r)

EpisodeStep(r) ==
  \/ \E e \in Episodes, s \in {"active", "degraded"} : BeginAttempt(r, e, s)
  \/ ReadSequence(r)
  \/ CommitAttempt(r)
  \/ \E t \in Tokens \cup {NoToken} : BeginCreate(r, t)
  \/ \E e \in Episodes : CommitCreate(r, e)

RemovalStep(r) ==
  \/ \E e \in Episodes : BeginDelete(r, e)
  \/ \E e \in Episodes, t \in Tokens \cup {NoToken} : BeginForget(r, e, t)
  \/ \E e \in Episodes, t \in Tokens \cup {NoToken}, s \in {"archived", "rejected"} :
       BeginForgetSoftly(r, e, t, s)
  \/ CheckHolds(r)
  \/ CommitDelete(r)
  \/ CommitForget(r)
  \/ \E action \in {"archive", "delete"} : BeginRetention(r, action)
  \/ ReadHolds(r)
  \/ \E old \in SUBSET Episodes : ReadItems(r, old)
  \/ CommitRetention(r)

MemNext ==
  \/ \E r \in Requests : LearnStep(r) \/ EpisodeStep(r) \/ RemovalStep(r) \/ Abandon(r)
  \/ \E h \in HoldKinds : PlaceHold(h) \/ LiftHold(h)
  \/ \E e \in Episodes, s \in {"archived", "rejected"} : Retire(e, s)
  \/ \E e \in Episodes, s \in EpisodeStatuses, n \in {0, MaxAttempts - 1},
        k \in Patterns \cup {NoPattern} : Import(e, s, n, k)

MemSpec == MemInit /\ [][MemNext]_memVars

-----------------------------------------------------------------------------
Endpoints == {"outcome", "judge", "replace", "attempt", "create", "retire", "delete",
              "forget_hard", "forget_soft", "retain", "hold", "import"}

\* A pattern holds the weight of every outcome and every feedback that was
\* accepted, none lost to another request, and it is promoted for no less.
PatternsCountOutcomes ==
  \A k \in Patterns :
    /\ pattern[k].w = tally[k]
    /\ pattern[k].promoted => IsPromoted(tally[k])

\* Requests that passed their checks are not refused when they commit: the
\* locks order the outcomes of a key and the outcomes and attempts of an
\* episode.  Only two uses of one idempotency key meet a constraint.
NothingCollides == collided \subseteq {"idempotency_keys_pkey"}

\* The replacements of patterns implement the specification of supersession.
PatternChains == INSTANCE Supersession WITH
                   Items <- Patterns, NoItem <- NoPattern,
                   next <- [k \in Patterns |-> pattern[k].by],
                   retired <- {k \in Patterns : pattern[k].by # NoPattern}

PatternsImplementSupersession == PatternChains!Spec

\* A key makes one episode, however often and however concurrently the
\* request is sent.
OneEpisodePerKey == \A t \in Tokens : Cardinality(made[t]) <= 1

\* An episode under a legal hold is deleted only when the hold was placed
\* after the request that deletes it had read the holds.
HeldEpisodesStay ==
  [][\A e \in Episodes :
       Exists(e) /\ status'[e] = "deleted" =>
         \E r \in Requests : /\ req[r] # Idle /\ req'[r] = Idle
                             /\ HoldsOn(e) \subseteq late[r]]_memVars
=============================================================================

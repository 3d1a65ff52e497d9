------------------------------ MODULE Prefetch ------------------------------
(***************************************************************************)
(* Background prefetch: the coordinator's worker thread (zmem-svc          *)
(* main.rs), the sessions it rotates between (PrefetchSession in zmem-svc  *)
(* lib.rs) and the staging tables they write (zmem-store lib.rs and        *)
(* demand.rs): quota, pins, checkpoints, reclamation and its LRU order,    *)
(* next to the trails and index jobs of the foreground.                    *)
(*                                                                         *)
(* One repository; a raw fact and its parent edges are one unit of bytes,  *)
(* there or not together.  Every transaction is one step: the worker waits *)
(* for the writer, which applies a command or fails it.  The worker's own  *)
(* wait, one second longer than the writer's deadline of 120, does not     *)
(* expire here.  Two neighbours are inputs: the demand tracker (module     *)
(* Demand) gives any targets in any round, and index_jobs may or may not   *)
(* hold an unfinished job of the repository when a transaction looks.      *)
(***************************************************************************)
EXTENDS Integers, Sequences, FiniteSets, SequencesExt

CONSTANTS
    Heads,         \* pinned head commits, numbers in the order of their ids
    Commits,
    Walk,          \* [Heads -> Seq(Commits)]: rev-list --topo-order of a head
    Parents,       \* [Commits -> SUBSET Commits]
    Recent,        \* commits younger than protect_recent_days
    Trails,        \* trails the foreground may publish
    TrailCommits,  \* [Trails -> SUBSET Commits]
    Limit,         \* background_commit_limit
    Targets,       \* the targets lookups may justify; 0 is none
    BatchSize,     \* 64: commits of one turn
    Quota,         \* staging_max_bytes
    QueueCap,      \* 32: heads the worker knows at once
    PinCap,        \* 32: active rows
    RecordCap,     \* 256: finished rows
    TryCap         \* 257: reclaiming transactions of one batch

ASSUME ConstantsAssumption ==
    /\ Heads \subseteq Nat /\ IsFiniteSet(Heads) /\ 0 \notin Heads
    /\ IsFiniteSet(Commits)
    /\ Walk \in [Heads -> Seq(Commits)]
    /\ Parents \in [Commits -> SUBSET Commits]
    /\ Recent \subseteq Commits
    /\ Targets \subseteq 0..Limit
    /\ TrailCommits \in [Trails -> SUBSET Commits]
    /\ {Limit, BatchSize, Quota, QueueCap, PinCap, RecordCap, TryCap}
          \subseteq Nat \ {0}

VARIABLES
    jobs,       \* prefetch_jobs: the row of a head
    rows,       \* heads with a row, by rowid
    created,    \* heads with a speculative_cohorts row, by creation
    demanded,   \* those whose cohort has a last_demand, by that time
    raw,        \* raw_commit_facts, each with its raw_parent_edges
    usage,      \* speculative_usage: facts that prefetching produced
    trails,     \* published trails
    known,      \* PrefetchQueue.known
    ready,      \* PrefetchQueue.ready
    sessions,   \* the worker's open sessions: target and position
    worker,     \* where the worker is, and with what
    stopping

table == <<jobs, rows, created, demanded, raw, usage>>
queue == <<known, ready>>
env   == <<trails, stopping>>
vars  == <<table, queue, env, sessions, worker>>

Active   == {"running", "paused_shutdown", "paused_capacity"}
Finished == {"ready", "obsolete", "paused_demand"}
NoHead == 0
NoRow  == [state |-> "none", completed |-> 0, checkpoint |-> "null"]
NoSession == [target |-> 0, position |-> 0]
Idle   == [at |-> "idle", head |-> NoHead, target |-> 0, position |-> 0,
           goal |-> 0, tries |-> 0]

Least(a, b) == IF a < b THEN a ELSE b
Place(s, h) == IF h \in ToSet(s) THEN CHOOSE n \in DOMAIN s : s[n] = h ELSE 0

\* A set of numbers in increasing order.
InOrder(S) == [n \in 1..Cardinality(S) |->
                  CHOOSE i \in S : Cardinality({j \in S : j < i}) = n - 1]
Within(s, S) ==
    LET kept[n \in 0..Len(s)] ==
          IF n = 0 THEN <<>>
          ELSE IF s[n] \in S THEN Append(kept[n - 1], s[n]) ELSE kept[n - 1]
    IN  kept[Len(s)]

Init ==
    /\ jobs = [h \in Heads |-> NoRow] /\ rows = <<>>
    /\ created = <<>> /\ demanded = <<>>
    /\ raw = {} /\ usage = {} /\ trails = {}
    /\ known = {} /\ ready = <<>>
    /\ sessions = [h \in Heads |-> NoSession]
    /\ worker = Idle /\ stopping = FALSE
-----------------------------------------------------------------------------
(* The tables *)

Rows(js)     == {h \in Heads : js[h].state # "none"}
InState(js, S) == {h \in Heads : js[h].state \in S}
Retained(ts) == UNION {TrailCommits[t] : t \in ts}
Staged(r, ts) == Cardinality(r \ Retained(ts))

\* What is reachable from heads over the edges that are in the table.
Reachable(r, from) ==
    LET reach[n \in 0..Cardinality(Commits)] ==
          IF n = 0 THEN from
          ELSE LET near == reach[n - 1]
               IN  near \cup UNION {Parents[c] : c \in near \cap r}
    IN  reach[Cardinality(Commits)]

HeadCommit(h) == Walk[h][1]
Pinned(js, r) ==
    Reachable(r, {HeadCommit(h) : h \in Rows(js) \ InState(js, {"obsolete", "failed"})})

\* Faulty variant, to show that the properties notice it: a published trail
\* does not hold its facts.
ReclaimedPinned(js, r, indexing) ==
    IF indexing THEN r ELSE r \cap (Pinned(js, r) \cup Recent)

\* reclaim: pinned, retained and recent facts stay, and all of them when the
\* repository has an index job.
Reclaimed(js, r, indexing) ==
    IF indexing THEN r
    ELSE r \cap (Pinned(js, r) \cup Retained(trails) \cup Recent)

\* Never demanded first, then by last demand; by creation; by id.
Colder(g, h) ==
    \/ Place(demanded, g) < Place(demanded, h)
    \/ /\ Place(demanded, g) = Place(demanded, h)
       /\ \/ Place(created, g) < Place(created, h)
          \/ Place(created, g) = Place(created, h) /\ g < h

\* The n first rows of S in an order.
Coldest(S, n) == {h \in S : Cardinality({g \in S : Colder(g, h)}) < n}
Oldest(S, n)  == {h \in S : Cardinality({g \in S : Place(rows, g) < Place(rows, h)}) < n}

\* The rows become js and the facts r.
Commit(js, r) ==
    /\ jobs' = js /\ raw' = r
    /\ rows' = LET new == Rows(js) \ ToSet(rows)
               IN  Within(rows, Rows(js)) \o SetToSeq(new)

\* Faulty variant, to show that the properties notice it: one row too many.
OverPinsLate(js) == Cardinality(InState(js, Active)) - PinCap - 1

\* bound_prefetch_pins after the rows became js: the oldest active rows beyond
\* the cap are obsolete, whatever they count as completed.
OverPins(js) == Cardinality(InState(js, Active)) - PinCap
BoundPins(js, keep) ==
    LET out == Oldest(InState(js, Active) \ keep, OverPins(js))
    IN  IF OverPins(js) > 0
        THEN [h \in Heads |->
                 IF h \in out THEN [js[h] EXCEPT !.state = "obsolete"] ELSE js[h]]
        ELSE js
Bounded(js, keep, r, indexing) ==
    Commit(BoundPins(js, keep),
           IF OverPins(js) > 0 THEN Reclaimed(BoundPins(js, keep), r, indexing) ELSE r)

\* set_prefetch_state.  A deleted row takes its cohort with it, a deleted fact
\* its usage.
SetState(h, state) ==
    LET marked == IF h \in Rows(jobs) THEN [jobs EXCEPT ![h].state = state] ELSE jobs
        finished == InState(marked, Finished)
        dropped == Coldest(finished, Cardinality(finished) - RecordCap)
        kept == [g \in Heads |-> IF g \in dropped THEN NoRow ELSE marked[g]]
    IN  IF state \in Finished
        THEN /\ \E indexing \in BOOLEAN : Commit(kept, Reclaimed(kept, raw, indexing))
             /\ created' = Within(created, Rows(kept))
             /\ demanded' = Within(demanded, Rows(kept))
             /\ usage' = usage \cap raw'
        ELSE /\ \E indexing \in BOOLEAN : Bounded(marked, {h}, raw, indexing)
             /\ usage' = usage \cap raw'
             /\ UNCHANGED <<created, demanded>>
-----------------------------------------------------------------------------
(* The coordinator *)

\* Faulty variant, to show that the properties notice it: the head of a turn
\* that ended stays known.
EndTurnKnown ==
    /\ sessions' = [sessions EXCEPT ![worker.head] = NoSession]
    /\ worker' = Idle
    /\ UNCHANGED <<known, ready>>

\* finish_turn of a head that is done for now: its session is dropped.
EndTurn ==
    /\ known' = known \ {worker.head}
    /\ sessions' = [sessions EXCEPT ![worker.head] = NoSession]
    /\ worker' = Idle
    /\ UNCHANGED ready

\* admit: of the wanted heads that are not known the first, in order, take what
\* room there is.
Admitted(wanted) ==
    LET new == wanted \ known
        room == QueueCap - Cardinality(known)
    IN  {h \in new : Cardinality({g \in new : g < h}) < room}

\* Faulty variant, to show that the properties notice it: admitted heads go
\* before those that wait.
PollHottest ==
    /\ worker.at = "idle" /\ ~stopping
    /\ \E targets \in [Heads -> Targets] :
         LET wanted == {h \in Heads : targets[h] > 0}
             new == Admitted(wanted)
             filled == InOrder(new) \o ready
             h == Head(filled)
         IN  /\ filled # <<>> /\ h \in wanted
             /\ ready' = Tail(filled) /\ known' = known \cup new
             /\ worker' = [Idle EXCEPT !.at = "open", !.head = h, !.target = targets[h]]
    /\ UNCHANGED <<sessions, table, env>>

\* A round of the loop: ask the tracker, admit, take a head.  Tried are heads
\* whose target and revision are still those of their last, ended attempt.
Poll ==
    /\ worker.at = "idle" /\ ~stopping
    /\ \E targets \in [Heads -> Targets] :
       \E tried \in SUBSET Heads :
         LET wanted == {h \in Heads : targets[h] > 0}
             new == Admitted(wanted \ tried)
             filled == ready \o InOrder(new)
             h == Head(filled)
         IN  /\ filled # <<>>
             /\ ready' = Tail(filled)
             /\ IF h \in wanted
                THEN /\ known' = known \cup new
                     /\ worker' = [Idle EXCEPT !.at = "open", !.head = h,
                                              !.target = targets[h]]
                     /\ UNCHANGED <<sessions, table>>
                ELSE /\ known' = (known \cup new) \ {h}
                     /\ sessions' = [sessions EXCEPT ![h] = NoSession]
                     /\ \/ sessions[h] # NoSession /\ SetState(h, "paused_demand")
                        \/ UNCHANGED table
                     /\ UNCHANGED worker
    /\ UNCHANGED env

\* start_target: a checkpoint that the walk confirms, up to the first fact
\* that is no longer there.
Length(h, target) == Least(Least(target, Limit), Len(Walk[h]))
Resumed(h, len) ==
    LET row == jobs[h]
        claimed == IF row.completed \in 1..len /\ row.checkpoint = Walk[h][row.completed]
                   THEN row.completed ELSE 0
    IN  Cardinality({n \in 1..claimed : \A i \in 1..n : Walk[h][i] \in raw})

Open ==
    /\ worker.at = "open"
    /\ LET h == worker.head
           same == sessions[h] # NoSession /\ sessions[h].target = worker.target
       IN  worker' = [worker EXCEPT !.at = "advance",
                        !.position = IF same THEN sessions[h].position
                                     ELSE Resumed(h, Length(h, worker.target))]
    /\ sessions' = [sessions EXCEPT ![worker.head] = NoSession]
    /\ UNCHANGED <<table, queue, env>>

\* A Git, database or writer error at any point ends the turn.
Fails ==
    /\ worker.at \notin {"idle", "ended"}
    /\ EndTurn
    /\ UNCHANGED <<table, env>>

\* The turn ends with a last state in the row.
Close(state) == SetState(worker.head, state) /\ EndTurn /\ UNCHANGED env

Turning(at) == worker.at = at
WalkLength == Length(worker.head, worker.target)

Shutdown ==
    /\ Turning("advance") /\ stopping /\ worker.position < WalkLength
    /\ Close("paused_shutdown")

\* No reference of the route still resolves to the head.
Unjustified ==
    /\ Turning("advance") /\ ~stopping /\ worker.position < WalkLength
    /\ Close("obsolete")

\* The deepest target of a reference that does; the turn may have nothing left.
Satisfied ==
    /\ Turning("advance") /\ ~stopping
    /\ worker.position \in 1..(WalkLength - 1)
    /\ Close("paused_demand")

Covered ==
    /\ Turning("advance") /\ worker.position >= WalkLength
    /\ Close("ready")

Collect ==
    /\ Turning("advance") /\ ~stopping
    /\ \E justified \in (worker.position + 1)..WalkLength :
          worker' = [worker EXCEPT !.at = "staging", !.goal = justified, !.tries = 0]
    /\ UNCHANGED <<table, queue, env, sessions>>
-----------------------------------------------------------------------------
(* record_prefetch_batch: one transaction is one step *)

End == Least(worker.position + BatchSize, worker.goal)
Batch == {Walk[worker.head][i] : i \in (worker.position + 1)..End}

\* Faulty variant, to show that the properties notice it: the quota is compared
\* with what is staged before the batch.
ExceedsAlready == Staged(raw, trails) > Quota

Exceeds == Staged(raw \cup Batch, trails) > Quota

Reclaim ==
    /\ Turning("staging") /\ Exceeds /\ worker.tries = 0
    /\ \E indexing \in BOOLEAN : Commit(jobs, Reclaimed(jobs, raw, indexing))
    /\ usage' = usage \cap raw'
    /\ worker' = [worker EXCEPT !.tries = 1]
    /\ UNCHANGED <<created, demanded, queue, env, sessions>>

\* evict_lru: the head of the batch and running jobs are no victims, nor is
\* any while the repository has an index job.
Evictable ==
    InState(jobs, {"ready", "paused_capacity", "paused_demand", "paused_shutdown"})
      \ {worker.head}

Evict ==
    /\ Turning("staging") /\ Exceeds /\ worker.tries \in 1..(TryCap - 1)
    /\ \E v \in Coldest(Evictable, 1) :
          LET js == [jobs EXCEPT ![v] = [NoRow EXCEPT !.state = "obsolete"]]
          IN  Commit(js, Reclaimed(js, raw, FALSE))
    /\ usage' = usage \cap raw'
    /\ worker' = [worker EXCEPT !.tries = @ + 1]
    /\ UNCHANGED <<created, demanded, queue, env, sessions>>

Upserted(h, row) == [jobs EXCEPT ![h] = row]
OverQuota ==
    /\ Turning("staging") /\ Exceeds
    /\ worker.tries > 0
    /\ LET h == worker.head
           row == IF h \in Rows(jobs) THEN [jobs[h] EXCEPT !.state = "paused_capacity"]
                  ELSE [state |-> "paused_capacity", completed |-> worker.position,
                        checkpoint |-> "null"]
       IN  \E indexing \in BOOLEAN :
              /\ indexing \/ Evictable = {} \/ worker.tries = TryCap
              /\ Bounded(Upserted(h, row), {h}, raw, indexing)
    /\ usage' = usage \cap raw'
    /\ EndTurn
    /\ UNCHANGED <<created, demanded, env>>

\* The batch fits: facts, row, cohort, and pins, in one transaction.
Stage ==
    /\ Turning("staging") /\ ~Exceeds
    /\ LET h == worker.head
           row == [state |-> "running", completed |-> End, checkpoint |-> Walk[h][End]]
       IN  /\ \E indexing \in BOOLEAN :
                 Bounded(Upserted(h, row), {h}, raw \cup Batch, indexing)
           /\ usage' = (usage \cup ((Batch \ raw) \ Retained(trails))) \cap raw'
           /\ created' = IF h \in ToSet(created) THEN created ELSE Append(created, h)
    /\ IF End < worker.goal
       THEN /\ sessions' = [sessions EXCEPT ![worker.head] =
                              [target |-> worker.target, position |-> End]]
            /\ ready' = Append(ready, worker.head)
            /\ worker' = Idle
       ELSE /\ worker' = [worker EXCEPT !.at = "finishing", !.position = End]
            /\ UNCHANGED <<sessions, ready>>
    /\ UNCHANGED <<demanded, known, env>>

Finish == Turning("finishing") /\ Close("ready")
-----------------------------------------------------------------------------
(* The rest of the service *)

PublishTrail(t) ==
    /\ t \notin trails
    /\ trails' = trails \cup {t} /\ raw' = raw \cup TrailCommits[t]
    /\ UNCHANGED <<jobs, rows, created, demanded, usage, queue, stopping,
                   sessions, worker>>

EvictTrail(t) ==
    /\ t \in trails
    /\ trails' = trails \ {t}
    /\ UNCHANGED <<table, queue, stopping, sessions, worker>>

\* record_use: the cohorts that staged something of the trail, or of what it
\* shares with them, were demanded now.
UseTrail(t) ==
    /\ t \in trails
    /\ LET used == {h \in ToSet(created) :
                       Reachable(raw, {HeadCommit(h)}) \cap TrailCommits[t] \cap usage # {}}
       IN  /\ used # {}
           /\ demanded' = Within(demanded, Heads \ used) \o Within(created, used)
    /\ UNCHANGED <<jobs, rows, created, raw, usage, queue, env, sessions, worker>>

Stop ==
    /\ ~stopping /\ stopping' = TRUE
    /\ UNCHANGED <<table, queue, trails, sessions, worker>>

\* Faulty variant, to show that the properties notice it: the queue is drained
\* first, by nobody.
WorkerEndsEmpty ==
    /\ worker.at = "idle" /\ stopping /\ ready = <<>>
    /\ worker' = [Idle EXCEPT !.at = "ended"]
    /\ sessions' = [h \in Heads |-> NoSession]
    /\ UNCHANGED <<table, queue, env>>

WorkerEnds ==
    /\ worker.at = "idle" /\ stopping
    /\ worker' = [Idle EXCEPT !.at = "ended"]
    /\ sessions' = [h \in Heads |-> NoSession]
    /\ UNCHANGED <<table, queue, env>>

\* The process ends at any moment; serve reconciles the staging before it
\* recovers index_jobs, so that a job of the last life may still count.
Restart ==
    /\ LET js == BoundPins(jobs, {}) IN
         \E indexing \in BOOLEAN : Commit(js, Reclaimed(js, raw, indexing))
    /\ usage' = usage \cap raw'
    /\ UNCHANGED <<created, demanded, trails>>
    /\ known' = {} /\ ready' = <<>>
    /\ sessions' = [h \in Heads |-> NoSession]
    /\ worker' = Idle /\ stopping' = FALSE

Turn == Poll \/ Open \/ Shutdown \/ Unjustified \/ Satisfied \/ Covered \/ Collect
          \/ Reclaim \/ Evict \/ OverQuota \/ Stage \/ Finish \/ WorkerEnds

Next ==
    \/ Turn
    \/ Fails
    \/ \E t \in Trails : PublishTrail(t) \/ EvictTrail(t) \/ UseTrail(t)
    \/ Stop
    \/ Restart

Spec == Init /\ [][Next]_vars

\* The worker thread keeps running, and no call of it waits without a deadline.
FairSpec == Spec /\ WF_vars(Fails \/ Turn)
-----------------------------------------------------------------------------
(* Properties *)

Busy == worker.at \notin {"idle", "ended"}

TypeOK ==
    /\ jobs \in [Heads -> [state : Active \cup Finished \cup {"none"},
                           completed : Nat, checkpoint : Commits \cup {"null"}]]
    /\ raw \subseteq Commits /\ usage \subseteq raw
    /\ ToSet(rows) = Rows(jobs) /\ Len(rows) = Cardinality(Rows(jobs))
    /\ ToSet(created) \subseteq Rows(jobs) /\ ToSet(demanded) \subseteq ToSet(created)
    /\ worker.tries <= TryCap
    /\ worker.at \in {"idle", "open", "advance", "staging", "finishing", "ended"}

\* The worker knows exactly the heads that are queued, each once, and the one
\* it works on, within the cap; it keeps no session, and so no repository
\* handle, of a head that will not get another turn.
QueueExact ==
    /\ known = ToSet(ready) \cup (IF Busy THEN {worker.head} ELSE {})
    /\ Cardinality(known) = Len(ready) + (IF Busy THEN 1 ELSE 0)
    /\ Cardinality(known) <= QueueCap
    /\ \A h \in Heads : sessions[h] # NoSession => h \in ToSet(ready) \cup {worker.head}

\* However turns, errors, evictions and restarts follow each other, no more
\* rows than the cap are active ones.
ActiveBounded == Cardinality(InState(jobs, Active)) <= PinCap

\* Every commit of a retained trail keeps its raw fact through all reclaiming.
RetainedKept == Retained(trails) \subseteq raw

\* Staged facts exceed the quota, and grow beyond it, only because a trail
\* that retained them is evicted; prefetching itself never does that.
OnlyEvictionOverfills ==
    [][Staged(raw', trails') > Quota /\ Staged(raw', trails') > Staged(raw, trails)
          => trails' # trails]_vars

\* A queued head gets its turn, whatever the others do and however often their
\* demand is renewed: no hot head keeps the worker.
TurnsCome ==
    \A h \in Heads : h \in ToSet(ready) ~> (h \notin ToSet(ready) \/ stopping)

\* A stop ends the worker: no batch, eviction loop or queue keeps it.
StopEnds == stopping ~> (worker.at = "ended" \/ ~stopping)
=============================================================================

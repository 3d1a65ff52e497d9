--------------------------- MODULE PrefetchProofs ---------------------------
(***************************************************************************)
(* For any heads, histories, trails and bounds of module Prefetch: no fact *)
(* of a retained trail is reclaimed, and prefetching alone never stages    *)
(* more than the quota; no more rows than the cap are active; the queue    *)
(* knows exactly the heads that wait or are worked on, within its cap. The *)
(* first two follow from how little the transactions may do to             *)
(* raw_commit_facts: reclaiming spares what a trail retains and adds       *)
(* nothing; a batch is added as a whole when it fits. The third is a       *)
(* count: of n rows too many, the n oldest become obsolete. The last needs *)
(* the queue as an invariant, without repetitions and apart from the head  *)
(* of the turn.                                                            *)
(***************************************************************************)
EXTENDS Prefetch, Lemmas

\* The part of the worker's state that says which commits a batch has.
WorkerInv ==
    /\ sessions \in [Heads -> [target : Nat, position : Nat]]
    /\ worker \in [at : {"idle", "open", "advance", "staging", "finishing", "ended"},
                   head : Heads \cup {NoHead}, target : Nat, position : Nat,
                   goal : Nat, tries : Nat]
    /\ worker.at # "idle" /\ worker.at # "ended" => worker.head \in Heads
    /\ worker.at = "idle" => worker = Idle
    /\ worker.at = "staging" =>
          worker.position < worker.goal /\ worker.goal <= Len(Walk[worker.head])

FactInv == raw \subseteq Commits /\ RetainedKept

JobRow == [state : Active \cup Finished \cup {"none"}, completed : Nat,
           checkpoint : Commits \cup {"null"}]
RowInv ==
    /\ jobs \in [Heads -> JobRow]
    /\ rows \in Seq(Heads)
    /\ ActiveBounded

QueueInv ==
    /\ ready \in Seq(Heads) /\ IsInjective(ready)
    /\ Busy => worker.head \notin ToSet(ready)
    /\ known = ToSet(ready) \cup (IF Busy THEN {worker.head} ELSE {})
    /\ Cardinality(known) <= QueueCap
    /\ \A h \in Heads : sessions[h] # NoSession => h \in ToSet(ready) \cup {worker.head}

IInv == WorkerInv /\ FactInv /\ RowInv /\ QueueInv

-----------------------------------------------------------------------------
(* The tables *)

LEMMA Kept ==
    ASSUME NEW js, NEW r, NEW indexing
    PROVE  /\ Reclaimed(js, r, indexing) \subseteq r
           /\ r \cap Retained(trails) \subseteq Reclaimed(js, r, indexing)
BY DEF Reclaimed

\* set_prefetch_state takes facts away, but none that a trail retains.
LEMMA SetStateFacts ==
    ASSUME NEW h, NEW state, SetState(h, state)
    PROVE  raw' \subseteq raw /\ raw \cap Retained(trails) \subseteq raw'
<1>1. \/ raw' = raw
      \/ \E js, indexing : raw' = Reclaimed(js, raw, indexing)
  BY DEF SetState, Bounded, Commit
<1> QED
  BY <1>1, Kept

\* What a step that only reclaims does to the facts.
LEMMA OnlyReclaims ==
    ASSUME FactInv, trails' = trails,
           raw' \subseteq raw, raw \cap Retained(trails) \subseteq raw'
    PROVE  FactInv'
BY DEF FactInv, RetainedKept, Retained

\* Fewer facts are no more staged ones.
LEMMA FewerStaged ==
    ASSUME NEW A \in SUBSET Commits, NEW B \in SUBSET A, NEW ts
    PROVE  /\ Staged(B, ts) \in Nat /\ Staged(A, ts) \in Nat
           /\ Staged(B, ts) <= Staged(A, ts)
<1>1. IsFiniteSet(A \ Retained(ts)) /\ B \ Retained(ts) \subseteq A \ Retained(ts)
  BY ConstantsAssumption, FS_Subset
<1> QED
  BY <1>1, FS_Subset, FS_CardinalityType DEF Staged

-----------------------------------------------------------------------------
(* The batch *)

LEMMA ConstantTypes ==
    /\ Quota \in Nat /\ BatchSize \in Nat /\ Limit \in Nat
    /\ \A h \in Heads : Walk[h] \in Seq(Commits) /\ Len(Walk[h]) \in Nat
    /\ \A target \in Nat, h \in Heads :
          Length(h, target) \in Nat /\ Length(h, target) <= Len(Walk[h])
BY ConstantsAssumption DEF Length, Least

LEMMA BatchFacts ==
    ASSUME WorkerInv, worker.at = "staging"
    PROVE  /\ worker.head \in Heads /\ End \in Nat
           /\ Batch \subseteq Commits /\ Walk[worker.head][End] \in Commits
<1>1. /\ worker.head \in Heads /\ worker.position \in Nat /\ worker.goal \in Nat
      /\ worker.goal <= Len(Walk[worker.head]) /\ worker.position < worker.goal
  BY DEF WorkerInv
<1>2. End \in Nat /\ End <= worker.goal /\ worker.position < End
  <2>1. BatchSize \in Nat \ {0}
    BY ConstantsAssumption
  <2> QED
    BY <1>1, <2>1 DEF End, Least
<1>3. ASSUME NEW i \in (worker.position + 1)..End
      PROVE  Walk[worker.head][i] \in Commits
  <2>1. i \in 1..Len(Walk[worker.head])
    <3>1. Len(Walk[worker.head]) \in Nat
      BY <1>1, ConstantTypes
    <3> QED
      BY <1>1, <1>2, <3>1
  <2> QED
    BY <1>1, <2>1, ConstantTypes
<1>4. End \in (worker.position + 1)..End
  BY <1>1, <1>2
<1> QED
  BY <1>1, <1>2, <1>3, <1>4 DEF Batch

-----------------------------------------------------------------------------
(* What each step does to the facts *)

\* It adds none and takes none that a trail retains.
Spares == /\ trails' = trails /\ raw' \subseteq raw
          /\ raw \cap Retained(trails) \subseteq raw'

LEMMA TurnSpares ==
    ASSUME Turn \/ Fails \/ Stop \/ Restart \/ UNCHANGED vars \/ (\E t \in Trails : UseTrail(t))
    PROVE  Spares \/ Stage
<1>1. CASE Poll
  BY <1>1, SetStateFacts DEF Poll, Spares, env, table
<1>2. CASE Open \/ Collect \/ WorkerEnds
  BY <1>2 DEF Open, Collect, WorkerEnds, Spares, env, table
<1>3. CASE Shutdown \/ Unjustified \/ Satisfied \/ Covered \/ Finish
  BY <1>3, SetStateFacts
  DEF Shutdown, Unjustified, Satisfied, Covered, Finish, Close, Spares, env
<1>4. CASE Reclaim
  <2>1. trails' = trails /\ \E indexing \in BOOLEAN : raw' = Reclaimed(jobs, raw, indexing)
    BY <1>4 DEF Reclaim, Commit, env
  <2> QED
    BY <2>1, Kept DEF Spares
<1>5. CASE Evict
  <2>1. trails' = trails /\ \E js : raw' = Reclaimed(js, raw, FALSE)
    BY <1>5 DEF Evict, Commit, env
  <2> QED
    BY <2>1, Kept DEF Spares
<1>6. CASE OverQuota
  <2>1. /\ trails' = trails
        /\ raw' = raw \/ \E js, indexing : raw' = Reclaimed(js, raw, indexing)
    BY <1>6 DEF OverQuota, Bounded, Commit, env
  <2> QED
    BY <2>1, Kept DEF Spares
<1>7. CASE Restart
  <2>1. trails' = trails /\ \E js, indexing : raw' = Reclaimed(js, raw, indexing)
    BY <1>7 DEF Restart, Commit
  <2> QED
    BY <2>1, Kept DEF Spares
<1>8. CASE Fails \/ Stop \/ UNCHANGED vars
  BY <1>8 DEF Fails, Stop, vars, table, env, queue, Spares
<1>9. CASE \E t \in Trails : UseTrail(t)
  BY <1>9 DEF UseTrail, env, Spares
<1> QED
  BY <1>1, <1>2, <1>3, <1>4, <1>5, <1>6, <1>7, <1>8, <1>9 DEF Turn

\* The facts after a batch, and what is staged then.
LEMMA StageFacts ==
    ASSUME IInv, Stage
    PROVE  /\ trails' = trails /\ raw' \subseteq raw \cup Batch
           /\ (raw \cup Batch) \cap Retained(trails) \subseteq raw'
           /\ raw \cup Batch \subseteq Commits
           /\ Staged(raw \cup Batch, trails) <= Quota
<1>1. /\ trails' = trails
      /\ \/ raw' = raw \cup Batch
         \/ \E js, indexing : raw' = Reclaimed(js, raw \cup Batch, indexing)
  BY DEF Stage, Bounded, Commit, env
<1>2. raw \cup Batch \subseteq Commits
  BY BatchFacts DEF Stage, Turning, IInv, FactInv
<1>3. Staged(raw \cup Batch, trails) \in Nat
  BY <1>2, FewerStaged
<1>4. Staged(raw \cup Batch, trails) <= Quota
  BY <1>3, ConstantTypes DEF Stage, Exceeds
<1> QED
  BY <1>1, <1>2, <1>4, Kept

LEMMA FactStep ==
    ASSUME IInv, [Next]_vars
    PROVE  FactInv'
<1>1. CASE Spares
  BY <1>1, OnlyReclaims DEF Spares, IInv
<1>2. CASE Stage
  BY <1>2, StageFacts DEF IInv, FactInv, RetainedKept, Retained
<1>3. CASE \E t \in Trails : PublishTrail(t)
  <2>1. PICK t \in Trails : trails' = trails \cup {t} /\ raw' = raw \cup TrailCommits[t]
    BY <1>3 DEF PublishTrail
  <2>2. Retained(trails') = Retained(trails) \cup TrailCommits[t]
    BY <2>1 DEF Retained
  <2>3. TrailCommits[t] \subseteq Commits
    BY ConstantsAssumption
  <2>4. Retained(trails)' = Retained(trails')
    BY DEF Retained
  <2> QED
    BY <2>1, <2>2, <2>3, <2>4 DEF IInv, FactInv, RetainedKept
<1>4. CASE \E t \in Trails : EvictTrail(t)
  BY <1>4 DEF EvictTrail, table, IInv, FactInv, RetainedKept, Retained
<1> QED
  BY <1>1, <1>2, <1>3, <1>4, TurnSpares DEF Next

\* The quota is passed by no step but the eviction of a trail.
LEMMA OverfillStep ==
    ASSUME IInv, [Next]_vars, trails' = trails
    PROVE  ~(Staged(raw', trails') > Quota /\ Staged(raw', trails') > Staged(raw, trails))
<1>0. raw \subseteq Commits
  BY DEF IInv, FactInv
<1>1. CASE Spares
  BY <1>0, <1>1, FewerStaged DEF Spares
<1>2. CASE Stage
  <2>1. Staged(raw', trails') <= Staged(raw \cup Batch, trails)
    BY <1>2, StageFacts, FewerStaged
  <2> QED
    BY <1>2, <2>1, StageFacts, FewerStaged, ConstantTypes
<1>3. CASE \E t \in Trails : PublishTrail(t) \/ EvictTrail(t)
  BY <1>3 DEF PublishTrail, EvictTrail
<1> QED
  BY <1>1, <1>2, <1>3, TurnSpares DEF Next

-----------------------------------------------------------------------------
(* The worker *)

LEMMA IdleWorker ==
    ASSUME sessions' \in [Heads -> [target : Nat, position : Nat]], worker' = Idle
    PROVE  WorkerInv'
BY DEF WorkerInv, Idle

LEMMA EndTurnStep ==
    ASSUME WorkerInv, EndTurn
    PROVE  WorkerInv'
BY IdleWorker DEF EndTurn, WorkerInv, NoSession

LEMMA PollStep ==
    ASSUME WorkerInv, Poll
    PROVE  WorkerInv'
<1>1. CASE UNCHANGED worker /\ sessions' \in [Heads -> [target : Nat, position : Nat]]
  BY <1>1 DEF WorkerInv
<1>2. CASE /\ UNCHANGED sessions
           /\ \E h \in Heads, target \in Targets :
                 worker' = [Idle EXCEPT !.at = "open", !.head = h, !.target = target]
  <2>1. PICK h \in Heads, target \in Targets :
           worker' = [Idle EXCEPT !.at = "open", !.head = h, !.target = target]
    BY <1>2
  <2>2. target \in Nat
    BY ConstantsAssumption
  <2> QED
    BY <1>2, <2>1, <2>2 DEF WorkerInv, Idle
<1>3. PICK targets \in [Heads -> Targets], tried \in SUBSET Heads :
         LET wanted == {h \in Heads : targets[h] > 0}
             new == Admitted(wanted \ tried)
             filled == ready \o InOrder(new)
             h == Head(filled)
         IN  IF h \in wanted
             THEN /\ worker' = [Idle EXCEPT !.at = "open", !.head = h,
                                           !.target = targets[h]]
                  /\ UNCHANGED sessions
             ELSE /\ sessions' = [sessions EXCEPT ![h] = NoSession]
                  /\ UNCHANGED worker
  BY DEF Poll
<1> DEFINE wanted == {h \in Heads : targets[h] > 0}
           h == Head(ready \o InOrder(Admitted(wanted \ tried)))
<1>4. CASE h \in wanted
  <2>1. /\ worker' = [Idle EXCEPT !.at = "open", !.head = h, !.target = targets[h]]
        /\ UNCHANGED sessions /\ h \in Heads
    BY <1>3, <1>4
  <2> HIDE DEF h
  <2> QED
    BY <1>2, <2>1
<1>5. CASE h \notin wanted
  <2>1. sessions' = [sessions EXCEPT ![h] = NoSession] /\ UNCHANGED worker
    BY <1>3, <1>5
  <2> HIDE DEF h
  <2> QED
    BY <1>1, <2>1 DEF WorkerInv, NoSession
<1> QED
  BY <1>4, <1>5

LEMMA OpenStep ==
    ASSUME WorkerInv, Open
    PROVE  WorkerInv'
<1>1. worker.head \in Heads /\ worker.at = "open"
  BY DEF WorkerInv, Open
<1>2. \A len \in Nat : Resumed(worker.head, len) \in Nat
  <2> DEFINE h == worker.head
  <2> SUFFICES ASSUME NEW len \in Nat PROVE Resumed(h, len) \in Nat
    OBVIOUS
  <2> DEFINE claimed == IF jobs[h].completed \in 1..len
                             /\ jobs[h].checkpoint = Walk[h][jobs[h].completed]
                        THEN jobs[h].completed ELSE 0
  <2>2. IsFiniteSet({n \in 1..claimed : \A i \in 1..n : Walk[h][i] \in raw})
    <3>1. claimed \in Nat
      OBVIOUS
    <3> HIDE DEF claimed
    <3>2. IsFiniteSet(1..claimed)
      BY <3>1, FS_Interval
    <3> QED
      BY <3>2, FS_Subset
  <2> QED
    BY <2>2, FS_CardinalityType DEF Resumed
<1>3. PICK position \in Nat : worker' = [worker EXCEPT !.at = "advance", !.position = position]
  BY <1>1, <1>2, ConstantTypes DEF Open, WorkerInv
<1>4. sessions' \in [Heads -> [target : Nat, position : Nat]]
  BY DEF Open, WorkerInv, NoSession
<1> QED
  BY <1>1, <1>3, <1>4 DEF WorkerInv

LEMMA CollectStep ==
    ASSUME WorkerInv, Collect
    PROVE  WorkerInv'
<1>1. worker.head \in Heads
  BY DEF WorkerInv, Collect, Turning
<1>2. WalkLength \in Nat /\ WalkLength <= Len(Walk[worker.head])
  BY <1>1, ConstantTypes DEF WalkLength, WorkerInv
<1>3. PICK goal \in (worker.position + 1)..WalkLength :
         worker' = [worker EXCEPT !.at = "staging", !.goal = goal, !.tries = 0]
  BY DEF Collect
<1>4. /\ goal \in Nat /\ goal <= Len(Walk[worker.head]) /\ Len(Walk[worker.head]) \in Nat
      /\ worker.position < goal
  <2>1. worker.position \in Nat /\ Len(Walk[worker.head]) \in Nat
    BY <1>1, ConstantTypes DEF WorkerInv
  <2> QED
    BY <1>2, <2>1
<1> QED
  BY <1>1, <1>3, <1>4 DEF Collect, WorkerInv

LEMMA StageStep ==
    ASSUME WorkerInv, Stage
    PROVE  WorkerInv'
<1>1. worker.head \in Heads /\ End \in Nat
  BY BatchFacts DEF Stage, Turning
<1>2. CASE End < worker.goal
  <2>1. sessions' \in [Heads -> [target : Nat, position : Nat]] /\ worker' = Idle
    <3>1. /\ sessions' = [sessions EXCEPT ![worker.head] =
                             [target |-> worker.target, position |-> End]]
          /\ worker' = Idle
      BY <1>2 DEF Stage
    <3>2. worker.target \in Nat
      BY DEF WorkerInv
    <3> QED
      BY <1>1, <3>1, <3>2 DEF WorkerInv
  <2> QED
    BY <2>1, IdleWorker
<1>3. CASE ~(End < worker.goal)
  BY <1>1, <1>3 DEF Stage, WorkerInv
<1> QED
  BY <1>2, <1>3

LEMMA WorkerStep ==
    ASSUME WorkerInv, [Next]_vars
    PROVE  WorkerInv'
<1>1. CASE Shutdown \/ Unjustified \/ Satisfied \/ Covered \/ Finish \/ Fails \/ OverQuota
  BY <1>1, EndTurnStep DEF Shutdown, Unjustified, Satisfied, Covered, Finish, Close,
                           Fails, OverQuota
<1>2. CASE Reclaim \/ Evict
  <2>1. \E tries \in Nat : worker' = [worker EXCEPT !.tries = tries]
    <3>1. worker.tries + 1 \in Nat /\ 1 \in Nat
      BY DEF WorkerInv
    <3>2. \/ worker' = [worker EXCEPT !.tries = 1]
          \/ worker' = [worker EXCEPT !.tries = worker.tries + 1]
      BY <1>2 DEF Reclaim, Evict, WorkerInv
    <3> QED
      BY <3>1, <3>2
  <2>2. UNCHANGED sessions /\ worker.at = "staging"
    BY <1>2 DEF Reclaim, Evict, Turning
  <2> QED
    BY <2>1, <2>2 DEF WorkerInv
<1>3. CASE WorkerEnds
  BY <1>3 DEF WorkerEnds, WorkerInv, Idle, NoSession
<1>4. CASE Restart
  BY <1>4, IdleWorker DEF Restart, NoSession
<1>5. CASE \/ Stop \/ UNCHANGED vars
           \/ \E t \in Trails : PublishTrail(t) \/ EvictTrail(t) \/ UseTrail(t)
  BY <1>5 DEF Stop, vars, PublishTrail, EvictTrail, UseTrail, WorkerInv
<1> QED
  BY <1>1, <1>2, <1>3, <1>4, <1>5, PollStep, OpenStep, CollectStep, StageStep
  DEF Next, Turn

-----------------------------------------------------------------------------
(* What is left of a sequence *)

LEMMA WithinHeads ==
    ASSUME NEW s \in Seq(Heads), NEW S
    PROVE  Within(s, S) \in Seq(Heads)
<1> DEFINE N == Len(s)
           V == Seq(Heads)
           step == [x \in (1..N) \X V |->
                       IF s[x[1]] \in S THEN Append(x[2], s[x[1]]) ELSE x[2]]
<1>1. N \in Nat /\ <<>> \in V /\ \A n \in 1..N : s[n] \in Heads
  OBVIOUS
<1>2. step \in [(1..N) \X V -> V]
  <2>1. ASSUME NEW x \in (1..N) \X V PROVE x[2] \in V /\ Append(x[2], s[x[1]]) \in V
    BY <1>1
  <2> QED
    BY <2>1
<1>3. PICK f \in [0..N -> V] : Follows(f, N, <<>>, step)
  <2> HIDE DEF step, V, N
  <2> QED
    BY <1>1, <1>2, Recursion
<1>4. f = [n \in 0..N |-> IF n = 0 THEN <<>>
                          ELSE IF s[n] \in S THEN Append(f[n - 1], s[n]) ELSE f[n - 1]]
  <2>1. ASSUME NEW n \in 0..N, n # 0
        PROVE  step[<<n, f[n - 1]>>] =
                  IF s[n] \in S THEN Append(f[n - 1], s[n]) ELSE f[n - 1]
    <3>1. n \in 1..N /\ n - 1 \in 0..N
      BY <1>1, <2>1
    <3>2. <<n, f[n - 1]>> \in (1..N) \X V
      BY <3>1
    <3> QED
      BY <3>2
  <2> HIDE DEF step, V, N
  <2> QED
    BY <1>3, <2>1 DEF Follows
<1>5. PICK g : /\ g = [n \in 0..N |->
                         IF n = 0 THEN <<>>
                         ELSE IF s[n] \in S THEN Append(g[n - 1], s[n]) ELSE g[n - 1]]
               /\ Within(s, S) = g[N]
  BY <1>4, Zenon DEF Within
<1> DEFINE T == {n \in 0..N : g[n] \in V}
<1>6. 0 \in T
  BY <1>1, <1>5
<1>7. ASSUME NEW n \in 0..(N - 1), n \in T PROVE n + 1 \in T
  <2>1. n \in 0..N /\ n + 1 \in 1..N /\ n + 1 # 0 /\ (n + 1) - 1 = n /\ n + 1 \in 0..N
    BY <1>1
  <2>2. g[n + 1] = IF s[n + 1] \in S THEN Append(g[n], s[n + 1]) ELSE g[n]
    BY <1>5, <2>1
  <2>3. g[n] \in V
    BY <1>7
  <2>4. \A q \in V, h \in Heads : Append(q, h) \in V
    OBVIOUS
  <2>5. s[n + 1] \in Heads
    BY <1>1, <2>1
  <2>6. g[n + 1] \in V
    BY <2>2, <2>3, <2>4, <2>5, Zenon
  <2> QED
    BY <2>1, <2>6
<1> HIDE DEF T
<1>8. N \in T
  <2>1. N \in Nat /\ N \in 0..N
    BY <1>1
  <2> HIDE DEF N
  <2>2. 0..N \subseteq T
    BY <1>6, <1>7, <2>1, UpTo
  <2> QED
    BY <2>1, <2>2
<1> QED
  BY <1>5, <1>8 DEF T
\* A set of heads as a sequence, in any order.
LEMMA Listed ==
    ASSUME NEW S \in SUBSET Heads
    PROVE  SetToSeq(S) \in Seq(Heads)
<1>1. IsFiniteSet(S) /\ Cardinality(S) \in Nat /\ ExistsBijection(1..Cardinality(S), S)
  BY ConstantsAssumption, FS_Subset, FS_CardinalityType
<1>2. \E f \in [1..Cardinality(S) -> S] : IsInjective(f)
  BY <1>1 DEF ExistsBijection, Bijection, Injection, IsInjective
<1>3. SetToSeq(S) \in [1..Cardinality(S) -> S]
  BY <1>2 DEF SetToSeq
<1> QED
  BY <1>1, <1>3

\* InOrder has every number of S, once.
LEMMA Sorted ==
    ASSUME NEW S \in SUBSET Nat, IsFiniteSet(S)
    PROVE  /\ Cardinality(S) \in Nat
           /\ InOrder(S) \in [1..Cardinality(S) -> S]
           /\ IsInjective(InOrder(S))
           /\ ToSet(InOrder(S)) = S
<1> DEFINE N == Cardinality(S)
           f == [i \in S |-> Rank(S, i) + 1]
           Nth(n) == CHOOSE i \in S : Rank(S, i) = n - 1
<1>1. N \in Nat /\ f \in Injection(S, 1..N)
  <2>1. N \in Nat /\ f \in [S -> 1..N]
    BY Ranks
  <2>2. \A m, n \in S : f[m] = f[n] => m = n
    BY Ranks
  <2> QED
    BY <2>1, <2>2 DEF Injection, IsInjective
<1>2. f \in Surjection(S, 1..N)
  <2>1. IsFiniteSet(1..N) /\ Cardinality(1..N) = N
    BY <1>1, FS_Interval
  <2> HIDE DEF f
  <2> QED
    BY <1>1, <2>1, FS_Injection
<1>3. ASSUME NEW n \in 1..N PROVE Nth(n) \in S /\ Rank(S, Nth(n)) = n - 1
  <2>1. PICK i \in S : f[i] = n
    BY <1>2 DEF Surjection
  <2>2. Rank(S, i) = n - 1
    BY <1>1, <2>1, Ranks
  <2> QED
    BY <2>2
<1>4. InOrder(S) = [n \in 1..N |-> Nth(n)]
  BY DEF InOrder, Rank
<1>5. ASSUME NEW i \in S PROVE \E n \in 1..N : Nth(n) = i
  <2>1. f[i] \in 1..N /\ Rank(S, i) = f[i] - 1
    BY <1>1, Ranks
  <2>2. Nth(f[i]) \in S /\ Rank(S, Nth(f[i])) = Rank(S, i)
    BY <1>3, <2>1
  <2> QED
    BY <2>1, <2>2, Ranks
<1> HIDE DEF Nth
<1>6. \A m, n \in 1..N : Nth(m) = Nth(n) => m = n
  BY <1>1, <1>3
<1>7. InOrder(S) \in [1..N -> S] /\ \A n \in 1..N : InOrder(S)[n] = Nth(n)
  BY <1>3, <1>4
<1>8. IsInjective(InOrder(S))
  BY <1>6, <1>7 DEF IsInjective
<1>9. ToSet(InOrder(S)) = S
  <2>1. ASSUME NEW i \in S PROVE i \in ToSet(InOrder(S))
    BY <1>5, <1>7 DEF ToSet
  <2>2. ToSet(InOrder(S)) \subseteq S
    BY <1>7 DEF ToSet
  <2> QED
    BY <2>1, <2>2
<1> QED
  BY <1>1, <1>7, <1>8, <1>9
-----------------------------------------------------------------------------
(* The rows *)

LEMMA ActiveRows ==
    ASSUME NEW js, NEW S
    PROVE  /\ InState(js, S) \in SUBSET Heads /\ IsFiniteSet(InState(js, S))
           /\ Cardinality(InState(js, S)) \in Nat
BY ConstantsAssumption, FS_Subset, FS_CardinalityType DEF InState

LEMMA PlaceType ==
    ASSUME NEW s \in Seq(Heads), NEW h
    PROVE  Place(s, h) \in Nat
<1>1. DOMAIN s \subseteq Nat
  OBVIOUS
<1>2. CASE h \in ToSet(s)
  BY <1>1, <1>2 DEF Place, ToSet
<1> QED
  BY <1>2 DEF Place

\* The n oldest of n or more rows are at least n: were they fewer, the oldest
\* of the others would be one of them.
LEMMA OldestMany ==
    ASSUME rows \in Seq(Heads), NEW S \in SUBSET Heads, NEW n \in Nat,
           n <= Cardinality(S)
    PROVE  /\ Oldest(S, n) \in SUBSET S
           /\ n <= Cardinality(Oldest(S, n))
<1> DEFINE O == Oldest(S, n)
           Older(h) == {g \in S : Place(rows, g) < Place(rows, h)}
           Ages == {Place(rows, h) : h \in S \ O}
<1>1. O = {h \in S : Cardinality(Older(h)) < n}
  BY DEF Oldest
<1>2. /\ O \in SUBSET S /\ IsFiniteSet(S) /\ IsFiniteSet(O)
      /\ Cardinality(O) \in Nat /\ Cardinality(S) \in Nat
  BY <1>1, ConstantsAssumption, FS_Subset, FS_CardinalityType
<1>3. SUFFICES ASSUME Cardinality(O) < n PROVE FALSE
  BY <1>2
<1> HIDE DEF O
<1>4. S \ O # {}
  <2>1. S \ O = {} => O = S
    BY <1>2
  <2> QED
    BY <1>2, <1>3, <2>1
<1>5. PICK a \in Ages : \A b \in Ages : a <= b
  <2>1. Ages \in SUBSET Nat /\ Ages # {}
    BY <1>4, PlaceType
  <2> HIDE DEF Ages
  <2> QED
    BY <2>1, LeastNumber
<1>6. PICK h \in S \ O : Place(rows, h) = a
  OBVIOUS
<1>7. Older(h) \in SUBSET O
  <2>1. SUFFICES ASSUME NEW g \in S, Place(rows, g) < Place(rows, h), g \notin O PROVE FALSE
    OBVIOUS
  <2>2. Place(rows, g) \in Nat /\ Place(rows, h) \in Nat
    BY PlaceType
  <2>3. Place(rows, h) <= Place(rows, g)
    BY <1>5, <1>6, <2>1
  <2> QED
    BY <2>1, <2>2, <2>3
<1>8. Cardinality(Older(h)) \in Nat /\ Cardinality(Older(h)) <= Cardinality(O)
  BY <1>2, <1>7, FS_Subset, FS_CardinalityType
<1>9. Cardinality(Older(h)) < n
  BY <1>2, <1>3, <1>8
<1> QED
  BY <1>1, <1>6, <1>9

\* bound_prefetch_pins brings the active rows within the cap, though it spares
\* the one it is called for.
LEMMA PinsBounded ==
    ASSUME rows \in Seq(Heads), NEW js \in [Heads -> JobRow],
           NEW keep, NEW k, keep \subseteq {k}
    PROVE  /\ BoundPins(js, keep) \in [Heads -> JobRow]
           /\ Cardinality(InState(BoundPins(js, keep), Active)) <= PinCap
<1> DEFINE A == InState(js, Active)
           n == OverPins(js)
           out == Oldest(A \ keep, n)
           ks == [h \in Heads |->
                     IF h \in out THEN [js[h] EXCEPT !.state = "obsolete"] ELSE js[h]]
<1>1. /\ A \in SUBSET Heads /\ IsFiniteSet(A) /\ Cardinality(A) \in Nat
      /\ PinCap \in Nat \ {0} /\ n = Cardinality(A) - PinCap
  BY ActiveRows, ConstantsAssumption DEF OverPins
<1>2. CASE ~(n > 0)
  <2>1. BoundPins(js, keep) = js
    BY <1>2 DEF BoundPins
  <2> QED
    BY <1>1, <1>2, <2>1
<1>3. CASE n > 0
  <2>1. BoundPins(js, keep) = ks
    BY <1>3 DEF BoundPins
  <2>2. ks \in [Heads -> JobRow]
    BY DEF JobRow, Finished
  <2>3. /\ Cardinality(A \ keep) \in Nat /\ n <= Cardinality(A \ keep) /\ n \in Nat
    <3>1. A \ {k} \in SUBSET A /\ A \ {k} \in SUBSET (A \ keep) /\ A \ keep \in SUBSET A
      OBVIOUS
    <3>2. /\ IsFiniteSet(A \ {k}) /\ IsFiniteSet(A \ keep)
          /\ Cardinality(A) - 1 <= Cardinality(A \ {k})
      BY <1>1, <3>1, FS_Subset, FS_RemoveElement
    <3>3. /\ Cardinality(A \ {k}) \in Nat /\ Cardinality(A \ keep) \in Nat
          /\ Cardinality(A \ {k}) <= Cardinality(A \ keep)
      BY <3>1, <3>2, FS_Subset, FS_CardinalityType
    <3> QED
      BY <1>1, <1>3, <3>2, <3>3
  <2>4. out \in SUBSET A /\ n <= Cardinality(out)
    <3>1. A \ keep \in SUBSET Heads
      BY <1>1
    <3> QED
      BY <2>3, <3>1, OldestMany
  <2>5. InState(ks, Active) \in SUBSET (A \ out)
    <3> SUFFICES ASSUME NEW h \in Heads, ks[h].state \in Active PROVE h \in A \ out
      BY DEF InState
    <3>1. js[h] \in JobRow
      OBVIOUS
    <3>2. CASE h \in out
      BY <3>1, <3>2 DEF JobRow, Active
    <3>3. CASE h \notin out
      BY <3>3 DEF InState
    <3> QED
      BY <3>2, <3>3
  <2>6. /\ IsFiniteSet(A \ out) /\ Cardinality(A \ out) = Cardinality(A) - Cardinality(out)
        /\ Cardinality(out) \in Nat
    <3>1. A \cap out = out /\ IsFiniteSet(out)
      BY <1>1, <2>4, FS_Subset
    <3> QED
      BY <1>1, <3>1, FS_Difference, FS_CardinalityType
  <2>7. Cardinality(InState(ks, Active)) <= Cardinality(A \ out)
    BY <2>5, <2>6, FS_Subset
  <2>8. Cardinality(InState(ks, Active)) \in Nat
    BY ActiveRows
  <2> HIDE DEF A, n, out, ks
  <2>9. Cardinality(InState(ks, Active)) <= PinCap
    BY <1>1, <2>4, <2>6, <2>7, <2>8
  <2> QED
    BY <2>1, <2>2, <2>9
<1> QED
  BY <1>2, <1>3

\* No row becomes active: there are no more active ones than before.
LEMMA NoneActivated ==
    ASSUME NEW js, NEW ks, \A h \in Heads : ks[h].state \in Active => js[h].state \in Active,
           Cardinality(InState(js, Active)) <= PinCap
    PROVE  Cardinality(InState(ks, Active)) <= PinCap
<1>1. InState(ks, Active) \in SUBSET InState(js, Active)
  BY DEF InState
<1>2. /\ Cardinality(InState(ks, Active)) <= Cardinality(InState(js, Active))
      /\ Cardinality(InState(ks, Active)) \in Nat /\ Cardinality(InState(js, Active)) \in Nat
      /\ PinCap \in Nat
  BY <1>1, ActiveRows, FS_Subset, ConstantsAssumption
<1> QED
  BY <1>2

\* A transaction that leaves the rows js, of which few enough are active.
LEMMA CommitStep ==
    ASSUME rows \in Seq(Heads), NEW js \in [Heads -> JobRow], NEW r, Commit(js, r),
           Cardinality(InState(js, Active)) <= PinCap
    PROVE  RowInv'
<1>1. jobs' = js /\ rows' = Within(rows, Rows(js)) \o SetToSeq(Rows(js) \ ToSet(rows))
  BY DEF Commit
<1>2. Rows(js) \ ToSet(rows) \in SUBSET Heads
  BY DEF Rows
<1>3. rows' \in Seq(Heads)
  <2>1. Within(rows, Rows(js)) \in Seq(Heads) /\ SetToSeq(Rows(js) \ ToSet(rows)) \in Seq(Heads)
    BY <1>2, WithinHeads, Listed
  <2> QED
    BY <1>1, <2>1
<1>4. InState(jobs, Active)' = InState(js, Active)
  BY <1>1 DEF InState
<1> QED
  BY <1>1, <1>3, <1>4 DEF RowInv, ActiveBounded

LEMMA BoundedStep ==
    ASSUME rows \in Seq(Heads), NEW js \in [Heads -> JobRow], NEW k, NEW r, NEW indexing,
           Bounded(js, {k}, r, indexing)
    PROVE  RowInv'
BY PinsBounded, CommitStep DEF Bounded

LEMMA SetStateRows ==
    ASSUME RowInv, NEW h, NEW state \in Active \cup Finished, SetState(h, state)
    PROVE  RowInv'
<1> DEFINE marked == IF h \in Rows(jobs) THEN [jobs EXCEPT ![h].state = state] ELSE jobs
           finished == InState(marked, Finished)
           dropped == Coldest(finished, Cardinality(finished) - RecordCap)
           kept == [g \in Heads |-> IF g \in dropped THEN NoRow ELSE marked[g]]
<1>1. marked \in [Heads -> JobRow]
  BY DEF RowInv, JobRow, Rows
<1>2. CASE state \in Finished
  <2>1. \E r : Commit(kept, r)
    BY <1>2 DEF SetState
  <2>2. kept \in [Heads -> JobRow]
    BY <1>1 DEF JobRow, NoRow
  <2>3. ASSUME NEW g \in Heads, kept[g].state \in Active PROVE jobs[g].state \in Active
    <3>1. g \notin dropped
      BY <2>3 DEF NoRow, Active
    <3>2. marked[g].state \in Active
      BY <2>3, <3>1
    <3>3. jobs[g] \in JobRow /\ state \notin Active
      BY <1>2 DEF RowInv, Finished, Active
    <3> QED
      BY <3>2, <3>3 DEF RowInv, JobRow, Rows
  <2> HIDE DEF kept
  <2>4. Cardinality(InState(kept, Active)) <= PinCap
    BY <2>3, NoneActivated DEF RowInv, ActiveBounded
  <2> QED
    BY <2>1, <2>2, <2>4, CommitStep DEF RowInv
<1>3. CASE state \notin Finished
  <2>1. \E indexing : Bounded(marked, {h}, raw, indexing)
    BY <1>3 DEF SetState
  <2> HIDE DEF marked
  <2> QED
    BY <1>1, <2>1, BoundedStep DEF RowInv
<1> QED
  BY <1>2, <1>3

LEMMA RowStep ==
    ASSUME IInv, [Next]_vars
    PROVE  RowInv'
<1>0. RowInv /\ WorkerInv
  BY DEF IInv
<1>1. CASE UNCHANGED <<jobs, rows>>
  BY <1>0, <1>1 DEF RowInv, ActiveBounded, InState
<1>2. CASE Open \/ Collect \/ WorkerEnds \/ Fails \/ Stop \/ UNCHANGED vars
             \/ \E t \in Trails : PublishTrail(t) \/ EvictTrail(t) \/ UseTrail(t)
  BY <1>1, <1>2 DEF Open, Collect, WorkerEnds, Fails, Stop, vars, table, queue, env,
                    PublishTrail, EvictTrail, UseTrail
<1>3. CASE \E state \in Active \cup Finished : \E h : SetState(h, state)
  BY <1>0, <1>3, SetStateRows
<1>4. CASE Poll
  <2>1. UNCHANGED table \/ \E h : SetState(h, "paused_demand")
    BY <1>4 DEF Poll
  <2> QED
    BY <1>1, <1>3, <2>1 DEF table, Finished
<1>5. CASE Shutdown \/ Unjustified \/ Satisfied \/ Covered \/ Finish
  BY <1>3, <1>5 DEF Shutdown, Unjustified, Satisfied, Covered, Finish, Close,
                    Active, Finished
<1>6. CASE Reclaim
  <2>1. \E r : Commit(jobs, r)
    BY <1>6 DEF Reclaim
  <2> QED
    BY <1>0, <2>1, CommitStep DEF RowInv, ActiveBounded
<1>7. CASE Evict
  <2>1. PICK v, js, r : /\ js = [jobs EXCEPT ![v] = [NoRow EXCEPT !.state = "obsolete"]]
                        /\ Commit(js, r)
    BY <1>7 DEF Evict
  <2>2. js \in [Heads -> JobRow]
    BY <1>0, <2>1 DEF RowInv, JobRow, NoRow, Finished
  <2>3. \A h \in Heads : js[h].state \in Active => jobs[h].state \in Active
    BY <1>0, <2>1 DEF RowInv, NoRow, Active
  <2>4. Cardinality(InState(js, Active)) <= PinCap
    BY <1>0, <2>3, NoneActivated DEF RowInv, ActiveBounded
  <2> QED
    BY <1>0, <2>1, <2>2, <2>4, CommitStep DEF RowInv
<1>8. ASSUME NEW row \in JobRow,
             \E indexing, r : Bounded(Upserted(worker.head, row), {worker.head}, r, indexing)
      PROVE  RowInv'
  <2>1. Upserted(worker.head, row) \in [Heads -> JobRow]
    BY <1>0 DEF RowInv, Upserted
  <2> QED
    BY <1>0, <1>8, <2>1, BoundedStep DEF RowInv
<1>9. CASE OverQuota
  <2> DEFINE h == worker.head
             row == IF h \in Rows(jobs) THEN [jobs[h] EXCEPT !.state = "paused_capacity"]
                    ELSE [state |-> "paused_capacity", completed |-> worker.position,
                          checkpoint |-> "null"]
  <2>1. h \in Heads /\ worker.position \in Nat
    BY <1>0, <1>9 DEF OverQuota, Turning, WorkerInv
  <2>2. row \in JobRow
    BY <1>0, <2>1 DEF RowInv, JobRow, Active
  <2>3. \E indexing, r : Bounded(Upserted(h, row), {h}, r, indexing)
    BY <1>9 DEF OverQuota
  <2> QED
    BY <1>8, <2>2, <2>3
<1>10. CASE Stage
  <2> DEFINE h == worker.head
             row == [state |-> "running", completed |-> End, checkpoint |-> Walk[h][End]]
  <2>1. row \in JobRow
    <3>1. End \in Nat /\ Walk[h][End] \in Commits
      BY <1>0, <1>10, BatchFacts DEF Stage, Turning
    <3> QED
      BY <3>1 DEF JobRow, Active
  <2>2. \E indexing, r : Bounded(Upserted(h, row), {h}, r, indexing)
    BY <1>10 DEF Stage
  <2> QED
    BY <1>8, <2>1, <2>2
<1>11. CASE Restart
  <2>1. \E r : Commit(BoundPins(jobs, {}), r)
    BY <1>11 DEF Restart
  <2> QED
    BY <1>0, <2>1, PinsBounded, CommitStep DEF RowInv
<1> QED
  BY <1>2, <1>4, <1>5, <1>6, <1>7, <1>9, <1>10, <1>11 DEF Next, Turn

-----------------------------------------------------------------------------
(* The queue *)

\* What is admitted is new, and there is room for it.
LEMMA AdmittedFew ==
    ASSUME known \in SUBSET Heads, Cardinality(known) <= QueueCap,
           NEW wanted \in SUBSET Heads
    PROVE  /\ Admitted(wanted) \in SUBSET (wanted \ known)
           /\ Cardinality(known \cup Admitted(wanted)) <= QueueCap
<1> DEFINE new == wanted \ known
           room == QueueCap - Cardinality(known)
           A == Admitted(wanted)
<1>1. A = {h \in new : Rank(new, h) < room}
  BY DEF Admitted, Rank
<1>2. /\ new \in SUBSET Nat /\ IsFiniteSet(new) /\ IsFiniteSet(known) /\ IsFiniteSet(A)
      /\ Cardinality(known) \in Nat /\ Cardinality(A) \in Nat
      /\ QueueCap \in Nat /\ room \in Nat /\ A \in SUBSET new
  <2>1. IsFiniteSet(Heads) /\ Heads \in SUBSET Nat /\ QueueCap \in Nat
    BY ConstantsAssumption
  <2>2. new \in SUBSET Heads /\ A \in SUBSET Heads /\ A \in SUBSET new
    BY <1>1
  <2> HIDE DEF new, A
  <2>3. IsFiniteSet(new) /\ IsFiniteSet(A) /\ IsFiniteSet(known)
    BY <2>1, <2>2, FS_Subset
  <2>4. Cardinality(known) \in Nat /\ Cardinality(A) \in Nat
    BY <2>3, FS_CardinalityType
  <2> QED
    BY <2>1, <2>2, <2>3, <2>4
<1> HIDE DEF A, new, room
<1>8. Cardinality(A) <= room
  BY <1>1, <1>2, FirstFew
<1>9. known \cap A = {}
  BY <1>2 DEF new
<1>10. Cardinality(known \cup A) = Cardinality(known) + Cardinality(A)
  <2>1. Cardinality(known \cup A) =
           Cardinality(known) + Cardinality(A) - Cardinality(known \cap A)
    BY <1>2, FS_Union
  <2>2. Cardinality(known \cap A) = 0
    BY <1>9, FS_EmptySet
  <2> QED
    BY <1>2, <2>1, <2>2
<1>11. Cardinality(known \cup A) <= QueueCap
  BY <1>2, <1>8, <1>10 DEF room
<1> QED
  BY <1>2, <1>11 DEF A, new

LEMMA QueueSize ==
    ASSUME QueueInv
    PROVE  QueueExact
<1>1. /\ IsFiniteSet(ToSet(ready)) /\ Cardinality(ToSet(ready)) = Len(ready)
      /\ Len(ready) \in Nat
  BY DistinctItems, Items DEF QueueInv
<1>2. CASE Busy
  BY <1>1, <1>2, FS_AddElement DEF QueueInv, QueueExact
<1>3. CASE ~Busy
  BY <1>1, <1>3 DEF QueueInv, QueueExact
<1> QED
  BY <1>2, <1>3

LEMMA EmptyQueue ==
    /\ <<>> \in Seq(Heads) /\ IsInjective(<<>>) /\ ToSet(<<>>) = {}
    /\ Cardinality({}) <= QueueCap
BY FS_EmptySet, ConstantsAssumption DEF IsInjective, ToSet

LEMMA EndTurnQueue ==
    ASSUME WorkerInv, QueueInv, Busy, EndTurn
    PROVE  QueueInv'
<1>1. /\ known' = known \ {worker.head} /\ ready' = ready /\ ~Busy' /\ worker' = Idle
      /\ sessions' = [sessions EXCEPT ![worker.head] = NoSession]
  BY DEF EndTurn, Busy, Idle
<1>2. known' = ToSet(ready)
  BY <1>1 DEF QueueInv
<1>3. known' \in SUBSET known /\ IsFiniteSet(known)
  <2>1. known \in SUBSET Heads
    BY Items DEF QueueInv, Busy, WorkerInv
  <2> QED
    BY <1>1, <2>1, ConstantsAssumption, FS_Subset
<1>4. Cardinality(known') <= QueueCap
  <2>1. /\ Cardinality(known') <= Cardinality(known) /\ Cardinality(known) <= QueueCap
        /\ Cardinality(known') \in Nat /\ Cardinality(known) \in Nat /\ QueueCap \in Nat
    BY <1>3, FS_Subset, FS_CardinalityType, ConstantsAssumption DEF QueueInv
  <2> QED
    BY <2>1
<1>5. \A h \in Heads : sessions'[h] # NoSession => h \in ToSet(ready)
  BY <1>1 DEF QueueInv, WorkerInv
<1> QED
  BY <1>1, <1>2, <1>4, <1>5 DEF QueueInv

LEMMA PollQueue ==
    ASSUME WorkerInv, QueueInv, Poll
    PROVE  QueueInv'
<1>1. PICK targets \in [Heads -> Targets], tried \in SUBSET Heads :
         LET wanted == {h \in Heads : targets[h] > 0}
             new == Admitted(wanted \ tried)
             filled == ready \o InOrder(new)
             h == Head(filled)
         IN  /\ filled # <<>>
             /\ ready' = Tail(filled)
             /\ IF h \in wanted
                THEN /\ known' = known \cup new
                     /\ worker' = [Idle EXCEPT !.at = "open", !.head = h,
                                              !.target = targets[h]]
                     /\ UNCHANGED sessions
                ELSE /\ known' = (known \cup new) \ {h}
                     /\ sessions' = [sessions EXCEPT ![h] = NoSession]
                     /\ UNCHANGED worker
  BY DEF Poll
<1> DEFINE wanted == {h \in Heads : targets[h] > 0}
           new == Admitted(wanted \ tried)
           filled == ready \o InOrder(new)
           h == Head(filled)
<1>2. ~Busy /\ worker = Idle /\ known = ToSet(ready) /\ worker.head \notin Heads
  BY ConstantsAssumption DEF Poll, Busy, WorkerInv, QueueInv, Idle, NoHead
<1>3. known \in SUBSET Heads /\ Cardinality(known) <= QueueCap
  BY <1>2, Items DEF QueueInv
<1>4. new \in SUBSET Heads /\ new \cap known = {} /\ Cardinality(known \cup new) <= QueueCap
  <2>1. wanted \ tried \in SUBSET Heads
    OBVIOUS
  <2> HIDE DEF wanted
  <2>2. PICK W \in SUBSET Heads : W = wanted \ tried
    BY <2>1
  <2>3. /\ Admitted(W) \in SUBSET (W \ known)
        /\ Cardinality(known \cup Admitted(W)) <= QueueCap
    BY <1>3, AdmittedFew
  <2> QED
    BY <2>2, <2>3
<1> HIDE DEF new
<1>5. /\ InOrder(new) \in Seq(Heads) /\ IsInjective(InOrder(new))
      /\ ToSet(InOrder(new)) = new
  <2>1. new \in SUBSET Nat /\ IsFiniteSet(new)
    BY <1>4, ConstantsAssumption, FS_Subset
  <2>2. /\ Cardinality(new) \in Nat /\ InOrder(new) \in [1..Cardinality(new) -> new]
        /\ IsInjective(InOrder(new)) /\ ToSet(InOrder(new)) = new
    BY <2>1, Sorted
  <2>3. InOrder(new) \in Seq(new)
    BY <2>2
  <2> QED
    BY <1>4, <2>2, <2>3
<1>6. /\ filled \in Seq(Heads) /\ IsInjective(filled)
      /\ ToSet(filled) = known \cup new
  BY <1>2, <1>4, <1>5, JoinedItems DEF QueueInv
<1> HIDE DEF filled
<1>7. filled # <<>> /\ ready' = Tail(filled)
  BY <1>1 DEF filled, new
<1>8. /\ h \in Heads /\ h \in known \cup new
      /\ ready' \in Seq(Heads) /\ IsInjective(ready')
      /\ ToSet(ready') = (known \cup new) \ {h}
  BY <1>6, <1>7, TailItems
<1>9. \A g \in Heads : sessions[g] # NoSession => g \in known \cup new
  BY <1>2 DEF QueueInv
<1>10. ToSet(ready)' = ToSet(ready')
  BY DEF ToSet
<1> HIDE DEF h, wanted
<1>11. CASE h \in wanted
  <2>1. /\ known' = known \cup new /\ UNCHANGED sessions
        /\ worker' = [Idle EXCEPT !.at = "open", !.head = h, !.target = targets[h]]
    BY <1>1, <1>11 DEF h, filled, new, wanted
  <2>2. Busy' /\ worker'.head = h
    BY <2>1 DEF Busy, Idle
  <2> QED
    BY <1>4, <1>8, <1>9, <2>1, <2>2 DEF QueueInv
<1>12. CASE h \notin wanted
  <2>1. /\ known' = (known \cup new) \ {h} /\ UNCHANGED worker
        /\ sessions' = [sessions EXCEPT ![h] = NoSession]
    BY <1>1, <1>12 DEF h, filled, new, wanted
  <2>2. ~Busy' /\ worker'.head = worker.head
    BY <1>2, <2>1 DEF Busy
  <2>3. Cardinality(known') <= QueueCap
    <3>1. known \cup new \in SUBSET Heads /\ known' \in SUBSET (known \cup new)
      BY <1>3, <1>4, <2>1
    <3>2. IsFiniteSet(known \cup new) /\ IsFiniteSet(known')
      BY <3>1, ConstantsAssumption, FS_Subset
    <3>3. /\ Cardinality(known') <= Cardinality(known \cup new)
          /\ Cardinality(known') \in Nat /\ Cardinality(known \cup new) \in Nat
          /\ QueueCap \in Nat
      BY <3>1, <3>2, ConstantsAssumption, FS_Subset, FS_CardinalityType
    <3> QED
      BY <1>4, <3>3
  <2>4. \A g \in Heads : sessions'[g] # NoSession => g \in (known \cup new) \ {h}
    BY <1>8, <1>9, <2>1 DEF WorkerInv
  <2> QED
    BY <1>8, <2>1, <2>2, <2>3, <2>4 DEF QueueInv
<1> QED
  BY <1>11, <1>12

LEMMA QueueStep ==
    ASSUME IInv, [Next]_vars
    PROVE  QueueInv'
<1>0. WorkerInv /\ QueueInv
  BY DEF IInv
<1>1. CASE Poll
  BY <1>0, <1>1, PollQueue
<1>2. CASE Shutdown \/ Unjustified \/ Satisfied \/ Covered \/ Finish \/ Fails \/ OverQuota
  <2>1. Busy /\ EndTurn
    BY <1>2 DEF Shutdown, Unjustified, Satisfied, Covered, Finish, Close, Fails,
                OverQuota, Turning, Busy
  <2> QED
    BY <1>0, <2>1, EndTurnQueue
<1>3. CASE Collect \/ Reclaim \/ Evict
  <2>1. /\ UNCHANGED <<queue, sessions>> /\ Busy /\ Busy'
        /\ worker'.head = worker.head
    BY <1>0, <1>3 DEF Collect, Reclaim, Evict, Turning, Busy, WorkerInv
  <2> QED
    BY <1>0, <2>1 DEF QueueInv, queue
<1>4. CASE Open
  <2>1. /\ UNCHANGED queue /\ Busy /\ Busy' /\ worker'.head = worker.head
        /\ sessions' = [sessions EXCEPT ![worker.head] = NoSession]
    BY <1>0, <1>4 DEF Open, Busy, WorkerInv
  <2> QED
    BY <1>0, <2>1 DEF QueueInv, queue, WorkerInv
<1>5. CASE Stage
  <2> DEFINE h == worker.head
  <2>1. Busy /\ h \in Heads /\ known' = known /\ h \notin ToSet(ready)
    BY <1>0, <1>5 DEF Stage, Turning, Busy, WorkerInv, QueueInv
  <2>2. CASE End < worker.goal
    <3>0. /\ ready' = Append(ready, h) /\ worker' = Idle
          /\ sessions' = [sessions EXCEPT ![h] =
                             [target |-> worker.target, position |-> End]]
      BY <1>5, <2>2 DEF Stage
    <3>1. /\ ready' = Append(ready, h) /\ worker' = Idle /\ ~Busy'
          /\ \E s : sessions' = [sessions EXCEPT ![h] = s]
      BY <3>0 DEF Busy, Idle
    <3>2. /\ ready' \in Seq(Heads) /\ IsInjective(ready')
          /\ ToSet(ready') = ToSet(ready) \cup {h}
      BY <1>0, <2>1, <3>1, AppendedItem DEF QueueInv
    <3> QED
      BY <1>0, <2>1, <3>1, <3>2 DEF QueueInv, WorkerInv
  <2>3. CASE ~(End < worker.goal)
    <3>1. UNCHANGED <<ready, sessions>> /\ Busy' /\ worker'.head = h
      BY <1>0, <1>5, <2>3 DEF Stage, Busy, WorkerInv
    <3> QED
      BY <1>0, <2>1, <3>1 DEF QueueInv
  <2> QED
    BY <2>2, <2>3
<1>6. CASE WorkerEnds
  <2>1. /\ UNCHANGED queue /\ ~Busy /\ ~Busy'
        /\ \A h \in Heads : sessions'[h] = NoSession
    BY <1>6 DEF WorkerEnds, Busy, Idle
  <2> QED
    BY <1>0, <2>1 DEF QueueInv, queue
<1>7. CASE Restart
  <2>1. /\ known' = {} /\ ready' = <<>> /\ ~Busy'
        /\ \A h \in Heads : sessions'[h] = NoSession
    BY <1>7 DEF Restart, Busy, Idle
  <2> QED
    BY <2>1, EmptyQueue DEF QueueInv
<1>8. CASE Stop \/ UNCHANGED vars
             \/ \E t \in Trails : PublishTrail(t) \/ EvictTrail(t) \/ UseTrail(t)
  <2>1. UNCHANGED <<queue, sessions, worker>>
    BY <1>8 DEF Stop, vars, PublishTrail, EvictTrail, UseTrail
  <2> QED
    BY <1>0, <2>1 DEF QueueInv, queue, Busy
<1> QED
  BY <1>1, <1>2, <1>3, <1>4, <1>5, <1>6, <1>7, <1>8 DEF Next, Turn

-----------------------------------------------------------------------------
LEMMA InitInvariant == Init => IInv
<1>1. Init => WorkerInv
  BY DEF Init, WorkerInv, Idle, NoSession
<1>2. Init => FactInv
  BY DEF Init, FactInv, RetainedKept, Retained
<1>3. ASSUME Init PROVE RowInv
  <2>1. jobs \in [Heads -> JobRow] /\ rows \in Seq(Heads)
    BY <1>3 DEF Init, JobRow, NoRow
  <2>2. InState(jobs, Active) = {}
    BY <1>3 DEF Init, InState, NoRow, Active
  <2> QED
    BY <2>1, <2>2, FS_EmptySet, ConstantsAssumption DEF RowInv, ActiveBounded
<1>4. Init => QueueInv
  BY EmptyQueue DEF Init, QueueInv, Busy, Idle
<1> QED
  BY <1>1, <1>2, <1>3, <1>4 DEF IInv

LEMMA StepInvariant == IInv /\ [Next]_vars => IInv'
BY FactStep, WorkerStep, RowStep, QueueStep DEF IInv

\* For any instance: where the worker is and with what, which facts and rows
\* there are, and what is queued.
THEOREM InductiveInvariant == Spec => []IInv
BY InitInvariant, StepInvariant, PTL DEF Spec

\* prefetch_jobs never holds more than the cap of active rows: the capacity
\* bound of set_prefetch_state and record_prefetch_batch takes as many of the
\* oldest as there are too many, though the row it runs for is spared, and no
\* eviction, error or restart makes a row active.
THEOREM ActiveRowsBounded == Spec => []ActiveBounded
BY InductiveInvariant, PTL DEF IInv, RowInv

\* PrefetchQueue: known is exactly what is queued and being worked on, each
\* head once and no more than the cap, and a head that will have no other turn
\* keeps no session.
THEOREM QueueIsExact == Spec => []QueueExact
<1>1. IInv => QueueExact
  BY QueueSize DEF IInv
<1> QED
  BY <1>1, InductiveInvariant, PTL

\* reclaim, evict_lru, bound_prefetch_pins and set_prefetch_state never take a
\* raw fact that a retained trail needs, whatever is pinned or over quota.
THEOREM RetainedFactsKept == Spec => []RetainedKept
BY InductiveInvariant, PTL DEF IInv, FactInv

\* record_prefetch_batch keeps to staging_max_bytes: only the eviction of a
\* trail, whose facts become staged ones, takes the count over it.
THEOREM QuotaKept == Spec => OnlyEvictionOverfills
<1>1. ASSUME IInv, [Next]_vars
      PROVE  [Staged(raw', trails') > Quota /\ Staged(raw', trails') > Staged(raw, trails)
                 => trails' # trails]_vars
  BY <1>1, OverfillStep
<1> QED
  BY <1>1, InductiveInvariant, PTL DEF Spec, OnlyEvictionOverfills
=============================================================================
